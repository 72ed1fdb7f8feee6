---------------------------- MODULE Configuration ----------------------------
(***************************************************************************)
(* axonvex::core::Configuration: a tree of values under one lock, changed  *)
(* by threads, and callbacks that hear of the changes behind that lock.    *)
(***************************************************************************)
EXTENDS Naturals, Sequences, SequencesExt, FiniteSets, Functions

CONSTANTS Writers,
          Keys,        \* what splitKey() makes of keys: sequences of parts, maybe empty
          Leaves,      \* values that are no objects; "null" is one of them
          Trees,       \* documents that are loaded or applied, as trees
          Observers,   \* callbacks, with the keys that each pattern matches
          Pattern,
          BadLeaf,     \* the value that validateKey() refuses
          MaxChanges

Inner == "object"
None  == "absent"

VARIABLES config_data_,  \* paths to leaves, or to Inner; the root is no entry
          schema_,       \* a schema is set
          callbacks_,    \* observers that are registered
          pending,       \* changes that a writer made and did not report yet: keys and numbers
          owed,          \* changes made while an observer was registered, and not told to it
          changes_made

configVars == <<config_data_, schema_, callbacks_, pending, owed, changes_made>>

ConfigInit ==
  /\ config_data_ = [p \in {} |-> Inner] /\ schema_ = FALSE
  /\ callbacks_ = {} /\ changes_made = 0
  /\ pending = [w \in Writers |-> << >>]
  /\ owed = [o \in Observers |-> {}]

-----------------------------------------------------------------------------
(* The tree.                                                               *)

below(p, q) == p # q /\ IsPrefix(p, q)
prefixes(p) == {SubSeq(p, 1, n) : n \in 1 .. Len(p)}
valueAt(tree, p) == IF p \in DOMAIN tree THEN tree[p] ELSE None

\* getJsonPointer(key, true): every missing or null step is made an object; a step into what is
\* neither throws.
reachable(tree, k) == k # << >> /\ \A p \in prefixes(k) \ {k} : valueAt(tree, p) \in {Inner, None, "null"}
created(tree, k) ==
  [p \in DOMAIN tree \cup prefixes(k) |-> IF p \in DOMAIN tree /\ (p = k \/ p \notin prefixes(k)) THEN tree[p] ELSE Inner]

\* Fault: the subtree that a value replaces stays.
putOver(tree, k, v) == [p \in DOMAIN tree \cup {k} |-> IF p = k THEN v ELSE tree[p]]

\* A value takes the place of what is at k and below.
put(tree, k, v) ==
  [p \in {q \in DOMAIN tree : ~below(k, q)} \cup {k} |-> IF p = k THEN v ELSE tree[p]]

\* Where applyUpdates() assigns: objects are merged into objects, anything else replaces.
merges(tree, source, p) == source[p] = Inner /\ valueAt(tree, p) = Inner
assigned(tree, source) ==
  {p \in DOMAIN source : /\ ~merges(tree, source, p)
                         /\ \A q \in prefixes(p) \ {p} : merges(tree, source, q)}

merge(tree, source) ==
  LET replaced == assigned(tree, source)
      kept == {p \in DOMAIN tree : \A q \in replaced : ~IsPrefix(q, p)}
  IN  [p \in kept \cup DOMAIN source |-> IF p \in DOMAIN source THEN source[p] ELSE tree[p]]

\* merge_patch(): null removes.
mergePatch(tree, patch) ==
  LET kept == {p \in DOMAIN tree : \A q \in DOMAIN patch : patch[q] = Inner \/ ~IsPrefix(q, p)}
      new  == {p \in DOMAIN patch : patch[p] # "null"}
  IN  [p \in kept \cup new |-> IF p \in new THEN patch[p] ELSE tree[p]]

-----------------------------------------------------------------------------
(* Changes, and who hears of them.                                         *)

\* matchesPattern()
matchesPattern(key, o) == key \in Pattern[o]

\* Changes that are made now, in the order of ks: the writer will report them when the lock is
\* released.
made(w, ks) ==
  LET changes == [i \in DOMAIN ks |-> <<ks[i], changes_made + i>>]
  IN  /\ changes_made + Len(ks) <= MaxChanges /\ changes_made' = changes_made + Len(ks)
      /\ pending' = [pending EXCEPT ![w] = changes]
      /\ owed' = [o \in Observers |-> owed[o] \cup
                    IF o \in callbacks_ THEN {c[2] : c \in {d \in Range(changes) : matchesPattern(d[1], o)}}
                    ELSE {}]
      /\ UNCHANGED <<schema_, callbacks_>>

silent == UNCHANGED <<schema_, callbacks_, pending, owed, changes_made>>
free(w) == pending[w] = << >>

\* validateKey(): some names ask for a type, when there is a schema.
validateKey(v) == ~schema_ \/ v # BadLeaf

\* set(): the steps to the key are made before the value is validated, and stay when it is
\* refused.
set(w, k, v) ==
  /\ free(w) /\ reachable(config_data_, k)
  /\ LET grown == created(config_data_, k)
     IN  IF validateKey(v)
         THEN config_data_' = put(grown, k, v) /\ made(w, <<k>>)
         ELSE config_data_' = grown /\ silent

\* applyUpdates(): one report per assignment.
applyUpdates(w, source) ==
  /\ free(w) /\ config_data_' = merge(config_data_, source)
  /\ made(w, SetToSeq(assigned(config_data_, source)))

\* loadFromFile(), loadFromString(): nobody is told.
loadFromJson(w, tree) ==
  /\ free(w) /\ silent
  /\ config_data_' \in {mergePatch(config_data_, tree), tree}

\* loadFromEnvironment(): without a variable of the prefix the patch is null, no object, and takes
\* the place of the whole tree.
loadFromEnvironment(w, tree) ==
  /\ free(w) /\ silent
  /\ config_data_' \in {[p \in {} |-> Inner], mergePatch(config_data_, tree)}

remove(w, k) ==
  /\ free(w) /\ k \in DOMAIN config_data_ /\ silent
  /\ config_data_' = Restrict(config_data_, {p \in DOMAIN config_data_ : ~IsPrefix(k, p)})

clear(w) == free(w) /\ config_data_' = [p \in {} |-> Inner] /\ silent

\* setSchema(), loadSchema(): what is there passes the check of its kind.
setSchema ==
  /\ schema_' = TRUE
  /\ UNCHANGED <<config_data_, callbacks_, pending, owed, changes_made>>

\* notifyCallbacks(): who is registered is read under callbacks_mutex_, and called behind it.
notifyCallbacks(w) ==
  /\ ~free(w)
  /\ LET c == Head(pending[w])
     IN  owed' = [o \in Observers |->
                    IF o \in callbacks_ /\ matchesPattern(c[1], o) THEN owed[o] \ {c[2]} ELSE owed[o]]
  /\ pending' = [pending EXCEPT ![w] = Tail(@)]
  /\ UNCHANGED <<config_data_, schema_, callbacks_, changes_made>>

registerCallback(o) ==
  /\ o \notin callbacks_
  /\ callbacks_' = callbacks_ \cup {o}
  /\ UNCHANGED <<config_data_, schema_, pending, owed, changes_made>>

\* unregisterCallback(), clearCallbacks().
unregisterCallback(o) ==
  /\ o \in callbacks_ /\ callbacks_' = callbacks_ \ {o} /\ owed' = [owed EXCEPT ![o] = {}]
  /\ UNCHANGED <<config_data_, schema_, pending, changes_made>>

ConfigNext ==
  \/ \E w \in Writers :
       \/ \E k \in Keys, v \in Leaves : set(w, k, v)
       \/ \E t \in Trees : applyUpdates(w, t) \/ loadFromJson(w, t) \/ loadFromEnvironment(w, t)
       \/ \E k \in Keys : remove(w, k)
       \/ clear(w) \/ notifyCallbacks(w)
  \/ setSchema
  \/ \E o \in Observers : registerCallback(o) \/ unregisterCallback(o)

-----------------------------------------------------------------------------

\* Nothing lies below a leaf; and an observer misses no change of a key it matches, whatever others
\* do between a change and its report (configuration.cpp:317, :482).
ConfigurationSound ==
  /\ \A p \in DOMAIN config_data_ : \A q \in prefixes(p) \ {p} : valueAt(config_data_, q) = Inner
  /\ \A o \in Observers : owed[o] \subseteq UNION {{c[2] : c \in Range(pending[w])} : w \in Writers}
=============================================================================
