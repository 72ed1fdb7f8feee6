------------------------------- MODULE Callers -------------------------------
(***************************************************************************)
(* axonvex::core::CallerKeyed, and Caller, which is one with a single key: *)
(* callbacks that are called in the order in which they were registered,   *)
(* and that may throw, register and unregister while they are called.      *)
(***************************************************************************)
EXTENDS Naturals, Sequences, SequencesExt

CONSTANTS Keys,       \* numbers: the table is ordered by key
          Callbacks,
          MaxTable    \* bound on the entries

VARIABLES keyed_callbacks_,  \* entries <<key, callback>>, by key, then by age
          loop,              \* what is left of a call: callbacks
          mode,              \* "none", or "plain" / "safe" with the callbacks of a "key" / "all"
          expected,          \* the callbacks registered when the call began
          called,            \* those called since
          exceptions_count

callerVars == <<keyed_callbacks_, loop, mode, expected, called, exceptions_count>>
loopVars == <<loop, mode, expected, called, exceptions_count>>

NoCall == [safe |-> FALSE, over |-> "none"]

CallerInit ==
  /\ keyed_callbacks_ = <<>> /\ loop = <<>> /\ mode = NoCall
  /\ expected = <<>> /\ called = <<>> /\ exceptions_count = 0

\* A callback may edit the table that a call by key took a copy from; callCallbacks() of Caller and
\* callAllCallbacks() iterate over the table itself, and callbacks must leave it alone.
editable == mode.over # "all"

registerKeyedCallback(k, c) ==
  /\ editable /\ Len(keyed_callbacks_) < MaxTable
  /\ LET before == SelectSeq(keyed_callbacks_, LAMBDA e : e[1] <= k)
         behind == SelectSeq(keyed_callbacks_, LAMBDA e : e[1] > k)
     IN  keyed_callbacks_' = Append(before, <<k, c>>) \o behind
  /\ UNCHANGED loopVars

\* unregisterKeyedCallback(), unregisterCallback(): the first of them.
unregisterKeyedCallback(k, c) ==
  /\ editable /\ Contains(keyed_callbacks_, <<k, c>>)
  /\ keyed_callbacks_' = RemoveFirst(keyed_callbacks_, <<k, c>>)
  /\ UNCHANGED loopVars

unregisterAllCallbacksForKey(k) ==
  /\ editable /\ keyed_callbacks_' = SelectSeq(keyed_callbacks_, LAMBDA e : e[1] # k)
  /\ UNCHANGED loopVars

unregisterAllCallback(c) ==
  /\ editable /\ keyed_callbacks_' = SelectSeq(keyed_callbacks_, LAMBDA e : e[2] # c)
  /\ UNCHANGED loopVars

clear ==
  /\ editable /\ keyed_callbacks_' = <<>>
  /\ UNCHANGED loopVars

\* The registrations of Caller, whose key is always the same.
registerCallback(k) ==
  \E c \in Callbacks : \/ registerKeyedCallback(k, c) \/ unregisterKeyedCallback(k, c)
                       \/ unregisterAllCallback(c)

callbacksOf(entries) == [i \in DOMAIN entries |-> entries[i][2]]

getCallbacksForKey(k) == callbacksOf(SelectSeq(keyed_callbacks_, LAMBDA e : e[1] = k))

begin(safe, over, callbacks) ==
  /\ mode = NoCall /\ mode' = [safe |-> safe, over |-> over]
  /\ loop' = callbacks /\ expected' = callbacks /\ called' = <<>> /\ exceptions_count' = 0
  /\ UNCHANGED keyed_callbacks_

callCallbacksByKey(k) == \E safe \in BOOLEAN : begin(safe, "key", getCallbacksForKey(k))
callAllCallbacks == \E safe \in BOOLEAN : begin(safe, "all", callbacksOf(keyed_callbacks_))

\* Fault: the safe call, too, ends with the first callback that throws.
callbackThrowsOut ==
  /\ loop # <<>> /\ called' = Append(called, Head(loop))
  /\ \/ loop' = Tail(loop) /\ UNCHANGED exceptions_count
     \/ loop' = <<>> /\ exceptions_count' = exceptions_count + 1
  /\ UNCHANGED <<keyed_callbacks_, mode, expected>>

\* One callback: it returns, or throws, which ends a plain call.
callbackPerform ==
  /\ loop # <<>> /\ called' = Append(called, Head(loop))
  /\ \/ loop' = Tail(loop) /\ UNCHANGED exceptions_count
     \/ loop' = (IF mode.safe THEN Tail(loop) ELSE <<>>) /\ exceptions_count' = exceptions_count + 1
  /\ UNCHANGED <<keyed_callbacks_, mode, expected>>

return ==
  /\ mode # NoCall /\ loop = <<>> /\ mode' = NoCall
  /\ UNCHANGED <<keyed_callbacks_, loop, expected, called, exceptions_count>>

CallerNext ==
  \/ \E k \in Keys : \/ unregisterAllCallbacksForKey(k) \/ callCallbacksByKey(k)
                     \/ registerCallback(k)
  \/ clear \/ callAllCallbacks \/ callbackPerform \/ return

-----------------------------------------------------------------------------

\* A safe call reaches every callback that was registered when it began, each as often as it was
\* registered and in that order, whatever they throw and edit; a plain one reaches a prefix that
\* ends with the first that throws.
EveryCallbackCalled ==
  mode # NoCall /\ loop = <<>> =>
    /\ IsPrefix(called, expected)
    /\ mode.safe \/ exceptions_count = 0 => called = expected
    /\ ~mode.safe => exceptions_count <= 1
=============================================================================
