----------------------------- MODULE Registries ------------------------------
(***************************************************************************)
(* axonvex::core::UnitRegistry and SystemPortRegistry, and the calls of    *)
(* AxonVexSystem that keep them in step: threads register and remove units *)
(* and give ports of units a name in the system.                           *)
(***************************************************************************)
EXTENDS Naturals, FiniteSets, Functions

CONSTANTS Callers, Units, Names,
          maxUnits_,
          QuietReset  \* nobody registers a unit while reset() clears the registry

Nobody == "nobody"
Nothing == [x \in {} |-> Nobody]

VARIABLES units,       \* units_: ids to units
          unitToId,    \* unitToId_: units to ids
          nextUnitId,  \* nextUnitId_
          mutex,       \* who holds mutex_ across a callback
          ports,       \* inputs_ and outputs_ of SystemPortRegistry: names to owners of ports
          live,        \* units that are constructed and not destroyed
          made,        \* units that were ever registered
          doomed,      \* units a caller got out of the registry and will destroy
          call,        \* where a caller is
          arg,         \* the unit it is about
          wronged,     \* a unit was used after its end, or destroyed under mutex_
          orphaned     \* units cleared, or removed while somebody named a port of theirs

registryVars == <<units, unitToId, nextUnitId, mutex, ports, live, made, doomed, call, arg,
                  wronged, orphaned>>
tables == <<units, unitToId>>

RegistryInit ==
  /\ units = Nothing /\ unitToId = Nothing /\ nextUnitId = 1 /\ mutex = Nobody
  /\ ports = Nothing
  /\ live = {} /\ made = {} /\ wronged = {} /\ orphaned = {}
  /\ doomed = [t \in Callers |-> {}] /\ arg = [t \in Callers |-> Nobody]
  /\ call = [t \in Callers |-> "idle"]

goto(t, from, to) == call[t] = from /\ call' = [call EXCEPT ![t] = to]

\* Fault: the lock is released before the callback: add() and the pointer it leaves behind.
freeDuringCallback == TRUE

\* Nobody is inside a callback under mutex_; what takes the lock for itself only is one step.
free == mutex = Nobody

use(us) == wronged' = wronged \cup (us \ live)

-----------------------------------------------------------------------------
(* UnitRegistry.                                                           *)

\* addAndRun(): the unit is inserted, and the lock kept for onAdded().  An id that is taken
\* already is overwritten: its unit is destroyed here.
addAndRun(t, u) ==
  /\ free /\ goto(t, "idle", "onAdded") /\ u \notin made
  /\ Cardinality(DOMAIN units) < maxUnits_
  /\ QuietReset => \A s \in Callers : call[s] \notin {"destroyAndReset", "resetIds"}
  /\ mutex' = t /\ arg' = [arg EXCEPT ![t] = u] /\ made' = made \cup {u}
  /\ units' = [i \in DOMAIN units \cup {nextUnitId} |-> IF i = nextUnitId THEN u ELSE units[i]]
  /\ unitToId' = [v \in DOMAIN unitToId \cup {u} |-> IF v = u THEN nextUnitId ELSE unitToId[v]]
  /\ LET over == IF nextUnitId \in DOMAIN units THEN {units[nextUnitId]} ELSE {}
     IN live' = (live \cup {u}) \ over /\ wronged' = wronged \cup over
  /\ nextUnitId' = nextUnitId + 1
  /\ UNCHANGED <<ports, doomed, orphaned>>

\* onAdded() of registerProcessingUnit(): the unit is scheduled; or that throws, and the unit is
\* taken out again before the lock is released.
onAdded(t) ==
  /\ use({arg[t]}) /\ mutex' = Nobody /\ arg' = [arg EXCEPT ![t] = Nobody]
  /\ \/ goto(t, "onAdded", "idle") /\ UNCHANGED <<tables, doomed>>
     \/ /\ goto(t, "onAdded", "destroy")
        /\ units' = Restrict(units, {i \in DOMAIN units : units[i] # arg[t]})
        /\ unitToId' = Restrict(unitToId, DOMAIN unitToId \ {arg[t]})
        /\ doomed' = [doomed EXCEPT ![t] = {arg[t]}]
  /\ UNCHANGED <<nextUnitId, ports, live, made, orphaned>>

\* startComponents(): forEach() holds the lock while it schedules all of them.
forEach(t) ==
  /\ free /\ call[t] = "idle" /\ use(DOMAIN unitToId)
  /\ UNCHANGED <<tables, nextUnitId, mutex, ports, live, made, doomed, call, arg, orphaned>>

\* find(), idOf(): who holds no lock gets an id or nothing.
idOf(u) == IF u \in DOMAIN unitToId THEN {unitToId[u]} ELSE {}

\* remove(): one caller gets the unit.
remove(t, i) ==
  /\ free /\ goto(t, "idle", "ports") /\ i \in DOMAIN units
  /\ LET u == units[i]
     IN  /\ unitToId' = Restrict(unitToId, DOMAIN unitToId \ {u})
         /\ doomed' = [doomed EXCEPT ![t] = {u}] /\ arg' = [arg EXCEPT ![t] = u]
         /\ orphaned' = IF \E s \in Callers : call[s] = "assign" /\ arg[s] = u
                        THEN orphaned \cup {u} ELSE orphaned
  /\ units' = Restrict(units, DOMAIN units \ {i})
  /\ UNCHANGED <<nextUnitId, mutex, ports, live, made, wronged>>

\* clear(), of emergencyShutdown() and of reset(), which goes on to resetIds().
clear(t) ==
  /\ free /\ \E next \in {"destroy", "destroyAndReset"} : goto(t, "idle", next)
  /\ units' = Nothing /\ unitToId' = Nothing
  /\ doomed' = [doomed EXCEPT ![t] = DOMAIN unitToId]
  /\ orphaned' = orphaned \cup DOMAIN unitToId
  /\ UNCHANGED <<nextUnitId, mutex, ports, live, made, arg, wronged>>

\* What a caller got is destroyed by it.
destroy(t) ==
  /\ \/ goto(t, "destroy", "idle") \/ goto(t, "destroyAndReset", "resetIds")
  /\ live' = live \ doomed[t] /\ doomed' = [doomed EXCEPT ![t] = {}]
  /\ wronged' = IF mutex = t THEN wronged \cup doomed[t] ELSE wronged
  /\ arg' = [arg EXCEPT ![t] = Nobody]
  /\ UNCHANGED <<tables, nextUnitId, mutex, ports, made, orphaned>>

resetIds(t) ==
  /\ free /\ goto(t, "resetIds", "idle") /\ nextUnitId' = 1
  /\ UNCHANGED <<tables, mutex, ports, live, made, doomed, arg, wronged, orphaned>>

-----------------------------------------------------------------------------
(* SystemPortRegistry.                                                     *)

\* assignSystemInputPort(), assignSystemOutputPort(): the unit is looked up,
findUnit(t, u) ==
  /\ free /\ goto(t, "idle", "assign") /\ idOf(u) # {}
  /\ arg' = [arg EXCEPT ![t] = u]
  /\ UNCHANGED <<tables, nextUnitId, mutex, ports, live, made, doomed, wronged, orphaned>>

\* then its port is entered, if the name is free.  (The unit is not protected meanwhile: see
\* `orphaned`.)
assign(t, n) ==
  /\ goto(t, "assign", "idle") /\ arg' = [arg EXCEPT ![t] = Nobody]
  /\ ports' = IF n \in DOMAIN ports THEN ports
              ELSE [m \in DOMAIN ports \cup {n} |-> IF m = n THEN arg[t] ELSE ports[m]]
  /\ UNCHANGED <<tables, nextUnitId, mutex, live, made, doomed, wronged, orphaned>>

\* The two calls together.
assignSystemPort(t) == (\E u \in Units : findUnit(t, u)) \/ (\E n \in Names : assign(t, n))

\* describeInputs(), describeOutputs(): the ports are asked for their types and owners under the
\* lock (of those that are excepted below nothing is said).
describe(t) ==
  /\ call[t] = "idle" /\ use(Range(ports) \ orphaned)
  /\ UNCHANGED <<tables, nextUnitId, mutex, ports, live, made, doomed, call, arg, orphaned>>

\* removeSystemInputPort(), removeSystemOutputPort().
removePort(t, n) ==
  /\ call[t] = "idle" /\ n \in DOMAIN ports
  /\ ports' = Restrict(ports, DOMAIN ports \ {n})
  /\ UNCHANGED <<tables, nextUnitId, mutex, live, made, doomed, call, arg, wronged, orphaned>>

\* Fault: the unit goes first, its ports are looked for behind.
removeAllForOwnerLate(t) ==
  /\ goto(t, "ports", "destroy")
  /\ live' = live \ doomed[t]
  /\ ports' = Restrict(ports, {n \in DOMAIN ports : ports[n] \in live})
  /\ UNCHANGED <<tables, nextUnitId, mutex, made, doomed, arg, wronged, orphaned>>

\* removeAllForOwner(): unregisterProcessingUnit() goes on to destroy the unit.
removeAllForOwner(t) ==
  /\ goto(t, "ports", "destroy")
  /\ ports' = Restrict(ports, {n \in DOMAIN ports : ports[n] # arg[t]})
  /\ UNCHANGED <<tables, nextUnitId, mutex, live, made, doomed, arg, wronged, orphaned>>

unregisterProcessingUnit(t) == (\E i \in DOMAIN units : remove(t, i)) \/ removeAllForOwner(t)

\* cleanupComponents() of stop().
clearPorts(t) ==
  /\ call[t] = "idle" /\ ports' = Nothing
  /\ UNCHANGED <<tables, nextUnitId, mutex, live, made, doomed, call, arg, wronged, orphaned>>

RegistryNext ==
  \E t \in Callers :
    \/ \E u \in Units : addAndRun(t, u)
    \/ \E n \in Names : removePort(t, n)
    \/ assignSystemPort(t) \/ describe(t) \/ unregisterProcessingUnit(t)
    \/ onAdded(t) \/ forEach(t) \/ clear(t) \/ destroy(t) \/ resetIds(t) \/ clearPorts(t)

-----------------------------------------------------------------------------

\* "no unit destructor ever runs under it" (unitRegistry.hpp), and no callback sees a unit that
\* another thread has freed; the two tables are one, and ids are not given twice.
RegistrySound ==
  /\ wronged = {}
  /\ DOMAIN unitToId = {units[i] : i \in DOMAIN units}
  /\ \A i \in DOMAIN units : unitToId[units[i]] = i /\ i < nextUnitId /\ units[i] \in live

\* A name leads to a port of a unit that lives; but for units that emergencyShutdown() cleared or
\* that were removed while a port of theirs was being named.
NamesLeadToLive == \A n \in DOMAIN ports : ports[n] \in live \cup orphaned

\* "the owning system removes a unit's entries via removeAllForOwner() before the unit itself is
\* destroyed" (systemPortRegistry.hpp:32).
EntriesAreLive == \A n \in DOMAIN ports : ports[n] \in live
=============================================================================
