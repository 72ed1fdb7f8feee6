-------------------------- MODULE SchedulingPolicies --------------------------
(***************************************************************************)
(* The order in which axonvex::core::RealTimeScheduler executes the tasks  *)
(* that are ready in a cycle.  selectReadyTasksForCycle() computes it once *)
(* per cycle; the schedule*() functions, which it replaced in the loop and *)
(* which scheduleCustom() still falls back on, select one task at a time.  *)
(*                                                                         *)
(* It orders the ready set of SchedulerTasks, the part of the scheduler    *)
(* that selects, claims and executes.                                      *)
(*                                                                         *)
(* A task is its position in the iteration order of the map tasks_.  The   *)
(* policies that sort differ in the key they compare: the priority, the    *)
(* absolute deadline or the period.                                        *)
(***************************************************************************)
EXTENDS SchedulerTasks, SequencesExt

\* enum class SchedulerPriority
SchedulerPriority == [IDLE |-> 0, LOW |-> 1, NORMAL |-> 2, HIGH |-> 3, REAL_TIME |-> 4, CRITICAL |-> 5]
Levels == {"IDLE", "NORMAL", "CRITICAL"}
Keys   == {SchedulerPriority[l] : l \in Levels}

inMapOrder(S) == SetToSortSeq(S, LAMBDA a, b : a < b)

-----------------------------------------------------------------------------
(* selectReadyTasksForCycle(), for the ready set S and the cursor t         *)

\* std::sort does not say how ties are broken.
sorted(key, S) ==
  {s \in SetToSeqs(S) : \A i, j \in DOMAIN s : i < j => key[s[i]] <= key[s[j]]}

\* Fault: the rotation starts at the task selected last, not behind it.
rotatedFrom(S, t) == inMapOrder({u \in S : u >= t}) \o inMapOrder({u \in S : u < t})

\* std::rotate to the task behind the cursor, when the cursor is in S.
rotated(S, t) == IF t \in S THEN inMapOrder({u \in S : u > t}) \o inMapOrder({u \in S : u <= t})
                 ELSE inMapOrder(S)

-----------------------------------------------------------------------------
(* schedulePriorityBased(), scheduleEarliestDeadlineFirst() and             *)
(* scheduleRateMonotonic(); scheduleRoundRobin(): what is selected next     *)

selectedOne(key, S) == {u \in S : \A v \in S : key[u] <= key[v]}

nextBehind(S, t) == (inMapOrder({u \in S : u > t}) \o inMapOrder({u \in S : u <= t}))[1]

-----------------------------------------------------------------------------

Rest(s, i) == {s[j] : j \in i..Len(s)}

\* The order of the ready set S is the one that the single-shot function gives, one task
\* after the other; for the rotation, when it starts at a task of S.
AgreesOn(S) ==
  /\ \A key \in [S -> Keys] : \A s \in sorted(key, S) :
       \A i \in DOMAIN s : s[i] \in selectedOne(key, Rest(s, i))
  /\ \A t \in S \cup {0} :
       LET s == rotated(S, t)
       IN  \A i \in DOMAIN s : s[i] = nextBehind(Rest(s, i), IF i = 1 THEN t ELSE s[i - 1])

\* With priorities as keys, a task of higher priority is executed before one of lower.
UrgentFirstOn(S) ==
  \A level \in [S -> Levels] :
    LET key == [u \in S |-> SchedulerPriority[level[u]]]
    IN  \A s \in sorted(key, S) : \A i, j \in DOMAIN s : i < j => key[s[i]] >= key[s[j]]

\* TLC computes this once, for every ready set that a cycle may select.
EveryOrderAgrees == \A S \in SUBSET Ids : AgreesOn(S)

\* timingController.cpp:757-759: the order of a cycle is the policy's "computed once for
\* every ready task", that is what one single-shot selection after the other would give.
CycleAgreesWithSingleShot == loopPc = "pick" => EveryOrderAgrees

\* timingController.hpp:29-36: a CRITICAL task of the ready set is not executed after an
\* IDLE one of the same cycle.
UrgentFirst == loopPc = "pick" => UrgentFirstOn(ready)
=============================================================================
