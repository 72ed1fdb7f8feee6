---------------------------- MODULE WatchdogProofs ----------------------------
(***************************************************************************)
(* What holds of Watchdog for every set of periods with a longest one,     *)
(* every lag of the worker and every number of ticks.                      *)
(***************************************************************************)
EXTENDS Watchdog, TLAPS

\* Once the deadline was set, what is left of it and the time since it was moved make up a
\* period, unless a whole period has gone by.
Paced == left + fed >= period \/ fed >= period

\* The deadline is set before the worker first looks at it.
PacedWhenLooking == pc # "none" \/ owner = "spawn" => Paced

IInv == TypeOK /\ PacedWhenLooking /\ NoFalseAlarm

\* The two halves of TypeOK: the numbers, and everything else.
InRange ==
  left \in Floor..Longest /\ age \in 0..MaxLag /\ fed \in 0..Longest /\ calls \in 0..MaxCalls
InSets ==
  /\ running \in BOOLEAN /\ worker \in {"none", "running", "ended"} /\ period \in Periods
  /\ alarmed \in BOOLEAN /\ false_alarm \in BOOLEAN
  /\ owner \in {"idle", "arm", "spawn", "join"}
  /\ pc \in {"none", "top", "compare", "handler", "sleep"}

\* Longest is a period, no period is longer, and a late clock shows at least Floor.
LEMMA Limits ==
  /\ Longest \in Nat /\ \A p \in Periods : p \in Nat \ {0} /\ p <= Longest
  /\ MaxLag \in Nat /\ MaxCalls \in Nat
  /\ Floor \in Int /\ Floor + MaxLag = -1
<1>1. Longest \in Periods /\ \A p \in Periods : p <= Longest
  BY PeriodsAssumption DEF Longest
<1> QED
  BY <1>1, PeriodsAssumption, BoundsAssumption DEF Floor

\* The state in which every watchdog is constructed satisfies the invariant.
LEMMA InitIInv == Init => IInv
<1> SUFFICES ASSUME Init PROVE IInv
  OBVIOUS
<1>1. InRange
  BY Limits DEF Init, InRange
<1>2. InSets
  BY DEF Init, InSets
<1> QED
  BY <1>1, <1>2 DEF Init, IInv, TypeOK, InRange, InSets, PacedWhenLooking, NoFalseAlarm

\* The passing of time takes from what is left what it adds to the age of the last tick.
LEMMA TimeIInv == IInv /\ Time => IInv'
<1> SUFFICES ASSUME IInv, Time PROVE IInv'
  OBVIOUS
<1>1. InRange'
  BY Limits DEF IInv, TypeOK, Time, Passed, InRange
<1>2. InSets'
  BY DEF IInv, TypeOK, Time, InSets
<1>3. PacedWhenLooking'
  BY Limits DEF IInv, TypeOK, Time, Passed, PacedWhenLooking, Paced
<1> QED
  BY <1>1, <1>2, <1>3 DEF IInv, TypeOK, InRange, InSets, Time, NoFalseAlarm

\* A tick or a new period sets the deadline a whole period ahead.
LEMMA FeedIInv ==
  ASSUME IInv, NEW p \in Periods, Feed(p), period' = p, calls < MaxCalls, calls' = calls + 1,
         UNCHANGED <<running, worker, age, false_alarm, owner, pc>>
  PROVE  IInv'
<1>1. InRange'
  BY Limits DEF IInv, TypeOK, Feed, InRange
<1>2. InSets'
  BY DEF IInv, TypeOK, Feed, InSets
<1>3. PacedWhenLooking'
  BY Limits DEF Feed, PacedWhenLooking, Paced
<1> QED
  BY <1>1, <1>2, <1>3 DEF IInv, TypeOK, InRange, InSets, NoFalseAlarm

\* start() sets the deadline before it spawns the worker; stop() leaves it alone.
LEMMA OwnerIInv == IInv /\ Owner => IInv'
<1> SUFFICES ASSUME IInv, Owner PROVE IInv'
  OBVIOUS
<1>0. UNCHANGED <<period, age, false_alarm, calls>>
  BY DEF Owner, clock
<1>1. InRange'
  BY <1>0, Limits DEF IInv, TypeOK, Owner, start, stop, Feed, clock, InRange
<1>2. InSets'
  BY <1>0 DEF IInv, TypeOK, Owner, start, stop, Feed, clock, InSets
<1>3. PacedWhenLooking'
  BY <1>0, Limits DEF IInv, TypeOK, Owner, start, stop, Feed, clock, PacedWhenLooking, Paced
<1> QED
  BY <1>0, <1>1, <1>2, <1>3 DEF IInv, TypeOK, InRange, InSets, NoFalseAlarm

\* The worker reports only a deadline that has passed, and it had passed at the clock it
\* read, age ago: a whole period has gone by since it was set.
LEMMA CompareIInv == IInv /\ compare /\ UNCHANGED <<period, calls, owner>> => IInv'
<1> SUFFICES ASSUME IInv, compare, UNCHANGED <<period, calls, owner>> PROVE IInv'
  OBVIOUS
<1>1. CASE left + age <= 0
  <2>1. fed >= period
    BY <1>1, Limits DEF IInv, TypeOK, compare, PacedWhenLooking, Paced
  <2>2. left' = period - age /\ age' = 0 /\ fed' = fed
    BY <1>1, Limits DEF IInv, TypeOK, compare
  <2>3. false_alarm' = (false_alarm \/ fed < period) /\ alarmed' = TRUE /\ pc' = "handler"
    BY <1>1, Limits DEF IInv, TypeOK, compare
  <2>4. InRange'
    BY <2>2, Limits DEF IInv, TypeOK, InRange
  <2>5. ~false_alarm'
    BY <2>1, <2>3, Limits DEF IInv, TypeOK, NoFalseAlarm
  <2>6. InSets'
    BY <2>3, <2>5 DEF IInv, TypeOK, compare, InSets
  <2>7. PacedWhenLooking'
    BY <2>1, <2>2 DEF PacedWhenLooking, Paced
  <2> QED
    BY <2>4, <2>5, <2>6, <2>7 DEF IInv, TypeOK, InRange, InSets, NoFalseAlarm
<1>2. CASE ~(left + age <= 0)
  <2>1. UNCHANGED <<left, alarmed, false_alarm, fed>> /\ age' = 0 /\ pc' = "sleep"
    BY <1>2, Limits DEF compare
  <2>2. InRange'
    BY <2>1, Limits DEF IInv, TypeOK, InRange
  <2>3. InSets'
    BY <2>1 DEF IInv, TypeOK, compare, InSets
  <2>4. PacedWhenLooking'
    BY <2>1 DEF IInv, compare, PacedWhenLooking, Paced
  <2> QED
    BY <2>1, <2>2, <2>3, <2>4 DEF IInv, TypeOK, InRange, InSets, NoFalseAlarm
<1> QED
  BY <1>1, <1>2

\* The other steps of the worker touch neither the deadline nor the alarm.
LEMMA RunIInv == IInv /\ Run => IInv'
<1> SUFFICES ASSUME IInv, Run PROVE IInv'
  OBVIOUS
<1>1. CASE compare
  BY <1>1, CompareIInv DEF Run
<1>2. CASE readClock \/ callCallbacks \/ sleep
  <2>1. UNCHANGED <<left, fed, period, alarmed, false_alarm, calls, owner>> /\ pc # "none"
    BY <1>2 DEF Run, readClock, callCallbacks, sleep, clock
  <2>0. age' \in {age, 0}
    BY <1>2 DEF readClock, callCallbacks, sleep, clock
  <2>2. InRange'
    BY <2>0, <2>1, Limits DEF IInv, TypeOK, InRange
  <2>3. InSets'
    BY <1>2, <2>1 DEF IInv, TypeOK, readClock, callCallbacks, sleep, InSets
  <2>4. PacedWhenLooking'
    BY <2>1 DEF IInv, PacedWhenLooking, Paced
  <2> QED
    BY <2>1, <2>2, <2>3, <2>4 DEF IInv, TypeOK, InRange, InSets, NoFalseAlarm
<1> QED
  BY <1>1, <1>2 DEF Run

\* The invariant holds in every reachable state.
THEOREM Invariance == Spec => []IInv
<1>1. IInv /\ [Next]_vars => IInv'
  <2> SUFFICES ASSUME IInv, [Next]_vars PROVE IInv'
    OBVIOUS
  <2>1. CASE Time
    BY <2>1, TimeIInv
  <2>2. CASE tick
    BY <2>2, FeedIInv DEF tick, IInv, TypeOK
  <2>3. CASE \E p \in Periods : setPeriod(p)
    BY <2>3, FeedIInv DEF setPeriod
  <2>4. CASE Owner
    BY <2>4, OwnerIInv
  <2>5. CASE Run
    BY <2>5, RunIInv
  <2>6. CASE UNCHANGED vars
    BY <2>6 DEF vars, clock, IInv, TypeOK, PacedWhenLooking, Paced, NoFalseAlarm
  <2> QED
    BY <2>1, <2>2, <2>3, <2>4, <2>5, <2>6 DEF Next
<1> QED
  BY <1>1, InitIInv, PTL DEF Spec

\* Type correctness: what is left of the deadline never leaves the bounds set by the
\* longest period and by how late the worker may be.
THEOREM TypeCorrect == Spec => []TypeOK
  BY Invariance, PTL DEF IInv

\* No timeout is reported before a whole period of silence, whatever the periods are, how
\* they change, and however long the worker is preempted before it compares.
THEOREM NeverFalseAlarm == Spec => []NoFalseAlarm
  BY Invariance, PTL DEF IInv
=============================================================================
