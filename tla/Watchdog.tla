------------------------------ MODULE Watchdog ------------------------------
(***************************************************************************)
(* axonvex::safety::Watchdog: a worker that compares the clock with a      *)
(* deadline every 10 ms, threads that tick the deadline on or change the   *)
(* period, and a handler that may stop the watchdog from the worker.       *)
(*                                                                         *)
(* Times are relative: left is what is left of the deadline, age is how    *)
(* long ago the worker read the clock.  MaxLag bounds how long the worker  *)
(* is preempted between reading the clock and comparing.  start() and      *)
(* stop() are called by one owner; their overlap is the same code as in    *)
(* SafetyManager and is checked there.                                     *)
(***************************************************************************)
EXTENDS Integers

CONSTANTS Periods,  \* values of period_
          MaxLag,   \* see above
          MaxCalls  \* tick() and setPeriod() calls

ASSUME PeriodsAssumption ==
  Periods \subseteq Nat \ {0} /\ \E longest \in Periods : \A p \in Periods : p <= longest
ASSUME BoundsAssumption  == MaxLag \in Nat /\ MaxCalls \in Nat

VARIABLES
  running,  \* running_
  worker,   \* worker_: "none", "running", "ended"
  period,   \* period_
  left,     \* nextDeadline_ - Clock::now(), no less than -(MaxLag + 1)
  age,      \* Clock::now() - now, for the now that run() read
  fed,      \* time since the deadline was last moved by a tick, a start or a new period
  alarmed,  \* a timeout was reported since then
  false_alarm, \* a timeout was reported less than a period after that
  calls,    \* tick() and setPeriod() calls so far
  owner,    \* where start() or stop() is
  pc        \* where the worker is

clock == <<left, age, fed>>
vars  == <<running, worker, period, clock, alarmed, false_alarm, calls, owner, pc>>

Longest == CHOOSE p \in Periods : \A q \in Periods : q <= p
Floor   == -(MaxLag + 1)

TypeOK ==
  /\ running \in BOOLEAN /\ worker \in {"none", "running", "ended"}
  /\ period \in Periods
  /\ left \in Floor..Longest /\ age \in 0..MaxLag /\ fed \in 0..Longest
  /\ alarmed \in BOOLEAN /\ false_alarm \in BOOLEAN /\ calls \in 0..MaxCalls
  /\ owner \in {"idle", "arm", "spawn", "join"}
  /\ pc \in {"none", "top", "compare", "handler", "sleep"}

Init ==
  /\ running = FALSE /\ worker = "none"
  /\ period \in Periods /\ left = 0 /\ age = 0 /\ fed = 0
  /\ alarmed = FALSE /\ false_alarm = FALSE /\ calls = 0
  /\ owner = "idle" /\ pc = "none"

-----------------------------------------------------------------------------
(* The clock and the deadline                                               *)

Passed(d) == IF d > Floor THEN d - 1 ELSE Floor

Time ==
  /\ pc = "compare" => age < MaxLag
  /\ left' = Passed(left)
  /\ age' = IF pc = "compare" THEN age + 1 ELSE age
  /\ fed' = IF fed < Longest THEN fed + 1 ELSE fed
  /\ UNCHANGED <<running, worker, period, alarmed, false_alarm, calls, owner, pc>>

Feed(p) == left' = p /\ fed' = 0 /\ alarmed' = FALSE

\* Fault: the tick reaches the deadline only when the watchdog is about to bark.
tickLate ==
  /\ calls < MaxCalls /\ calls' = calls + 1
  /\ fed' = 0 /\ alarmed' = FALSE
  /\ left' = IF left <= 0 THEN period ELSE left
  /\ UNCHANGED <<running, worker, period, age, false_alarm, owner, pc>>

tick ==
  /\ calls < MaxCalls /\ calls' = calls + 1
  /\ Feed(period)
  /\ UNCHANGED <<running, worker, period, age, false_alarm, owner, pc>>

setPeriod(p) ==
  /\ calls < MaxCalls /\ calls' = calls + 1
  /\ period' = p /\ Feed(p)
  /\ UNCHANGED <<running, worker, age, false_alarm, owner, pc>>

-----------------------------------------------------------------------------
(* start() and stop()                                                       *)

start ==
  \/ /\ owner = "idle"
     /\ running' = TRUE
     /\ owner' = IF running THEN "idle" ELSE "arm"
     /\ UNCHANGED <<worker, left, fed, alarmed, pc>>
     /\ running \/ worker = "none"
  \/ /\ owner = "arm" /\ Feed(period)
     /\ owner' = "spawn" /\ UNCHANGED <<running, worker, pc>>
  \/ /\ owner = "spawn"
     /\ worker' = "running" /\ pc' = "top" /\ owner' = "idle"
     /\ UNCHANGED <<running, left, fed, alarmed>>

stop ==
  \/ /\ owner = "idle"
     /\ running' = FALSE /\ owner' = "join" /\ UNCHANGED worker
  \/ /\ owner = "join" /\ worker # "running"
     /\ worker' = "none" /\ owner' = "idle" /\ UNCHANGED running

Owner ==
  \/ start /\ UNCHANGED <<period, age, false_alarm, calls>>
  \/ stop /\ UNCHANGED <<period, clock, alarmed, false_alarm, calls, pc>>

-----------------------------------------------------------------------------
(* run()                                                                    *)

\* Fault: the worker does not look whether it was stopped.
readClockForever ==
  /\ pc = "top" /\ pc' = "compare" /\ age' = 0
  /\ UNCHANGED <<running, worker, left, fed, alarmed, false_alarm>>

readClock ==
  /\ pc = "top"
  /\ IF running THEN pc' = "compare" /\ UNCHANGED worker
                ELSE pc' = "none" /\ worker' = "ended"
  /\ age' = 0
  /\ UNCHANGED <<running, left, fed, alarmed, false_alarm>>

\* Fault: a deadline that has passed by more than one turn of the loop is not noticed.
compareExactly ==
  /\ pc = "compare"
  /\ \/ /\ left + age = 0
        /\ left' = period - age /\ alarmed' = TRUE
        /\ false_alarm' = (false_alarm \/ fed < period)
        /\ pc' = "handler"
     \/ left + age # 0 /\ pc' = "sleep" /\ UNCHANGED <<left, alarmed, false_alarm>>
  /\ age' = 0 /\ UNCHANGED <<running, worker, fed>>

compare ==
  /\ pc = "compare"
  /\ \/ /\ left + age <= 0
        /\ left' = period - age /\ alarmed' = TRUE
        /\ false_alarm' = (false_alarm \/ fed < period)
        /\ pc' = "handler"
     \/ /\ left + age > 0
        /\ pc' = "sleep" /\ UNCHANGED <<left, alarmed, false_alarm>>
  /\ age' = 0
  /\ UNCHANGED <<running, worker, fed>>

\* A handler that returns, throws, or stops the watchdog: stop() on the worker joins nothing.
callCallbacks ==
  /\ pc = "handler" /\ pc' = "sleep"
  /\ running' \in {running, FALSE}
  /\ UNCHANGED <<worker, clock, alarmed, false_alarm>>

sleep ==
  /\ pc = "sleep" /\ pc' = "top"
  /\ UNCHANGED <<running, worker, clock, alarmed, false_alarm>>

Run == (readClock \/ compare \/ callCallbacks \/ sleep) /\ UNCHANGED <<period, calls, owner>>

Next == Time \/ tick \/ (\E p \in Periods : setPeriod(p)) \/ Owner \/ Run

Spec     == Init /\ [][Next]_vars
FairSpec == Spec /\ WF_vars(Time) /\ WF_vars(Run) /\ WF_vars(owner # "idle" /\ Owner)

-----------------------------------------------------------------------------
(* What the watchdog promises.                                              *)

\* A timeout is reported only when the deadline was not moved for a whole period, even
\* when a tick or a shorter period comes between reading the clock and comparing it.
NoFalseAlarm == ~false_alarm

\* A silence is reported: once the ticks stop, a running watchdog calls its handlers,
\* however late the worker is scheduled.
SilenceIsReported == (running /\ worker = "running") ~> (alarmed \/ ~running)

\* A stop() from outside returns, also after a handler stopped the watchdog.
StopReturns == owner = "join" ~> owner = "idle"
=============================================================================
