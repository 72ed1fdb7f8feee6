-------------------------- MODULE RealTimeScheduler --------------------------
(***************************************************************************)
(* The lifecycle of axonvex::core::RealTimeScheduler: start(), stop(),     *)
(* halt(), pause() and resume() from outside threads and from the task the *)
(* loop is executing, against the loop's two waits on schedulerCondition_. *)
(*                                                                         *)
(* The scheduler thread is one actor, Sched: WorkerThread never has two    *)
(* loops alive, and its self-check is exact for a thread inside a task     *)
(* (AtMostOneLoop and PublishedIdIsTheLoop of module WorkerThread).        *)
(* schedulerMutex_ is taken by the loop only, so it orders nothing here:   *)
(* no caller that changes a flag and notifies holds it.                    *)
(***************************************************************************)
EXTENDS Naturals

CONSTANTS Clients,    \* threads other than the scheduler's own
          Sched,      \* the scheduler thread
          NoThread,   \* nobody
          ClientOps,  \* operations outside threads call
          TaskOps     \* operations a task body calls from inside executeTask

Actors == Clients \cup {Sched}
Ops    == {"start", "stop", "halt", "pause", "resume", "wake", "affinity", "realtime", "normal"}

ASSUME ActorsAssumption == Sched \notin Clients /\ NoThread \notin Actors
ASSUME OpsAssumption    == ClientOps \subseteq Ops /\ TaskOps \subseteq Ops

VARIABLES
  running,         \* running_
  paused,          \* paused_
  realTimeMode,    \* realTimeMode_
  lifecycleMutex,  \* owner of lifecycleMutex_
  handleMutex,     \* owner of schedulerWorker_'s internal lock
  pc               \* pc[t]: where t is; pc[Sched] also tells whether the thread exists

vars == <<running, paused, realTimeMode, lifecycleMutex, handleMutex, pc>>

\* The scheduler thread: no thread, the loop's program points, exited but not joined.
LoopPC  == {"top", "check", "pred", "block", "waiting", "timed", "gate", "exec", "task"}
\* Points that hold lifecycleMutex_, and among them those that hold the worker's lock.
StartHandlePC == {"start_join", "start_before", "start_spawn", "start_release"}
StartHeldPC   == {"start_running", "start_handle", "start_tune", "start_tuned", "start_unlock"}
                   \cup StartHandlePC
StopHeldPC    == {"stop_flag", "stop_notify", "stop_handle", "stop_join", "stop_release", "stop_unlock"}
LifecyclePC   == StartHeldPC \cup StopHeldPC
HandlePC      == StartHandlePC \cup {"start_tuned", "stop_join", "stop_release", "tune_run"}
StopPC        == {"stop_halt", "stop_halted", "stop_check", "stop_lock"} \cup StopHeldPC
CallPC        == LifecyclePC \cup StopPC \cup
                 {"start_check", "start_lock", "halt_flag", "halt_notify", "resume_flag",
                  "resume_notify", "pause_flag", "wake_notify", "tune_lock", "tune_run"}
PCs           == {"idle", "off", "gone"} \cup LoopPC \cup CallPC

TypeOK ==
  /\ running \in BOOLEAN /\ paused \in BOOLEAN /\ realTimeMode \in BOOLEAN
  /\ lifecycleMutex \in Clients \cup {NoThread}
  /\ handleMutex \in Actors \cup {NoThread}
  /\ pc \in [Actors -> PCs]

Init ==
  /\ running = FALSE /\ paused = FALSE /\ realTimeMode = FALSE
  /\ lifecycleMutex = NoThread /\ handleMutex = NoThread
  /\ pc = [t \in Actors |-> IF t = Sched THEN "off" ELSE "idle"]

Joinable == pc[Sched] # "off"
Home(t)  == IF t = Sched THEN "task" ELSE "idle"
\* Fault: a task is not recognised as running on the scheduler thread.
isOnSchedulerThreadNever(t) == FALSE
isOnSchedulerThread(t) == t = Sched

Goto(t, l)    == pc' = [pc EXCEPT ![t] = l]
From(t, a, b) == pc[t] = a /\ Goto(t, b)

\* schedulerCondition_.notify_*: only a thread already blocked hears it.
Woken == [waiting |-> "pred", timed |-> "gate"]
NotifyFrom(t, a, b) ==
  /\ pc[t] = a
  /\ pc' = [pc EXCEPT ![t] = b, ![Sched] = IF @ \in DOMAIN Woken THEN Woken[@] ELSE IF t = Sched THEN b ELSE @]
  /\ UNCHANGED <<running, paused, realTimeMode, lifecycleMutex, handleMutex>>

-----------------------------------------------------------------------------
(* Calls.                                                                   *)

Entry == [start |-> "start_check", stop |-> "stop_halt", halt |-> "halt_flag",
          pause |-> "pause_flag", resume |-> "resume_flag", wake |-> "wake_notify",
          affinity |-> "tune_lock", realtime |-> "tune_lock", normal |-> "idle"]

Call(t, op) ==
  /\ pc[t] = Home(t)
  /\ op \in IF t = Sched THEN TaskOps ELSE ClientOps
  \* addTask() notifies only a running scheduler
  /\ op = "wake" => running
  /\ realTimeMode' = IF op \in {"realtime", "normal"} THEN op = "realtime" ELSE realTimeMode
  /\ Goto(t, IF op = "normal" THEN Home(t) ELSE Entry[op])
  /\ UNCHANGED <<running, paused, lifecycleMutex, handleMutex>>

\* Fault: stop() does not clear running_ again once it holds lifecycleMutex_.
LowerFlagOnlyInHalt(t) ==
  /\ \/ From(t, "halt_flag", "halt_notify") /\ running' = FALSE
     \/ From(t, "stop_halt", "stop_halted") /\ running' = FALSE
     \/ From(t, "stop_flag", "stop_notify") /\ UNCHANGED running
  /\ UNCHANGED <<paused, realTimeMode, lifecycleMutex, handleMutex>>

LowerFlag(t) ==
  /\ \/ From(t, "halt_flag", "halt_notify")
     \/ From(t, "stop_halt", "stop_halted")
     \/ From(t, "stop_flag", "stop_notify")
  /\ running' = FALSE
  /\ UNCHANGED <<paused, realTimeMode, lifecycleMutex, handleMutex>>

SetPaused(t) ==
  /\ \/ From(t, "pause_flag", Home(t))       /\ paused' = TRUE
     \/ From(t, "resume_flag", "resume_notify") /\ paused' = FALSE
  /\ UNCHANGED <<running, realTimeMode, lifecycleMutex, handleMutex>>

Notify(t) ==
  \/ NotifyFrom(t, "halt_notify", Home(t))
  \/ NotifyFrom(t, "resume_notify", Home(t))
  \/ NotifyFrom(t, "wake_notify", Home(t))
  \/ NotifyFrom(t, "stop_halted", "stop_check")
  \/ NotifyFrom(t, "stop_notify", "stop_handle")

\* start() and stop() from the scheduler thread return before they touch a lock.
SelfCheck(t) ==
  /\ \/ From(t, "start_check", IF isOnSchedulerThread(t) THEN Home(t) ELSE "start_lock")
     \/ From(t, "stop_check",  IF isOnSchedulerThread(t) THEN Home(t) ELSE "stop_lock")
  /\ UNCHANGED <<running, paused, realTimeMode, lifecycleMutex, handleMutex>>

LockLifecycle(t) ==
  /\ \/ From(t, "start_lock", "start_running")
     \/ From(t, "stop_lock", "stop_flag")
  /\ lifecycleMutex = NoThread /\ lifecycleMutex' = t
  /\ UNCHANGED <<running, paused, realTimeMode, handleMutex>>

UnlockLifecycle(t) ==
  /\ \/ From(t, "start_unlock", Home(t))
     \/ From(t, "stop_unlock", Home(t))
  /\ lifecycleMutex' = NoThread
  /\ UNCHANGED <<running, paused, realTimeMode, handleMutex>>

\* Fault: start() raises running_ itself, before the stale handle is joined.
AlreadyRunningRaises(t) ==
  /\ From(t, "start_running", IF running THEN "start_unlock" ELSE "start_handle")
  /\ running' = TRUE
  /\ UNCHANGED <<paused, realTimeMode, lifecycleMutex, handleMutex>>

AlreadyRunning(t) ==
  /\ From(t, "start_running", IF running THEN "start_unlock" ELSE "start_handle")
  /\ UNCHANGED <<running, paused, realTimeMode, lifecycleMutex, handleMutex>>

-----------------------------------------------------------------------------
(* schedulerWorker_: WorkerThread::start, join and withHandle.              *)

LockHandle(t) ==
  /\ \/ From(t, "start_handle", "start_join")
     \/ From(t, "start_tune", "start_tuned")
     \/ From(t, "stop_handle", "stop_join")
     \/ From(t, "tune_lock", "tune_run")
  /\ handleMutex = NoThread /\ handleMutex' = t
  /\ UNCHANGED <<running, paused, realTimeMode, lifecycleMutex>>

\* Fault: stop() takes a lowered flag for a loop that has already been joined.
JoinWorkerIfRunning(t) ==
  /\ pc[t] \in {"start_join", "stop_join"}
  /\ pc[Sched] \in {"off", "gone"} \/ (pc[t] = "stop_join" /\ ~running)
  /\ pc' = [pc EXCEPT ![t] = IF @ = "start_join" THEN "start_before" ELSE "stop_release",
                      ![Sched] = IF @ = "gone" THEN "off" ELSE @]
  /\ UNCHANGED <<running, paused, realTimeMode, lifecycleMutex, handleMutex>>

JoinWorker(t) ==
  /\ pc[t] \in {"start_join", "stop_join"}
  /\ pc[Sched] \in {"off", "gone"}
  /\ pc' = [pc EXCEPT ![t] = IF @ = "start_join" THEN "start_before" ELSE "stop_release",
                      ![Sched] = "off"]
  /\ UNCHANGED <<running, paused, realTimeMode, lifecycleMutex, handleMutex>>

BeforeSpawn(t) ==
  /\ From(t, "start_before", "start_spawn")
  /\ running' = TRUE /\ paused' = FALSE
  /\ UNCHANGED <<realTimeMode, lifecycleMutex, handleMutex>>

Spawn(t) ==
  /\ pc[t] = "start_spawn"
  /\ pc' = [pc EXCEPT ![t] = "start_release", ![Sched] = "top"]
  /\ UNCHANGED <<running, paused, realTimeMode, lifecycleMutex, handleMutex>>

ReleaseHandle(t) ==
  /\ \/ From(t, "start_release", IF realTimeMode THEN "start_tune" ELSE "start_unlock")
     \/ From(t, "start_tuned", "start_unlock")
     \/ From(t, "stop_release", "stop_unlock")
     \/ From(t, "tune_run", Home(t))
  /\ handleMutex' = NoThread
  /\ UNCHANGED <<running, paused, realTimeMode, lifecycleMutex>>

-----------------------------------------------------------------------------
(* schedulerLoop().                                                         *)

\* One step of the loop's own control flow.
LoopStep ==
  /\ \/ From(Sched, "top", IF running THEN "check" ELSE "gone")
     \/ From(Sched, "check", IF paused THEN "pred" ELSE "timed")
     \* wait(lock, pred) tests its predicate, and only then blocks: two steps, between
     \* which a caller that does not hold schedulerMutex_ can change the flags and notify
     \/ From(Sched, "pred", IF ~paused \/ ~running THEN "top" ELSE "block")
     \/ From(Sched, "block", "waiting")
     \/ From(Sched, "gate", IF running THEN "exec" ELSE "gone")
  /\ UNCHANGED <<running, paused, realTimeMode, lifecycleMutex, handleMutex>>

\* wait_until(lock, nextWakeup) expires.
Timeout ==
  /\ From(Sched, "timed", "gate")
  /\ UNCHANGED <<running, paused, realTimeMode, lifecycleMutex, handleMutex>>

SpuriousWakeup ==
  /\ From(Sched, "waiting", "pred")
  /\ UNCHANGED <<running, paused, realTimeMode, lifecycleMutex, handleMutex>>

\* The for loop over the ready set tests running_ before each task.
BeginTask ==
  /\ From(Sched, "exec", "task") /\ running
  /\ UNCHANGED <<running, paused, realTimeMode, lifecycleMutex, handleMutex>>

EndCycle ==
  /\ From(Sched, "exec", "top")
  /\ UNCHANGED <<running, paused, realTimeMode, lifecycleMutex, handleMutex>>

EndTask ==
  /\ From(Sched, "task", "exec")
  /\ UNCHANGED <<running, paused, realTimeMode, lifecycleMutex, handleMutex>>

-----------------------------------------------------------------------------

Step(t) == \/ LowerFlag(t) \/ SetPaused(t) \/ Notify(t) \/ SelfCheck(t)
           \/ UnlockLifecycle(t) \/ AlreadyRunning(t)
           \/ JoinWorker(t) \/ BeforeSpawn(t) \/ Spawn(t) \/ ReleaseHandle(t)

Loop == LoopStep \/ Timeout \/ SpuriousWakeup \/ BeginTask \/ EndCycle \/ EndTask

Next == \/ \E t \in Actors : \/ \E op \in Ops : Call(t, op)
                             \/ Step(t) \/ LockLifecycle(t) \/ LockHandle(t)
        \/ Loop

Spec == Init /\ [][Next]_vars

\* Threads are scheduled and mutexes are granted; a ready set is finite and a task body
\* returns.  No caller is obliged to call, and no spurious wakeup is owed to anybody.
Fairness == /\ \A t \in Actors : /\ WF_vars(Step(t))
                                 /\ SF_vars(LockLifecycle(t)) /\ SF_vars(LockHandle(t))
            /\ WF_vars(LoopStep) /\ WF_vars(Timeout)
            /\ SF_vars(EndCycle) /\ SF_vars(EndTask)

FairSpec == Spec /\ Fairness

-----------------------------------------------------------------------------
(* What the scheduler promises.                                             *)

\* C46: when an external stop() is about to return, its thread is reclaimed and no
\* start() that it raced has left running_ up with or without a loop behind it.
StopReclaims ==
  \A t \in Actors : pc[t] = "stop_unlock" => pc[Sched] = "off" /\ ~running

\* C46: running_ is never left true with no loop to run: the loop is there and has not
\* decided to leave, or a start() is about to spawn it.
RunningHasLoop ==
  running => \/ pc[Sched] \in LoopPC \cup CallPC
             \/ \E t \in Actors : pc[t] = "start_spawn"

\* C46: what stop() leaves behind, and what running_ says of the loop.
LoopFollowsFlag == TypeOK /\ StopReclaims /\ RunningHasLoop

\* A task's own start() or stop() never waits for a lock that an external stop() may
\* hold while it joins this very thread.
TaskNeverWaitsForItsJoiner ==
  pc[Sched] \notin {"start_lock", "stop_lock"} \cup LifecyclePC

\* start() spawns only when the previous loop has been joined, and nobody else is
\* between its own check and its own spawn.
SpawnIsExclusive ==
  \A t \in Actors : pc[t] \in {"start_before", "start_spawn"} =>
    ~Joinable /\ \A u \in Actors \ {t} : pc[u] \notin {"start_before", "start_spawn", "stop_unlock"}

\* What a caller can tell of the loop: never spawned or joined, ended, or running.
phase == IF pc[Sched] = "off" THEN "none" ELSE IF pc[Sched] = "gone" THEN "ended" ELSE "running"

\* A caller relies on no more than LoopContract: one loop, reaped before the next, and
\* running_ never raised under a loop that has not been joined.
Contract == INSTANCE LoopContract WITH flag <- running, phase <- phase
ImplementsContract == Contract!Spec

\* stop() = halt() + join: an external stop() returns, whatever tasks and other threads
\* call meanwhile, unless the loop goes to sleep in its paused wait.
StopReturnsOrSleeps ==
  \A t \in Clients : pc[t] \in StopPC ~> (pc[t] = "idle" \/ pc[Sched] = "waiting")

\* The paused wait: whoever clears paused_ or running_ notifies the loop, which leaves.
WaitIsWoken ==
  (pc[Sched] = "waiting" /\ ~(paused /\ running)) ~> (pc[Sched] # "waiting" \/ (paused /\ running))
=============================================================================
