---------------------------- MODULE SafetyManager ----------------------------
(***************************************************************************)
(* axonvex::safety::SafetyManager: the evaluation worker and its life      *)
(* cycle, evaluation cycles on the worker and on demand, the emergency     *)
(* stop and the hook through which AxonVexSystem learns of it.             *)
(*                                                                         *)
(* Policies, handlers and the hook are user code run by the manager: a     *)
(* policy or a handler returns, or first calls one of UserOps back.  The   *)
(* hook is AxonVexSystem::emergencyShutdown(), which waits for the threads *)
(* HookJoins unless it runs on one of them.                                *)
(*                                                                         *)
(* Env lists what callers do beyond the disciplined use of the class:      *)
(*   "overlap"         start() overlaps stop(), or follows a stop() called *)
(*                     on the worker with no stop() from outside between   *)
(*   "stop_off_worker" user code in a cycle run on demand calls stop()     *)
(***************************************************************************)
EXTENDS Integers, Sequences, FiniteSets

CONSTANTS Clients,    \* threads that call the manager from outside
          Worker,     \* the evaluation thread
          Nobody,     \* no thread
          Policies,   \* names of policies
          ClientOps,  \* what clients call
          UserOps,    \* what policies and handlers call
          HookJoins,  \* threads that the hook waits for
          MaxDepth,   \* calls nested in one thread
          Env         \* see above

Threads == Clients \cup {Worker}
Ops     == {"start", "stop", "trigger", "reset", "evaluate"}

ASSUME ThreadsAssumption == Worker \notin Clients /\ Nobody \notin Threads /\ HookJoins \subseteq Clients
ASSUME OpsAssumption     == ClientOps \subseteq Ops /\ UserOps \subseteq Ops \ {"start"}
ASSUME DepthAssumption   == MaxDepth \in Nat

VARIABLES
  running,         \* running_
  worker,          \* worker_: "none", "running", "ended" (joinable, its loop is over)
  workerId,        \* workerId_
  lifecycleMutex,  \* owners of the mutexes
  evaluationMutex,
  callbackMutex,
  emergencyStopped,
  evaluating,      \* evaluatingThread_
  todo,            \* the policies the cycle in progress has not evaluated
  policies,        \* policies_
  handler,         \* a handler is registered
  hook,            \* emergencyCallback_ is set
  up,              \* start() was called and no stop() from outside has returned since
  owed,            \* e-stops that engaged minus calls of the hook for them
  terminated,      \* std::terminate: a joinable std::thread was assigned to
  pc, stack        \* where each thread is, and where it returns to

lifecycle == <<running, worker, workerId, lifecycleMutex, up, terminated>>
cycle     == <<evaluationMutex, evaluating, todo>>
estop     == <<emergencyStopped, callbackMutex, owed>>
config    == <<policies, handler, hook>>
control   == <<pc, stack>>
vars      == <<lifecycle, cycle, estop, config, control>>

StartPC == {"start", "start_exchange", "start_clear", "start_spawn", "start_unlock"}
StopPC  == {"stop", "stop_self", "stop_lock", "stop_join"}
CyclePC == {"eval_begin", "eval_next", "policy", "verdict", "eval_emergency", "eval_end"}
PCs     == StartPC \cup StopPC \cup CyclePC \cup
           {"idle", "gone", "publish", "loop", "sleep", "evaluate", "eval_lock", "handler",
            "handled", "trigger", "trigger_lock", "hook", "trigger_end", "reset", "reset_store"}

TypeOK ==
  /\ running \in BOOLEAN /\ worker \in {"none", "running", "ended"}
  /\ workerId \in {Nobody, Worker}
  /\ {lifecycleMutex, evaluationMutex, callbackMutex, evaluating} \subseteq Threads \cup {Nobody}
  /\ emergencyStopped \in BOOLEAN /\ handler \in BOOLEAN /\ hook \in BOOLEAN
  /\ todo \subseteq Policies /\ policies \subseteq Policies
  /\ up \in BOOLEAN /\ terminated \in BOOLEAN
  /\ owed \in -1..Cardinality(Threads) * (MaxDepth + 1)
  /\ pc \in [Threads -> PCs]
  /\ \A t \in Threads : stack[t] \in Seq(PCs) /\ Len(stack[t]) <= MaxDepth + 3

Init ==
  /\ running = FALSE /\ worker = "none" /\ workerId = Nobody
  /\ lifecycleMutex = Nobody /\ evaluationMutex = Nobody /\ callbackMutex = Nobody
  /\ emergencyStopped = FALSE /\ evaluating = Nobody /\ todo = {}
  /\ policies = Policies /\ handler = TRUE /\ hook = TRUE
  /\ up = FALSE /\ owed = 0 /\ terminated = FALSE
  /\ pc = [t \in Threads |-> IF t = Worker THEN "gone" ELSE "idle"]
  /\ stack = [t \in Threads |-> << >>]

At(t, l)   == pc[t] = l
Goto(t, l) == pc' = [pc EXCEPT ![t] = l] /\ UNCHANGED stack
Call(t, l, back) ==
  /\ pc' = [pc EXCEPT ![t] = l]
  /\ stack' = [stack EXCEPT ![t] = <<back>> \o @]
Return(t) ==
  /\ pc' = [pc EXCEPT ![t] = Head(stack[t])]
  /\ stack' = [stack EXCEPT ![t] = Tail(@)]

-----------------------------------------------------------------------------
(* Callers                                                                  *)

Starting == \E t \in Threads : pc[t] \in StartPC
Stopping == \E t \in Threads : pc[t] \in StopPC

Disciplined(t, op) ==
  /\ op = "start" => "overlap" \in Env \/ ~(up \/ Starting \/ Stopping)
  /\ op = "stop"  => "overlap" \in Env \/ ~Starting

Invoke(t, op) ==
  /\ At(t, "idle") /\ Disciplined(t, op)
  /\ Call(t, op, "idle")
  /\ up' = (up \/ op = "start")
  /\ UNCHANGED <<running, worker, workerId, lifecycleMutex, terminated, cycle, estop, config>>

\* User code of the manager's thread t calls op and goes on at back.
CallBack(t, op, back) ==
  /\ Len(stack[t]) < MaxDepth
  /\ Disciplined(t, op)
  /\ op = "stop" => t = Worker \/ "stop_off_worker" \in Env
  /\ Call(t, op, back)

addOrRemovePolicy(p) ==
  /\ policies' = IF p \in policies THEN policies \ {p} ELSE policies \cup {p}
  /\ UNCHANGED <<lifecycle, cycle, estop, handler, hook, control>>

registerOrUnregister ==
  /\ handler' = ~handler
  /\ UNCHANGED <<lifecycle, cycle, estop, policies, hook, control>>

\* Fault: the hook is replaced without the mutex.
setEmergencyCallbackUnlocked(b) ==
  /\ hook' = b
  /\ UNCHANGED <<lifecycle, cycle, estop, policies, handler, control>>

setEmergencyCallback(b) ==
  /\ callbackMutex = Nobody
  /\ hook' = b
  /\ UNCHANGED <<lifecycle, cycle, estop, policies, handler, control>>

-----------------------------------------------------------------------------
(* start() and stop()                                                       *)

start(t) ==
  \/ /\ At(t, "start") /\ lifecycleMutex = Nobody
     /\ lifecycleMutex' = t /\ Goto(t, "start_exchange")
     /\ UNCHANGED <<running, worker, terminated, emergencyStopped>>
  \/ /\ At(t, "start_exchange")
     /\ running' = TRUE
     /\ Goto(t, IF running THEN "start_unlock" ELSE "start_clear")
     /\ UNCHANGED <<worker, lifecycleMutex, terminated, emergencyStopped>>
  \/ /\ At(t, "start_clear")
     /\ emergencyStopped' = FALSE /\ Goto(t, "start_spawn")
     /\ UNCHANGED <<running, worker, lifecycleMutex, terminated>>
  \/ /\ At(t, "start_spawn") /\ worker = "none"
     /\ worker' = "running"
     /\ pc' = [pc EXCEPT ![t] = "start_unlock", ![Worker] = "publish"] /\ UNCHANGED stack
     /\ UNCHANGED <<running, lifecycleMutex, terminated, emergencyStopped>>
  \/ /\ At(t, "start_spawn") /\ worker # "none"
     /\ terminated' = TRUE
     /\ UNCHANGED <<running, worker, lifecycleMutex, emergencyStopped, control>>
  \/ /\ At(t, "start_unlock")
     /\ lifecycleMutex' = Nobody /\ Return(t)
     /\ UNCHANGED <<running, worker, terminated, emergencyStopped>>

\* Fault: nothing to do when running_ is already false.
stopWhenRunning(t) ==
  \/ /\ At(t, "stop") /\ running' = FALSE
     /\ IF running THEN Goto(t, "stop_self") /\ UNCHANGED up ELSE Return(t) /\ up' = FALSE
     /\ UNCHANGED <<worker, workerId, lifecycleMutex>>
  \/ /\ At(t, "stop_self") /\ IF workerId = t THEN Return(t) ELSE Goto(t, "stop_lock")
     /\ UNCHANGED <<running, worker, workerId, lifecycleMutex, up>>
  \/ /\ At(t, "stop_lock") /\ lifecycleMutex = Nobody
     /\ lifecycleMutex' = t /\ Goto(t, "stop_join") /\ UNCHANGED <<running, worker, workerId, up>>
  \/ /\ At(t, "stop_join") /\ worker # "running"
     /\ worker' = "none" /\ workerId' = Nobody /\ lifecycleMutex' = Nobody
     /\ up' = FALSE /\ Return(t) /\ UNCHANGED running

stop(t) ==
  \/ /\ At(t, "stop")
     /\ running' = FALSE /\ Goto(t, "stop_self")
     /\ UNCHANGED <<worker, workerId, lifecycleMutex, up>>
  \/ /\ At(t, "stop_self")
     /\ IF workerId = t THEN Return(t) ELSE Goto(t, "stop_lock")
     /\ UNCHANGED <<running, worker, workerId, lifecycleMutex, up>>
  \/ /\ At(t, "stop_lock") /\ lifecycleMutex = Nobody
     /\ lifecycleMutex' = t /\ Goto(t, "stop_join")
     /\ UNCHANGED <<running, worker, workerId, up>>
  \/ /\ At(t, "stop_join") /\ worker # "running"
     /\ worker' = "none" /\ workerId' = Nobody /\ lifecycleMutex' = Nobody
     /\ up' = FALSE /\ Return(t)
     /\ UNCHANGED running

-----------------------------------------------------------------------------
(* The emergency stop                                                       *)

\* Fault: a trigger does not look whether the e-stop is engaged already.
triggerAgain(t) ==
  /\ At(t, "trigger")
  /\ emergencyStopped' = TRUE
  /\ owed' = IF emergencyStopped THEN owed ELSE owed + 1
  /\ Call(t, "handler", "trigger_lock")
  /\ UNCHANGED callbackMutex

engage(t) ==
  /\ At(t, "trigger")
  /\ \/ emergencyStopped /\ Return(t) /\ UNCHANGED <<emergencyStopped, owed>>
     \/ /\ ~emergencyStopped
        /\ emergencyStopped' = TRUE /\ owed' = owed + 1
        /\ Call(t, "handler", "trigger_lock")
  /\ UNCHANGED callbackMutex

\* The hook runs under the mutex of setEmergencyCallback().
fireHook(t) ==
  \/ /\ At(t, "trigger_lock") /\ callbackMutex = Nobody
     /\ callbackMutex' = t /\ owed' = owed - 1
     /\ Goto(t, IF hook THEN "hook" ELSE "trigger_end")
     /\ UNCHANGED emergencyStopped
  \/ /\ At(t, "hook") /\ \A u \in HookJoins \ {t} : At(u, "idle")
     /\ Goto(t, "trigger_end") /\ UNCHANGED estop
  \/ /\ At(t, "trigger_end")
     /\ callbackMutex' = Nobody /\ Return(t)
     /\ UNCHANGED <<emergencyStopped, owed>>

resetEmergencyStop(t) ==
  \/ /\ At(t, "reset")
     /\ IF emergencyStopped THEN Goto(t, "reset_store") ELSE Return(t)
     /\ UNCHANGED estop
  \/ /\ At(t, "reset_store")
     /\ emergencyStopped' = FALSE /\ Goto(t, "handler")
     /\ UNCHANGED <<callbackMutex, owed>>

\* dispatch(): the snapshot of the handlers, and one handler that returns or throws.
dispatch(t) ==
  \/ /\ At(t, "handler")
     /\ \/ Return(t)
        \/ handler /\ \E op \in UserOps : CallBack(t, op, "handled")
  \/ /\ At(t, "handled") /\ Return(t)

-----------------------------------------------------------------------------
(* Evaluation cycles and the worker                                         *)

\* Fault: cycles are not serialised.
lockNothing(t) ==
  At(t, "eval_lock") /\ Goto(t, "eval_begin") /\ UNCHANGED cycle

lockCycle(t) ==
  /\ At(t, "eval_lock") /\ evaluationMutex = Nobody
  /\ evaluationMutex' = t /\ Goto(t, "eval_begin") /\ UNCHANGED <<evaluating, todo>>

\* Fault: a thread does not notice that it is inside its own cycle.
enterCycleAgain(t) == At(t, "evaluate") /\ Goto(t, "eval_lock") /\ UNCHANGED cycle

enterCycle(t) ==
  /\ At(t, "evaluate")
  /\ IF evaluating = t THEN Return(t) ELSE Goto(t, "eval_lock")
  /\ UNCHANGED cycle

\* A policy is nominal; or it reports, or throws, and handlers hear of it; or it reports
\* EMERGENCY, which then trips the e-stop.
evaluateAll(t) ==
  \/ enterCycle(t) \/ lockCycle(t)
  \/ /\ At(t, "eval_begin")
     /\ evaluating' = t /\ todo' = policies
     /\ Goto(t, "eval_next") /\ UNCHANGED evaluationMutex
  \/ /\ At(t, "eval_next")
     /\ \/ \E p \in todo : todo' = todo \ {p} /\ Goto(t, "policy")
        \/ todo = {} /\ Goto(t, "eval_end") /\ UNCHANGED todo
     /\ UNCHANGED <<evaluationMutex, evaluating>>
  \/ /\ At(t, "policy")
     /\ \/ Goto(t, "verdict")
        \/ \E op \in UserOps : CallBack(t, op, "verdict")
     /\ UNCHANGED cycle
  \/ /\ At(t, "verdict")
     /\ \/ Goto(t, "eval_next")
        \/ Call(t, "handler", "eval_next")
        \/ Call(t, "handler", "eval_emergency")
     /\ UNCHANGED cycle
  \/ /\ At(t, "eval_emergency")
     /\ Call(t, "trigger", "eval_next") /\ UNCHANGED cycle
  \/ /\ At(t, "eval_end")
     /\ evaluating' = Nobody /\ evaluationMutex' = Nobody
     /\ Return(t) /\ UNCHANGED todo

evaluationLoop ==
  \/ /\ At(Worker, "publish")
     /\ workerId' = Worker /\ Goto(Worker, "loop") /\ UNCHANGED worker
  \/ /\ At(Worker, "loop")
     /\ IF running THEN UNCHANGED <<worker, workerId>>
                   ELSE worker' = "ended" /\ workerId' = Nobody
     /\ IF ~running THEN Goto(Worker, "gone")
        ELSE IF emergencyStopped THEN Goto(Worker, "sleep") ELSE Call(Worker, "evaluate", "sleep")
  \/ /\ At(Worker, "sleep")
     /\ Goto(Worker, "loop") /\ UNCHANGED <<worker, workerId>>

-----------------------------------------------------------------------------

Step(t) ==
  /\ ~terminated
  /\ \/ start(t) /\ UNCHANGED <<workerId, up, cycle, callbackMutex, owed, config>>
     \/ stop(t) /\ UNCHANGED <<terminated, cycle, estop, config>>
     \/ (engage(t) \/ fireHook(t) \/ resetEmergencyStop(t)) /\ UNCHANGED <<lifecycle, cycle, config>>
     \/ dispatch(t) /\ UNCHANGED <<lifecycle, cycle, estop, config>>
     \/ evaluateAll(t) /\ UNCHANGED <<lifecycle, estop, config>>
     \/ /\ t = Worker /\ evaluationLoop
        /\ UNCHANGED <<running, lifecycleMutex, up, terminated, cycle, estop, config>>

Outside ==
  /\ ~terminated
  /\ \/ \E t \in Clients, op \in ClientOps : Invoke(t, op)
     \/ \E p \in Policies : addOrRemovePolicy(p)
     \/ registerOrUnregister
     \/ \E b \in BOOLEAN : setEmergencyCallback(b)

Next == Outside \/ \E t \in Threads : Step(t)

Spec     == Init /\ [][Next]_vars
FairSpec == Spec /\ \A t \in Threads : SF_vars(Step(t))

-----------------------------------------------------------------------------
(* What the manager promises.                                               *)

\* C33: no life cycle destroys a joinable thread handle, also when a policy or a handler
\* stopped the manager from inside.
NoTerminate == ~terminated

\* Once stop() has returned to a caller outside, the worker is gone: no policy is
\* evaluated by it and no handler runs on it until the next start().
StoppedIsQuiet == ~up => worker = "none" /\ At(Worker, "gone")

\* C2: setEmergencyCallback(nullptr) returns only when no thread is inside the hook, so
\* the system behind it can be destroyed.
ClearedHookIsQuiet == ~hook => \A t \in Threads : ~At(t, "hook")

\* C2: the hook is called at most once per engaged e-stop.
FiresOncePerEngagement == owed >= 0

\* C33, C2: no handle is lost, stop() leaves nothing running, an e-stop calls the hook once.
SafetyHolds == NoTerminate /\ StoppedIsQuiet /\ FiresOncePerEngagement

\* C12: a policy's evaluate() is never entered by two threads at once, nor by one thread
\* twice, and the cycle in progress is the one of the thread that owns evaluationMutex_.
OneCycle ==
  \A t \in Threads :
    LET inCycle == {i \in 1..Len(stack[t]) : stack[t][i] \in CyclePC}
                     \cup (IF pc[t] \in CyclePC THEN {0} ELSE {})
    IN  /\ Cardinality(inCycle) <= 1
        /\ inCycle # {} => evaluationMutex = t

\* Every call returns, whatever policies and handlers call back into the manager.
CallsReturn == \A t \in Clients : ~At(t, "idle") ~> (At(t, "idle") \/ terminated)
=============================================================================
