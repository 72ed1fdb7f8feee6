--------------------------- MODULE AxonVexSystem ---------------------------
(***************************************************************************)
(* axonvex::core::AxonVexSystem and its LifecycleController: one operator  *)
(* thread drives the life cycle, emergency stops arrive from any thread,   *)
(* and three worker threads (event dispatch, health monitor, scheduler)    *)
(* run user code that may pull the emergency stop too.                     *)
(*                                                                         *)
(* A worker is seen through the contract WorkerThread is shown to keep: a  *)
(* loop that is running or ended, a stop flag, a join which refuses on the *)
(* worker itself.  RealTimeScheduler and SchedulerTasks model the inside   *)
(* of the scheduler, EventBus the inside of the event bus.                 *)
(*                                                                         *)
(* An environment is a configuration (does the health monitor recover?)    *)
(* and the freedoms its threads take beyond the disciplined use of the     *)
(* API.  It is chosen once, in Init, so that one run compares several and  *)
(* a property can say which freedom its promise depends on:                *)
(*   "overlap"       an e-stop overlaps initialize() or reset()            *)
(*   "estop_start"   an e-stop overlaps start()                            *)
(*   "restart"       start() is called in STOPPED                          *)
(*   "from_error"    start(), pause() or resume() are called in ERROR      *)
(*   "reinit"        initialize() is called on a live system               *)
(*   "late"          units are registered while paused or starting         *)
(*   "badconfig"     the configuration file does not load                  *)
(*   "monitor_estop" a health callback pulls the e-stop                    *)
(*   "unit_estop"    a unit pulls the e-stop from its task                 *)
(***************************************************************************)
EXTENDS Naturals, Sequences

CONSTANTS Alarms,        \* outside threads that may call emergencyShutdown()
          Units,         \* processing units
          NoUnit,        \* the scheduler is between tasks
          MaxRecoveries, \* SystemConfiguration::maxRecoveryAttempts
          Environments   \* see above

ASSUME AlarmsAssumption   == Alarms \cap {"operator", "bus", "monitor", "scheduler", "none"} = {}
ASSUME NoUnitAssumption   == NoUnit \notin Units
ASSUME RecoveryAssumption == MaxRecoveries \in Nat

Freedoms == {"overlap", "estop_start", "restart", "from_error", "reinit", "late",
             "badconfig", "monitor_estop", "unit_estop"}

ASSUME EnvironmentsAssumption ==
  Environments \subseteq [recovery : BOOLEAN, does : SUBSET Freedoms]

Op      == "operator"
Workers == {"bus", "monitor", "scheduler"}
Threads == {Op} \cup Alarms \cup Workers

VARIABLES
  env,        \* env.recovery: SystemConfiguration::enableAutoRecovery
  state,      \* currentState_
  latch,      \* isShuttingDown_
  teardown,   \* owner of shutdownMutex_, "none" when free
  flag,       \* flag[w]: EventBus::running_, HealthMonitor::enabled_, RealTimeScheduler::running_
  loop,       \* loop[w]: "none", "running", "ended" (handle still joinable)
  controller, \* timingController_ is not null
  tasks,      \* units scheduled in it
  paused,     \* RealTimeScheduler::paused_
  units,      \* units owned by unitRegistry_
  attempts,   \* currentRecoveryAttempts_
  failing,    \* the health check in progress found CRITICAL or FAILURE
  exec,       \* the unit whose task the scheduler runs
  broken,     \* undefined behaviour reached: a null or freed controller, a freed unit
  pc, stack   \* where each thread is, and where it returns to

fsm     == <<state, latch, teardown>>
threads == <<flag, loop>>
timing  == <<controller, tasks, paused>>
local   == <<failing, exec>>
moving  == <<fsm, threads, timing, units, attempts, local, broken, pc, stack>>
vars    == <<env, moving>>

States == {"UNINITIALIZED", "INITIALIZING", "INITIALIZED", "STARTING", "RUNNING", "PAUSING",
           "PAUSED", "RESUMING", "STOPPING", "STOPPED", "ERROR", "FATAL_ERROR"}
InitPC  == {"i_monitor", "i_bus", "i_replace", "i_transition", "i_config", "i_layout",
            "i_error", "i_clear", "i_start_monitor", "i_start_bus", "i_done",
            "i_cleanup", "i_throw", "i_throw_error", "i_return"}
StartPC == {"b_start", "b_units", "b_running", "b_return", "p_pause", "p_done", "r_resume", "r_done"}
StopPC  == {"s_latch", "s_flags", "s_lock", "s_halt_bus", "s_bus", "s_monitor",
            "s_cleanup", "s_unlock", "s_done"}
EStopPC == {"e_fatal", "e_latch", "e_flags", "e_try", "e_halt_bus", "e_bus", "e_monitor",
            "e_clear", "e_unlock"}
ResetPC == {"z_wait", "z_bus", "z_monitor", "z_transition", "z_clear", "z_drop", "z_return"}
TimingPC == {"t_null", "t_halt", "t_lock", "t_join", "d_drop", "d_halt"}
WorkPC  == {"m_callback", "m_decide", "m_recover", "m_start", "x_unit", "x_done"}
PCs     == {"idle", "loop"} \cup InitPC \cup StartPC \cup StopPC \cup EStopPC \cup ResetPC
             \cup TimingPC \cup WorkPC

TypeOK ==
  /\ env \in Environments
  /\ state \in States
  /\ latch \in BOOLEAN
  /\ teardown \in Threads \cup {"none"}
  /\ flag \in [Workers -> BOOLEAN]
  /\ loop \in [Workers -> {"none", "running", "ended"}]
  /\ controller \in BOOLEAN /\ paused \in BOOLEAN /\ tasks \subseteq Units
  /\ units \subseteq Units
  /\ attempts \in 0..MaxRecoveries
  /\ failing \in BOOLEAN
  /\ exec \in Units \cup {NoUnit}
  /\ broken \subseteq {"null_controller", "freed_controller", "freed_unit"}
  /\ pc \in [Threads -> PCs]
  /\ \A t \in Threads : stack[t] \in Seq(PCs) /\ Len(stack[t]) <= 2

Init ==
  /\ env \in Environments
  /\ state = "UNINITIALIZED" /\ latch = FALSE /\ teardown = "none"
  /\ flag = [w \in Workers |-> FALSE] /\ loop = [w \in Workers |-> "none"]
  /\ controller = FALSE /\ tasks = {} /\ paused = FALSE
  /\ units = {} /\ attempts = 0
  /\ failing = FALSE /\ exec = NoUnit /\ broken = {}
  /\ pc = [t \in Threads |-> IF t \in Workers THEN "loop" ELSE "idle"]
  /\ stack = [t \in Threads |-> << >>]

-----------------------------------------------------------------------------
(* Control flow of one thread.                                              *)

Does(freedom)  == freedom \in env.does
At(t, l)       == pc[t] = l
Goto(t, l)     == pc' = [pc EXCEPT ![t] = l] /\ UNCHANGED stack
Call(t, l, back) ==
  /\ pc' = [pc EXCEPT ![t] = l]
  /\ stack' = [stack EXCEPT ![t] = <<back>> \o @]
Return(t) ==
  /\ pc' = [pc EXCEPT ![t] = Head(stack[t])]
  /\ stack' = [stack EXCEPT ![t] = Tail(@)]

-----------------------------------------------------------------------------
(* LifecycleController                                                      *)

LegalTransitions ==
  { <<"UNINITIALIZED", "INITIALIZING">>,
    <<"INITIALIZING", "INITIALIZED">>, <<"INITIALIZING", "ERROR">>,
    <<"INITIALIZED", "STARTING">>,
    <<"STARTING", "RUNNING">>, <<"STARTING", "ERROR">>,
    <<"RUNNING", "PAUSING">>, <<"RUNNING", "STOPPING">>, <<"RUNNING", "ERROR">>,
    <<"PAUSING", "PAUSED">>, <<"PAUSING", "ERROR">>,
    <<"PAUSED", "RESUMING">>, <<"PAUSED", "STOPPING">>, <<"PAUSED", "ERROR">>,
    <<"RESUMING", "RUNNING">>, <<"RESUMING", "ERROR">>,
    <<"STOPPING", "STOPPED">>,
    <<"STOPPED", "STARTING">>, <<"STOPPED", "UNINITIALIZED">>,
    <<"FATAL_ERROR", "UNINITIALIZED">> }

ValidTransition(from, to) ==
  to = "FATAL_ERROR" \/ from = "ERROR" \/ <<from, to>> \in LegalTransitions

Transition(t, new, accepted, refused) ==
  IF ValidTransition(state, new)
    THEN state' = new /\ Goto(t, accepted)
    ELSE UNCHANGED state /\ Goto(t, refused)

\* Fault: the loops poll the latch alone.
ShutdownRequestedByLatch == latch

ShutdownRequested ==
  latch \/ state \in {"STOPPING", "STOPPED", "ERROR", "FATAL_ERROR"}

-----------------------------------------------------------------------------
(* Worker threads, as their owners use them.                                *)

RequestStop(ws) == flag' = [w \in Workers |-> IF w \in ws THEN FALSE ELSE flag[w]]

\* Refused, without waiting, on the worker itself.
Join(t, w) ==
  IF t = w THEN UNCHANGED loop
  ELSE loop[w] # "running" /\ loop' = [loop EXCEPT ![w] = "none"]

\* Joins a stale handle, raises the flag, spawns the loop.
StartWorker(w) ==
  /\ loop[w] # "running"
  /\ flag' = [flag EXCEPT ![w] = TRUE]
  /\ loop' = [loop EXCEPT ![w] = "running"]

Restart(w) ==
  IF flag[w] THEN UNCHANGED threads ELSE StartWorker(w)

\* RealTimeScheduler::lifecycleMutex_ is held across its join.
SchedulerFree(t) == \A u \in Threads \ {t} : ~At(u, "t_join")

-----------------------------------------------------------------------------
(* TimingController::stop() through the pointer, and its destruction.       *)

StopTiming(t) ==
  \/ /\ At(t, "t_null")
     /\ IF controller THEN Goto(t, "t_halt") ELSE Return(t)
     /\ UNCHANGED <<flag, loop, broken>>
  \/ /\ At(t, "t_halt")
     /\ broken' = IF controller THEN broken ELSE broken \cup {"null_controller"}
     /\ RequestStop({"scheduler"}) /\ UNCHANGED loop
     /\ IF t = "scheduler" THEN Return(t) ELSE Goto(t, "t_lock")
  \/ /\ At(t, "d_halt")
     /\ RequestStop({"scheduler"}) /\ UNCHANGED <<loop, broken>>
     /\ Goto(t, "t_lock")
  \/ /\ At(t, "t_lock") /\ SchedulerFree(t)
     /\ RequestStop({"scheduler"}) /\ UNCHANGED <<loop, broken>>
     /\ Goto(t, "t_join")
  \/ /\ At(t, "t_join")
     /\ Join(t, "scheduler") /\ UNCHANGED <<flag, broken>>
     /\ Return(t)

\* Threads inside the object that timingController_ pointed to.
InController == {t \in Threads : pc[t] \in {"t_lock", "t_join"}}

DropController(t, replaced) ==
  /\ broken' = IF InController \ {t} = {} THEN broken ELSE broken \cup {"freed_controller"}
  /\ tasks' = {}
  /\ controller' = replaced
  /\ paused' = FALSE

\* timingController_.reset()
Drop(t) ==
  /\ At(t, "d_drop")
  /\ IF controller THEN DropController(t, FALSE) /\ Goto(t, "d_halt")
                   ELSE UNCHANGED <<timing, broken>> /\ Return(t)
  /\ UNCHANGED <<fsm, threads, units, attempts, local>>

TimingStop(t) == StopTiming(t) /\ UNCHANGED <<fsm, timing, units, attempts, local>>

-----------------------------------------------------------------------------
(* initialize(), on the operator thread; workers are refused.               *)

JoinStaleLoops ==
  /\ \/ At(Op, "i_monitor") /\ Join(Op, "monitor") /\ Goto(Op, "i_bus")
     \/ At(Op, "i_bus") /\ Join(Op, "bus") /\ Goto(Op, "i_replace")
  /\ UNCHANGED <<fsm, flag, timing, units, attempts, local, broken>>

\* A fresh controller replaces the old one, whose destructor stops its loop.
InitializeComponents ==
  /\ At(Op, "i_replace")
  /\ DropController(Op, TRUE)
  /\ IF controller THEN Call(Op, "d_halt", "i_transition") ELSE Goto(Op, "i_transition")
  /\ UNCHANGED <<fsm, threads, units, attempts, local>>

BeginInitialization ==
  /\ At(Op, "i_transition")
  /\ Transition(Op, "INITIALIZING", "i_config", "idle")
  /\ UNCHANGED <<latch, teardown, threads, timing, units, attempts, local, broken>>

LoadConfiguration ==
  /\ At(Op, "i_config")
  /\ \/ Goto(Op, "i_layout")
     \/ Does("badconfig") /\ Goto(Op, "idle")
  /\ UNCHANGED <<fsm, threads, timing, units, attempts, local, broken>>

\* initializeBlocksLayout() is user code: it registers units, and may fail or throw.
InitializeBlocksLayout ==
  /\ At(Op, "i_layout")
  /\ \E added \in SUBSET (Units \ units) : units' = units \cup added
  /\ \E next \in {"i_clear", "i_error", "i_throw"} : Goto(Op, next)
  /\ UNCHANGED <<fsm, threads, timing, attempts, local, broken>>

FailInitialization ==
  /\ \/ At(Op, "i_error") /\ Transition(Op, "ERROR", "i_cleanup", "i_cleanup")
     \/ At(Op, "i_throw_error") /\ Transition(Op, "ERROR", "idle", "idle")
     \/ At(Op, "i_cleanup") /\ Call(Op, "d_drop", "i_return") /\ UNCHANGED state
     \/ At(Op, "i_throw") /\ Call(Op, "d_drop", "i_throw_error") /\ UNCHANGED state
  /\ UNCHANGED <<latch, teardown, threads, timing, units, attempts, local, broken>>

StartLoops ==
  /\ \/ At(Op, "i_clear") /\ latch' = FALSE /\ UNCHANGED threads /\ Goto(Op, "i_start_monitor")
     \/ At(Op, "i_start_monitor") /\ StartWorker("monitor") /\ UNCHANGED latch
          /\ Goto(Op, "i_start_bus")
     \/ At(Op, "i_start_bus") /\ StartWorker("bus") /\ UNCHANGED latch /\ Goto(Op, "i_done")
  /\ UNCHANGED <<state, teardown, timing, units, attempts, local, broken>>

FinishInitialization ==
  /\ At(Op, "i_done")
  /\ Transition(Op, "INITIALIZED", "idle", "i_cleanup")
  /\ UNCHANGED <<latch, teardown, threads, timing, units, attempts, local, broken>>

-----------------------------------------------------------------------------
(* start(), pause(), resume()                                               *)

StartController ==
  /\ At(Op, "b_start") /\ SchedulerFree(Op)
  /\ IF controller
       THEN Restart("scheduler") /\ paused' = (paused /\ flag["scheduler"])
       ELSE UNCHANGED <<threads, paused>>
  /\ Goto(Op, "b_units")
  /\ UNCHANGED <<fsm, controller, tasks, units, attempts, local, broken>>

\* Fault: the units registered before start() are forgotten.
ScheduleUnitsLater ==
  /\ At(Op, "b_units")
  /\ Goto(Op, "b_running")
  /\ UNCHANGED <<fsm, threads, timing, units, attempts, local, broken>>

\* Every unit is scheduled through the pointer, which is not tested again.
ScheduleUnits ==
  /\ At(Op, "b_units")
  /\ broken' = IF units # {} /\ ~controller THEN broken \cup {"null_controller"} ELSE broken
  /\ tasks' = IF controller THEN tasks \cup units ELSE tasks
  /\ Goto(Op, "b_running")
  /\ UNCHANGED <<fsm, threads, controller, paused, units, attempts, local>>

\* Fault: a start() that lost to an emergency stop leaves the scheduler running.
FinishStartWithoutStop ==
  /\ At(Op, "b_running")
  /\ Transition(Op, "RUNNING", "idle", "idle")
  /\ UNCHANGED <<latch, teardown, threads, timing, units, attempts, local, broken>>

\* A refused RUNNING stops what was started.
FinishStart ==
  /\ At(Op, "b_running")
  /\ IF ValidTransition(state, "RUNNING")
       THEN state' = "RUNNING" /\ Goto(Op, "idle")
       ELSE UNCHANGED state /\ Call(Op, "t_null", "b_return")
  /\ UNCHANGED <<latch, teardown, threads, timing, units, attempts, local, broken>>

\* Fault: resume() and pause() leave the controller alone.
SetPausedNever(value) == UNCHANGED paused

SetPaused(value) == paused' = IF controller THEN value ELSE paused

PauseAndResume ==
  /\ \/ At(Op, "p_pause") /\ SetPaused(TRUE) /\ UNCHANGED state /\ Goto(Op, "p_done")
     \/ At(Op, "p_done") /\ UNCHANGED paused /\ Transition(Op, "PAUSED", "idle", "idle")
     \/ At(Op, "r_resume") /\ SetPaused(FALSE) /\ UNCHANGED state /\ Goto(Op, "r_done")
     \/ At(Op, "r_done") /\ UNCHANGED paused /\ Transition(Op, "RUNNING", "idle", "idle")
  /\ UNCHANGED <<latch, teardown, threads, controller, tasks, units, attempts, local, broken>>

-----------------------------------------------------------------------------
(* stop()                                                                   *)

StopSignals ==
  /\ \/ At(Op, "s_latch") /\ latch' = TRUE /\ UNCHANGED flag /\ Goto(Op, "s_flags")
     \/ At(Op, "s_flags") /\ RequestStop({"bus", "monitor"}) /\ UNCHANGED latch
          /\ Goto(Op, "s_lock")
     \/ At(Op, "s_halt_bus") /\ RequestStop({"bus"}) /\ UNCHANGED latch /\ Goto(Op, "s_bus")
  /\ UNCHANGED <<state, teardown, loop, timing, units, attempts, local, broken>>

\* Fault: stop() joins and destroys without the teardown lock.
StopWithoutTeardown ==
  /\ At(Op, "s_lock")
  /\ Goto(Op, "s_halt_bus")
  /\ UNCHANGED <<fsm, threads, timing, units, attempts, local, broken>>

StopTakesTeardown ==
  /\ At(Op, "s_lock") /\ teardown = "none"
  /\ teardown' = Op
  /\ Goto(Op, "s_halt_bus")
  /\ UNCHANGED <<state, latch, threads, timing, units, attempts, local, broken>>

\* Fault: stop() joins the scheduler's loop before it tells it to stop.
StopJoinsTooEarly ==
  /\ \/ At(Op, "s_bus") /\ Join(Op, "bus") /\ Goto(Op, "s_monitor")
     \/ At(Op, "s_monitor") /\ Join(Op, "scheduler") /\ Call(Op, "t_null", "s_cleanup")
     \/ At(Op, "s_cleanup") /\ UNCHANGED loop /\ Call(Op, "d_drop", "s_unlock")
  /\ UNCHANGED <<fsm, flag, timing, units, attempts, local, broken>>

StopJoins ==
  /\ \/ At(Op, "s_bus") /\ Join(Op, "bus") /\ Goto(Op, "s_monitor")
     \/ At(Op, "s_monitor") /\ Join(Op, "monitor") /\ Call(Op, "t_null", "s_cleanup")
     \/ At(Op, "s_cleanup") /\ UNCHANGED loop /\ Call(Op, "d_drop", "s_unlock")
  /\ UNCHANGED <<fsm, flag, timing, units, attempts, local, broken>>

\* Fault: stop() lowers the latch again when it is done.
FinishStopClearsLatch ==
  /\ \/ At(Op, "s_unlock") /\ teardown' = "none" /\ Goto(Op, "s_done") /\ UNCHANGED <<state, latch>>
     \/ At(Op, "s_done") /\ Transition(Op, "STOPPED", "idle", "idle") /\ UNCHANGED teardown
          /\ latch' = FALSE
  /\ UNCHANGED <<threads, timing, units, attempts, local, broken>>

FinishStop ==
  /\ \/ At(Op, "s_unlock") /\ Goto(Op, "s_done") /\ UNCHANGED state
          /\ teardown' = IF teardown = Op THEN "none" ELSE teardown
     \/ At(Op, "s_done") /\ Transition(Op, "STOPPED", "idle", "idle") /\ UNCHANGED teardown
  /\ UNCHANGED <<latch, threads, timing, units, attempts, local, broken>>

-----------------------------------------------------------------------------
(* emergencyShutdown(), on any thread.                                      *)

EStopSignals(t) ==
  /\ \/ At(t, "e_fatal") /\ state' = "FATAL_ERROR" /\ UNCHANGED <<latch, flag>>
          /\ Goto(t, "e_latch")
     \/ At(t, "e_latch") /\ latch' = TRUE /\ UNCHANGED <<state, flag>> /\ Goto(t, "e_flags")
     \/ At(t, "e_flags") /\ RequestStop({"bus", "monitor"}) /\ UNCHANGED <<state, latch>>
          /\ Goto(t, "e_try")
     \/ At(t, "e_halt_bus") /\ RequestStop({"bus"}) /\ UNCHANGED <<state, latch>>
          /\ Goto(t, "e_bus")
  /\ UNCHANGED <<teardown, loop, timing, units, attempts, local, broken>>

\* The loser of the try_lock leaves the teardown to its owner.
EStopTakesTeardown(t) ==
  /\ At(t, "e_try")
  /\ IF teardown = "none" THEN teardown' = t /\ Goto(t, "e_halt_bus")
                          ELSE UNCHANGED teardown /\ Return(t)
  /\ UNCHANGED <<state, latch, threads, timing, units, attempts, local, broken>>

EStopJoins(t) ==
  /\ \/ At(t, "e_bus") /\ Join(t, "bus") /\ Goto(t, "e_monitor")
     \/ At(t, "e_monitor") /\ Join(t, "monitor") /\ Call(t, "t_null", "e_clear")
  /\ UNCHANGED <<fsm, flag, timing, units, attempts, local, broken>>

\* The cleared units are destroyed here, outside the registry's lock.
EStopClears(t) ==
  /\ \/ At(t, "e_clear") /\ units' = {} /\ UNCHANGED teardown /\ Goto(t, "e_unlock")
     \/ At(t, "e_unlock") /\ teardown' = "none" /\ UNCHANGED units /\ Return(t)
  /\ UNCHANGED <<state, latch, threads, timing, attempts, local, broken>>

EmergencyShutdown(t) ==
  EStopSignals(t) \/ EStopTakesTeardown(t) \/ EStopJoins(t) \/ EStopClears(t)

-----------------------------------------------------------------------------
(* reset()                                                                  *)

ResetWaits ==
  /\ \/ At(Op, "z_wait") /\ teardown = "none" /\ UNCHANGED loop /\ Goto(Op, "z_bus")
     \/ At(Op, "z_bus") /\ Join(Op, "bus") /\ Goto(Op, "z_monitor")
     \/ At(Op, "z_monitor") /\ Join(Op, "monitor") /\ Goto(Op, "z_transition")
  /\ UNCHANGED <<fsm, flag, timing, units, attempts, local, broken>>

ResetTail ==
  /\ \/ At(Op, "z_transition") /\ Transition(Op, "UNINITIALIZED", "z_clear", "z_clear")
          /\ UNCHANGED <<units, attempts>>
     \/ At(Op, "z_clear") /\ units' = {} /\ attempts' = 0 /\ UNCHANGED state
          /\ Goto(Op, "z_drop")
     \/ At(Op, "z_drop") /\ Call(Op, "d_drop", "z_return") /\ UNCHANGED <<state, units, attempts>>
  /\ UNCHANGED <<latch, teardown, threads, timing, local, broken>>

ReturnToUser ==
  /\ pc[Op] \in {"i_return", "b_return", "z_return"} /\ Goto(Op, "idle")
  /\ UNCHANGED <<fsm, threads, timing, units, attempts, local, broken>>

-----------------------------------------------------------------------------
(* The loops of the workers, and attemptRecovery() on the monitor.          *)

Leaving(w) == ~flag[w] \/ (w # "scheduler" /\ ShutdownRequested)

LoopEnds(w) ==
  /\ At(w, "loop") /\ loop[w] = "running" /\ Leaving(w)
  /\ loop' = [loop EXCEPT ![w] = "ended"]
  /\ UNCHANGED <<fsm, flag, timing, units, attempts, local, broken, pc, stack>>

HealthCheck ==
  /\ At("monitor", "loop") /\ loop["monitor"] = "running" /\ ~Leaving("monitor")
  /\ failing' \in IF state \in {"ERROR", "FATAL_ERROR"} THEN {TRUE} ELSE BOOLEAN
  /\ Goto("monitor", "m_callback")
  /\ UNCHANGED <<fsm, threads, timing, units, attempts, exec, broken>>

\* Fault: the number of attempts is not bounded.
CanRecoverForEver == env.recovery /\ failing

CanRecover == env.recovery /\ failing /\ attempts < MaxRecoveries

AttemptRecovery ==
  \/ /\ At("monitor", "m_callback") /\ Goto("monitor", "m_decide")
     /\ UNCHANGED <<threads, paused, attempts, failing, broken>>
  \/ /\ At("monitor", "m_decide")
     /\ IF CanRecover
          THEN attempts' = attempts + 1 /\ Goto("monitor", "m_recover")
          ELSE UNCHANGED attempts /\ Goto("monitor", "loop")
     /\ failing' = FALSE
     /\ UNCHANGED <<threads, paused, broken>>
  \/ /\ At("monitor", "m_recover")
     /\ IF controller THEN Call("monitor", "t_halt", "m_start") ELSE Goto("monitor", "loop")
     /\ UNCHANGED <<threads, paused, attempts, failing, broken>>
  \/ /\ At("monitor", "m_start") /\ SchedulerFree("monitor")
     /\ IF controller
          THEN /\ Restart("scheduler") /\ paused' = (paused /\ flag["scheduler"])
               /\ UNCHANGED broken
          ELSE broken' = broken \cup {"null_controller"} /\ UNCHANGED <<threads, paused>>
     /\ Goto("monitor", "loop")
     /\ UNCHANGED <<attempts, failing>>

Recovery == AttemptRecovery /\ UNCHANGED <<fsm, controller, tasks, units, exec>>

Touch(u) == broken' = IF u \in units THEN broken ELSE broken \cup {"freed_unit"}

RunTask ==
  /\ \/ \E u \in tasks :
          /\ At("scheduler", "loop") /\ loop["scheduler"] = "running" /\ flag["scheduler"]
          /\ ~paused
          /\ exec' = u /\ Touch(u) /\ Goto("scheduler", "x_unit")
     \/ At("scheduler", "x_unit") /\ UNCHANGED <<exec, broken>> /\ Goto("scheduler", "x_done")
     \/ /\ At("scheduler", "x_done")
        /\ Touch(exec) /\ exec' = NoUnit /\ Goto("scheduler", "loop")
  /\ UNCHANGED <<fsm, threads, timing, units, attempts, failing>>

-----------------------------------------------------------------------------
(* Calls: the operator's, the alarms' and those of user code on a worker.   *)

Path(t)       == {pc[t]} \cup {stack[t][i] : i \in DOMAIN stack[t]}
InSetup       == Path(Op) \cap (InitPC \cup ResetPC) # {}
InStart       == Path(Op) \cap {"b_start", "b_units", "b_running", "b_return"} # {}
InEStop(t)    == Path(t) \cap EStopPC # {}
AlarmsQuiet   == Does("overlap") \/ \A a \in Alarms : ~InEStop(a)
StartQuiet    == Does("estop_start") \/ \A t \in Threads : ~InEStop(t)
EStopAllowed  == /\ Does("overlap") \/ ~InSetup
                 /\ Does("estop_start") \/ ~InStart
Restartable   == /\ Does("restart") \/ state # "STOPPED"
                 /\ Does("from_error") \/ state # "ERROR"
Live          == {"INITIALIZED", "STARTING", "RUNNING", "PAUSING", "PAUSED", "RESUMING"}

OperatorCalls ==
  /\ At(Op, "idle")
  /\ \/ /\ AlarmsQuiet /\ (Does("reinit") \/ state \notin Live)
        /\ Goto(Op, "i_monitor") /\ UNCHANGED state
     \/ /\ AlarmsQuiet /\ Call(Op, "e_fatal", "z_wait") /\ UNCHANGED state
     \/ Restartable /\ StartQuiet /\ Transition(Op, "STARTING", "b_start", "idle")
     \/ Restartable /\ Transition(Op, "PAUSING", "p_pause", "idle")
     \/ Restartable /\ Transition(Op, "RESUMING", "r_resume", "idle")
     \/ Transition(Op, "STOPPING", "s_latch", "idle")
     \/ Call(Op, "e_fatal", "idle") /\ UNCHANGED state
  /\ UNCHANGED <<latch, teardown, threads, timing, units, attempts, local, broken>>

UserCodePullsEStop(t) ==
  /\ \/ t \in Alarms /\ At(t, "idle") /\ Call(t, "e_fatal", "idle")
     \/ /\ t = "bus" /\ At(t, "loop") /\ loop[t] = "running" /\ ~Leaving(t)
        /\ Call(t, "e_fatal", "loop")
     \/ t = "monitor" /\ Does("monitor_estop") /\ At(t, "m_callback")
          /\ Call(t, "e_fatal", "m_decide")
     \/ t = "scheduler" /\ Does("unit_estop") /\ At(t, "x_unit")
          /\ Call(t, "e_fatal", "x_done")
  /\ EStopAllowed
  /\ UNCHANGED <<fsm, threads, timing, units, attempts, local, broken>>

\* Under the registry's lock: the unit is owned, and scheduled if the system is RUNNING.
RegisterProcessingUnit(u) ==
  /\ Does("late") \/ (At(Op, "idle") /\ state # "PAUSED")
  /\ u \notin units /\ u \notin tasks
  /\ units' = units \cup {u}
  /\ tasks' = IF controller /\ state = "RUNNING" THEN tasks \cup {u} ELSE tasks
  /\ UNCHANGED <<fsm, threads, controller, paused, attempts, local, broken, pc, stack>>

-----------------------------------------------------------------------------
OperatorStep ==
  \/ JoinStaleLoops \/ InitializeComponents \/ BeginInitialization \/ LoadConfiguration
  \/ InitializeBlocksLayout \/ FailInitialization \/ StartLoops \/ FinishInitialization
  \/ StartController \/ ScheduleUnits \/ FinishStart \/ PauseAndResume
  \/ StopSignals \/ StopTakesTeardown \/ StopJoins \/ FinishStop
  \/ ResetWaits \/ ResetTail \/ ReturnToUser \/ Drop(Op)

AnyStep(t)    == EmergencyShutdown(t) \/ TimingStop(t)
WorkerStep(w) == LoopEnds(w) \/ (w = "monitor" /\ Recovery) \/ (w = "scheduler" /\ RunTask)

\* Undefined behaviour ends the run.
Next ==
  /\ broken = {} /\ UNCHANGED env
  /\ \/ OperatorCalls \/ OperatorStep \/ HealthCheck
     \/ \E t \in Threads : AnyStep(t) \/ UserCodePullsEStop(t)
     \/ \E w \in Workers : WorkerStep(w)
     \/ \E u \in Units : RegisterProcessingUnit(u)

Spec == Init /\ [][Next]_vars

\* Every thread inside a call is scheduled, and so is a loop that may leave.
\* A mutex that is free again and again is acquired at last.
Fairness ==
  /\ WF_moving(OperatorStep) /\ SF_moving(StopTakesTeardown) /\ SF_moving(ResetWaits)
  /\ \A t \in Threads : WF_moving(AnyStep(t))
  /\ \A w \in Workers : WF_moving(WorkerStep(w))

FairSpec == Spec /\ Fairness

-----------------------------------------------------------------------------
(* Properties                                                               *)

InCall(t)   == pc[t] \notin {"idle", "loop", "x_unit"}
Settled     == \A t \in Threads : ~InCall(t)
InShutdown(t) ==
  Path(t) \cap ((EStopPC \cup StopPC) \ {"e_fatal", "e_latch", "s_latch"}) # {}

\* No thread uses the controller or a unit after another thread destroyed it,
\* and no call goes through a null timingController_, as long as e-stops keep
\* out of initialize(), reset(), start() and the units' own tasks, start()
\* follows an initialize(), and no health callback pulls the e-stop of a system
\* that then recovers.
NothingFreedInUse ==
  broken # {} =>
    \/ env.does \cap {"overlap", "estop_start", "unit_estop", "restart", "from_error"} # {}
    \/ env.recovery /\ Does("monitor_estop")

\* Once the emergency stop and the calls it raced are over, the scheduler is
\* stopped and no task is being executed, although the monitor restarts the
\* scheduler to recover and start() starts it without looking at the state.
EStopHalts ==
  state = "FATAL_ERROR" /\ Settled => ~flag["scheduler"] /\ exec = NoUnit

\* A system that reports RUNNING has a controller whose loop runs, an event
\* thread which does not want to leave, no shutdown latch left raised, and a
\* task for each registered unit: start() starts "all registered components".
RunningIsAlive ==
  state = "RUNNING" /\ Settled =>
    /\ controller /\ flag["scheduler"] /\ loop["scheduler"] = "running"
    /\ ~latch /\ flag["bus"] /\ loop["bus"] = "running"
    /\ units \subseteq tasks

\* A shutdown in progress is never un-done: from its latch on, no thread's
\* stop() or emergencyShutdown() sees initialize() clear the latch.
LatchHolds == \A t \in Threads : InShutdown(t) => latch

\* A settled PAUSED system runs no further task, unless the health monitor
\* may restart the scheduler.
PausedIsPaused ==
  state = "PAUSED" /\ Settled /\ controller => paused \/ env.recovery

\* What the states of the system say of its parts: RUNNING, PAUSED, and a
\* shutdown in progress.
StatesHold == TypeOK /\ RunningIsAlive /\ LatchHolds /\ PausedIsPaused

\* initialize()'s argument that the emergency stop wins: even loops which it
\* spawns after the stop see FATAL_ERROR and leave, as long as every call
\* before is defined.
FatalStopsLoops ==
  state = "FATAL_ERROR"
    ~> \/ state # "FATAL_ERROR" \/ broken # {}
       \/ loop["bus"] # "running" /\ loop["monitor"] # "running"

\* emergencyShutdown() returns to whoever pulled it, and stop() and reset() to
\* the operator, although each joins threads that may be inside an e-stop; a
\* reset() that overtakes the e-stop may leave it behind for good.
CallsReturn ==
  ~Does("overlap") =>
    /\ \A t \in Threads : InEStop(t) ~> ~InEStop(t) \/ broken # {}
    /\ \A called \in {StopPC, ResetPC} :
         Path(Op) \cap called # {} ~> Path(Op) \cap called = {} \/ broken # {}

-----------------------------------------------------------------------------
(* Environments to check the promises in.                                   *)

Environment(recovery, does) == [recovery |-> recovery, does |-> does]

\* The documented discipline; a monitor that never recovers but may pull the
\* e-stop; e-stops that race start() or come from a unit, and a configuration
\* file that does not load.
Safe == { Environment(TRUE, {}),
          Environment(FALSE, {"monitor_estop"}),
          Environment(TRUE, {"estop_start", "unit_estop", "badconfig"}) }

\* E-stops that race start(), or also initialize() and reset().
Anytime == { Environment(TRUE, {"estop_start"}), Environment(FALSE, {"overlap"}) }

\* A health callback pulls the e-stop of a system that recovers.
Recovering == { Environment(TRUE, {"monitor_estop"}) }
=============================================================================
