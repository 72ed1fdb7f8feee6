------------------------- MODULE AxonVexSystemProofs -------------------------
(***************************************************************************)
(* The life cycle of the system, for every number of alarm threads, units  *)
(* and recovery attempts, and for every set of environments: the types; a  *)
(* shutdown's latch; nobody uses a controller or a unit that was freed;    *)
(* an emergency stop halts the scheduler; RUNNING and PAUSED mean what     *)
(* they say.                                                               *)
(***************************************************************************)
EXTENDS AxonVexSystem, SequenceTheorems, TLAPS

-----------------------------------------------------------------------------
(* Where a thread is: the step, the call it returns to first, and last.     *)

top  == [t \in Threads |-> IF stack[t] = << >> THEN "none" ELSE Head(stack[t])]
base == [t \in Threads |-> IF stack[t] = << >> THEN "none" ELSE stack[t][Len(stack[t])]]

\* Inside TimingController::stop(), and inside the destruction of the controller.
Halts == {"t_null", "t_halt", "t_lock", "t_join"}
Drops == {"d_drop", "d_halt", "t_lock", "t_join"}

\* Steps that call nothing; who calls emergencyShutdown(); who calls TimingController::stop()
\* from elsewhere; where the operator destroys the controller.
Home(t) ==
  IF t = Op THEN {"idle"} \cup InitPC \cup StartPC \cup StopPC \cup ResetPC
  ELSE IF t = "bus" THEN {"loop"}
  ELSE IF t = "monitor" THEN {"loop", "m_callback", "m_decide", "m_recover", "m_start"}
  ELSE IF t = "scheduler" THEN {"loop", "x_unit", "x_done"} ELSE {"idle"}
EStopBack(t) ==
  IF t = Op THEN {"idle", "z_wait"} ELSE IF t = "bus" THEN {"loop"}
  ELSE IF t = "monitor" THEN {"m_decide"} ELSE IF t = "scheduler" THEN {"x_done"} ELSE {"idle"}
HaltBack(t) ==
  IF t = Op THEN {"b_return", "s_cleanup"} ELSE IF t = "monitor" THEN {"m_start"} ELSE {}
DropBack(t) ==
  IF t = Op THEN {"i_transition", "i_return", "i_throw_error", "s_unlock", "z_return"} ELSE {}

\* The calls nest the way they are written.
CallsNest(t) ==
  \/ stack[t] = << >> /\ pc[t] \in Home(t)
  \/ \E r \in EStopBack(t) : stack[t] = <<r>> /\ pc[t] \in EStopPC
  \/ \E r \in EStopBack(t) : stack[t] = <<"e_clear", r>> /\ pc[t] \in Halts
  \/ \E r \in HaltBack(t) : stack[t] = <<r>> /\ pc[t] \in Halts
  \/ \E r \in DropBack(t) : stack[t] = <<r>> /\ pc[t] \in Drops

\* The types of the data.
DataInv ==
  /\ env \in Environments
  /\ state \in States /\ latch \in BOOLEAN /\ teardown \in Threads \cup {"none"}
  /\ flag \in [Workers -> BOOLEAN] /\ loop \in [Workers -> {"none", "running", "ended"}]
  /\ controller \in BOOLEAN /\ paused \in BOOLEAN /\ tasks \subseteq Units /\ units \subseteq Units
  /\ attempts \in 0..MaxRecoveries /\ failing \in BOOLEAN /\ exec \in Units \cup {NoUnit}
  /\ broken \subseteq {"null_controller", "freed_controller", "freed_unit"}

ControlInv ==
  /\ pc \in [Threads -> PCs] /\ stack \in [Threads -> Seq(PCs)]
  /\ \A t \in Threads : CallsNest(t)

LEMMA Names ==
  /\ Op \in Threads /\ Workers \subseteq Threads /\ Alarms \subseteq Threads
  /\ \A a \in Alarms : a \notin Workers /\ a # Op /\ a # "none"
  /\ Op \notin Workers /\ "none" \notin Threads
  /\ Threads = {Op} \cup Alarms \cup Workers
  /\ \A w : w \in Workers <=> w \in {"bus", "monitor", "scheduler"}
  BY AlarmsAssumption DEF Op, Threads, Workers

\* What a thread returns to is a step of its own.
LEMMA Backs ==
  ASSUME NEW t \in Threads
  PROVE  /\ Home(t) \subseteq PCs /\ EStopPC \subseteq PCs /\ Halts \subseteq PCs /\ Drops \subseteq PCs
         /\ EStopBack(t) \subseteq Home(t) /\ HaltBack(t) \subseteq Home(t) /\ DropBack(t) \subseteq Home(t)
         /\ Home(t) \cap (EStopPC \cup Halts \cup Drops) = {}
         /\ EStopPC \cap (Halts \cup Drops) = {}
         /\ "e_clear" \in EStopPC /\ "e_clear" \notin Home(t) /\ "none" \notin PCs
BY DEF Home, EStopBack, HaltBack, DropBack, Halts, Drops, EStopPC, PCs, InitPC, StartPC, StopPC,
       ResetPC, TimingPC, WorkPC

\* Stacks of one and of two calls.
LEMMA Stacks ==
  ASSUME NEW S, NEW a \in S, NEW b \in S
  PROVE  /\ <<a>> # << >> /\ Len(<<a>>) = 1 /\ <<a>>[1] = a /\ Head(<<a>>) = a
         /\ <<a, b>> # << >> /\ Len(<<a, b>>) = 2 /\ <<a, b>>[2] = b /\ Head(<<a, b>>) = a
         /\ Tail(<<a>>) = << >> /\ Tail(<<a, b>>) = <<b>>
         /\ <<a>> \o << >> = <<a>> /\ <<a>> \o <<b>> = <<a, b>>
<1>1. <<a>> # << >> /\ Len(<<a>>) = 1 /\ <<a>>[1] = a /\ Head(<<a>>) = a
  OBVIOUS
<1>2. <<a, b>> # << >> /\ Len(<<a, b>>) = 2 /\ <<a, b>>[2] = b /\ Head(<<a, b>>) = a
  OBVIOUS
<1>3. Tail(<<a>>) = << >>
  OBVIOUS
<1>4. Tail(<<a, b>>) = <<b>>
  OBVIOUS
<1>5. <<a>> \o << >> = <<a>>
  OBVIOUS
<1>6. <<a>> \o <<b>> = <<a, b>>
  <2>1. /\ <<a>> \o <<b>> \in Seq(S) /\ Len(<<a>> \o <<b>>) = 2
        /\ (<<a>> \o <<b>>)[1] = a /\ (<<a>> \o <<b>>)[2] = b
    BY ConcatProperties
  <2>2. <<a, b>> \in Seq(S) /\ Len(<<a, b>>) = 2 /\ <<a, b>>[1] = a /\ <<a, b>>[2] = b
    OBVIOUS
  <2>3. \A i \in 1..2 : (<<a>> \o <<b>>)[i] = <<a, b>>[i]
    BY <2>1
  <2> QED
    BY <2>1, <2>2, <2>3, SeqEqual
<1> QED
  BY <1>1, <1>2, <1>3, <1>4, <1>5, <1>6

\* What `top` and `base` say of the three forms a stack has.
Site(t) ==
  \/ stack[t] = << >> /\ pc[t] \in Home(t) /\ top[t] = "none" /\ base[t] = "none"
  \/ /\ stack[t] = <<base[t]>> /\ top[t] = base[t]
     /\ \/ pc[t] \in EStopPC /\ base[t] \in EStopBack(t)
        \/ pc[t] \in Halts /\ base[t] \in HaltBack(t)
        \/ pc[t] \in Drops /\ base[t] \in DropBack(t)
  \/ /\ stack[t] = <<"e_clear", base[t]>> /\ top[t] = "e_clear"
     /\ pc[t] \in Halts /\ base[t] \in EStopBack(t)

LEMMA Sites ==
  ASSUME ControlInv, NEW t \in Threads
  PROVE  Site(t)
<1>1. CASE stack[t] = << >> /\ pc[t] \in Home(t)
  BY <1>1 DEF top, base, Site
<1>2. ASSUME NEW r \in PCs, stack[t] = <<r>> PROVE top[t] = r /\ base[t] = r
  BY <1>2 DEF top, base
<1>3. ASSUME NEW r \in PCs, stack[t] = <<"e_clear", r>> PROVE top[t] = "e_clear" /\ base[t] = r
  BY <1>3 DEF top, base
<1>4. EStopBack(t) \subseteq PCs /\ HaltBack(t) \subseteq PCs /\ DropBack(t) \subseteq PCs
  BY Backs
<1> QED
  BY <1>1, <1>2, <1>3, <1>4 DEF CallsNest, ControlInv, Site

-----------------------------------------------------------------------------
(* One thread moves                                                         *)

\* Thread t is at l now, and returns to a first and to b last; the others did not move.
Moved(t, l, a, b) ==
  /\ pc'[t] = l /\ top'[t] = a /\ base'[t] = b
  /\ \A u \in Threads : u # t => pc'[u] = pc[u] /\ top'[u] = top[u] /\ base'[u] = base[u]

\* Nobody moves.
LEMMA Stands ==
  ASSUME ControlInv, UNCHANGED <<pc, stack>>
  PROVE  ControlInv' /\ UNCHANGED <<top, base>>
BY DEF ControlInv, CallsNest, top, base

\* The steps between which a call goes on.
SameCall(t, k, l) ==
  \/ k \in Home(t) /\ l \in Home(t)
  \/ k \in EStopPC /\ l \in EStopPC
  \/ k \in Halts /\ l \in Halts \cap Drops
  \/ k \in Drops /\ l \in Halts \cap Drops
  \/ k = "t_null" /\ l = "t_halt"
  \/ k = "d_drop" /\ l = "d_halt"

LEMMA Goes ==
  ASSUME ControlInv, NEW t \in Threads, NEW l, Goto(t, l), SameCall(t, pc[t], l)
  PROVE  ControlInv' /\ Moved(t, l, top[t], base[t])
<1>1. pc'[t] = l /\ \A u \in Threads : u # t => pc'[u] = pc[u]
  BY DEF Goto, ControlInv
<1>2. UNCHANGED <<stack, top, base>>
  BY DEF Goto, top, base
<1>3. CallsNest(t)'
  <2>1. /\ (pc[t] \in Home(t) => l \in Home(t)) /\ (pc[t] \in EStopPC => l \in EStopPC)
        /\ (pc[t] \in Halts => l \in Halts) /\ (pc[t] \in Drops => l \in Drops)
    BY Backs DEF SameCall, Halts, Drops
  <2> QED
    BY <1>1, <1>2, <2>1 DEF ControlInv, CallsNest
<1>4. \A u \in Threads : u # t => CallsNest(u)'
  BY <1>1, <1>2 DEF ControlInv, CallsNest
<1>5. pc' \in [Threads -> PCs] /\ stack' \in [Threads -> Seq(PCs)]
  <2>1. l \in PCs
    BY Backs DEF SameCall, Halts, Drops
  <2> QED
    BY <1>2, <2>1 DEF Goto, ControlInv
<1> QED
  BY <1>1, <1>2, <1>3, <1>4, <1>5 DEF ControlInv, Moved

\* A call of emergencyShutdown(), of TimingController::stop() or of the destruction.
LEMMA Enters ==
  ASSUME ControlInv, NEW t \in Threads, NEW l, NEW back \in PCs, Call(t, l, back),
         \/ /\ pc[t] \in Home(t)
            /\ \/ l \in EStopPC /\ back \in EStopBack(t)
               \/ l \in Halts /\ back \in HaltBack(t)
               \/ l \in Drops /\ back \in DropBack(t)
         \/ pc[t] \in EStopPC /\ l \in Halts /\ back = "e_clear"
  PROVE  /\ ControlInv'
         /\ Moved(t, l, back, IF pc[t] \in EStopPC THEN base[t] ELSE back)
<1>0. CallsNest(t)
  BY DEF ControlInv
<1>1. /\ pc'[t] = l /\ stack'[t] = <<back>> \o stack[t]
      /\ \A u \in Threads : u # t => pc'[u] = pc[u] /\ stack'[u] = stack[u]
  BY <1>0 DEF Call, ControlInv
<1>2. \A u \in Threads : u # t => CallsNest(u)' /\ top'[u] = top[u] /\ base'[u] = base[u]
  BY <1>1 DEF ControlInv, CallsNest, top, base
<1>5. pc' \in [Threads -> PCs] /\ stack' \in [Threads -> Seq(PCs)]
  <2>1. l \in PCs /\ stack[t] \in Seq(PCs)
    BY Backs DEF ControlInv
  <2>2. <<back>> \o stack[t] \in Seq(PCs)
    BY <2>1
  <2> QED
    BY <2>1, <2>2 DEF Call, ControlInv
<1>3. CASE pc[t] \in Home(t)
  <2>1. stack[t] = << >> /\ pc[t] \notin EStopPC
    BY <1>0, <1>3, Backs DEF CallsNest
  <2>2. stack'[t] = <<back>>
    BY <1>1, <2>1
  <2>3. top'[t] = back /\ base'[t] = back
    BY <2>2, Stacks DEF top, base
  <2>4. CallsNest(t)'
    BY <1>1, <1>3, <2>1 DEF CallsNest
  <2> QED
    BY <1>1, <1>2, <1>5, <2>1, <2>3, <2>4 DEF ControlInv, Moved
<1>4. CASE pc[t] \in EStopPC
  <2>1. stack[t] = <<base[t]>> /\ base[t] \in EStopBack(t) /\ base[t] \in PCs /\ pc[t] \notin Home(t)
    BY <1>0, <1>4, Sites, Backs DEF Site
  <2>2. back = "e_clear" /\ l \in Halts
    BY <2>1
  <2>3. stack'[t] = <<"e_clear", base[t]>>
    BY <1>1, <2>1, Stacks
  <2>4. top'[t] = back /\ base'[t] = base[t]
    BY <2>1, <2>3, Stacks DEF top, base
  <2>5. CallsNest(t)'
    BY <1>1, <2>1, <2>2, <2>3 DEF CallsNest
  <2> QED
    BY <1>1, <1>2, <1>4, <1>5, <2>4, <2>5 DEF ControlInv, Moved
<1> QED
  BY <1>3, <1>4

\* A return, to the e-stop that called or to a step of the thread's own.
LEMMA Returns ==
  ASSUME ControlInv, NEW t \in Threads, Return(t), pc[t] \notin Home(t)
  PROVE  /\ ControlInv'
         /\ IF top[t] = "e_clear" THEN Moved(t, "e_clear", base[t], base[t])
                                  ELSE Moved(t, top[t], "none", "none")
<1>0. CallsNest(t)
  BY DEF ControlInv
<1>1. /\ pc'[t] = Head(stack[t]) /\ stack'[t] = Tail(stack[t])
      /\ \A u \in Threads : u # t => pc'[u] = pc[u] /\ stack'[u] = stack[u]
  BY <1>0 DEF Return, ControlInv
<1>2. \A u \in Threads : u # t => CallsNest(u)' /\ top'[u] = top[u] /\ base'[u] = base[u]
  BY <1>1 DEF ControlInv, CallsNest, top, base
<1>5. pc' \in [Threads -> PCs] /\ stack' \in [Threads -> Seq(PCs)]
  <2>0. \A a, b : <<a>> # << >> /\ <<a, b>> # << >>
    OBVIOUS
  <2>1. stack[t] \in Seq(PCs) /\ stack[t] # << >>
    BY <2>0, Sites DEF ControlInv, Site
  <2>2. Head(stack[t]) \in PCs /\ Tail(stack[t]) \in Seq(PCs)
    BY <2>1
  <2> QED
    BY <2>2 DEF Return, ControlInv
<1>3. CASE stack[t] = <<base[t]>> /\ top[t] = base[t] /\ base[t] \in Home(t)
  <2>1. pc'[t] = top[t] /\ stack'[t] = << >> /\ top[t] # "e_clear"
    BY <1>1, <1>3, Backs
  <2>2. CallsNest(t)' /\ top'[t] = "none" /\ base'[t] = "none"
    BY <1>3, <2>1 DEF CallsNest, top, base
  <2> QED
    BY <1>1, <1>2, <1>5, <2>1, <2>2 DEF ControlInv, Moved
<1>4. CASE stack[t] = <<"e_clear", base[t]>> /\ top[t] = "e_clear" /\ base[t] \in EStopBack(t)
  <2>1. base[t] \in PCs /\ "e_clear" \in PCs
    BY <1>4, Backs
  <2>2. pc'[t] = top[t] /\ stack'[t] = <<base[t]>>
    BY <1>1, <1>4, <2>1
  <2>3. CallsNest(t)'
    BY <1>4, <2>2, Backs DEF CallsNest
  <2>4. top'[t] = base[t] /\ base'[t] = base[t]
    BY <2>1, <2>2 DEF top, base
  <2> QED
    BY <1>1, <1>2, <1>4, <1>5, <2>2, <2>3, <2>4 DEF ControlInv, Moved
<1> QED
  BY <1>0, <1>3, <1>4, Sites, Backs DEF Site

-----------------------------------------------------------------------------
(* What the calls of several threads keep true of each other.               *)

EStopping(t) == pc[t] \in EStopPC \/ top[t] = "e_clear"

\* Inside reset(), initialize(), and the part of start() that touches the scheduler.
InReset  == pc[Op] \in ResetPC \/ base[Op] \in {"z_wait", "z_return"}
InInit   == pc[Op] \in InitPC \/ base[Op] \in {"i_transition", "i_return", "i_throw_error"}
Starting == pc[Op] \in {"b_start", "b_units", "b_running"} \/ base[Op] = "b_return"

\* The state is INITIALIZING; the state is UNINITIALIZED again; the components are replaced;
\* reset() has waited for the teardown.
Laying    == pc[Op] \in {"i_config", "i_layout", "i_error", "i_clear", "i_start_monitor",
                         "i_start_bus", "i_done", "i_throw"}
Clearing  == pc[Op] \in {"z_clear", "z_drop"} \/ base[Op] = "z_return"
InitDeep  == pc[Op] \in InitPC \ {"i_monitor", "i_bus", "i_replace"}
               \/ base[Op] \in {"i_return", "i_throw_error"}
ResetDeep == \/ pc[Op] \in ResetPC \ {"z_wait"} \/ base[Op] = "z_return"
             \/ pc[Op] = "z_wait" /\ teardown = "none"

\* A loop exists while its thread is inside a step of it.
LoopInv == \A w \in Workers : pc[w] # "loop" => loop[w] = "running"

\* The owner of shutdownMutex_ is the thread that joins and clears.
Owns(t) == \/ pc[t] \in {"e_halt_bus", "e_bus", "e_monitor", "e_clear", "e_unlock",
                         "s_halt_bus", "s_bus", "s_monitor", "s_cleanup", "s_unlock"}
           \/ top[t] \in {"e_clear", "s_cleanup", "s_unlock"}
TeardownInv == \A t \in Threads : teardown = t <=> Owns(t)

\* Only a destruction in progress leaves a scheduler's loop without its controller.
Destroying == pc[Op] \in {"d_halt", "t_lock", "t_join"} /\ base[Op] \in DropBack(Op)
StrayInv ==
  /\ ~controller /\ ~Destroying => loop["scheduler"] # "running"
  /\ base[Op] = "i_transition" => pc[Op] # "d_drop"
  /\ Laying \/ pc[Op] = "i_transition" \/ base[Op] = "i_transition" => controller

FlagInv == /\ flag["scheduler"] => loop["scheduler"] = "running"
           /\ \A t \in Threads : pc[t] = "t_join" => ~flag["scheduler"]
ExecInv == pc["scheduler"] = "loop" <=> exec = NoUnit

PlaceInv == LoopInv /\ TeardownInv /\ StrayInv /\ FlagInv /\ ExecInv

\* What the environment rules out.
ModeInv ==
  /\ ~env.recovery => pc["monitor"] \notin {"m_recover", "m_start"} /\ base["monitor"] # "m_start"
  /\ ~Does("monitor_estop") => ~EStopping("monitor")
  /\ ~Does("unit_estop") => ~EStopping("scheduler")
  /\ ~Does("estop_start") /\ Starting => \A t \in Threads : ~EStopping(t)
  /\ ~Does("estop_start") /\ pc[Op] \in {"b_start", "b_units", "b_running"} => state = "STARTING"

\* The state the operator's call is in, unless an e-stop has overtaken it.
Is(s) == state \in {s, "FATAL_ERROR"}
StateInv ==
  /\ pc[Op] \in {"b_start", "b_units", "b_running"} => Is("STARTING")
  /\ pc[Op] \in {"p_pause", "p_done"} => Is("PAUSING")
  /\ pc[Op] \in {"r_resume", "r_done"} => Is("RESUMING")
  /\ pc[Op] \in StopPC \/ base[Op] \in {"s_cleanup", "s_unlock"} => Is("STOPPING")
  /\ Laying \/ pc[Op] = "i_throw_error" \/ base[Op] = "i_throw_error" => Is("INITIALIZING")
  /\ pc[Op] = "i_cleanup" \/ base[Op] = "i_return" => Is("ERROR")
  /\ (\/ pc[Op] \in {"b_return", "z_wait", "z_bus", "z_monitor", "z_transition"}
      \/ base[Op] = "b_return" \/ (base[Op] = "z_wait" /\ pc[Op] # "e_fatal"))
     => state = "FATAL_ERROR"
  /\ Clearing => Is("UNINITIALIZED")
  /\ state = "STARTING" => pc[Op] \in {"b_start", "b_units", "b_running"}
  /\ state = "PAUSING" => pc[Op] \in {"p_pause", "p_done"}
  /\ state = "RESUMING" => pc[Op] \in {"r_resume", "r_done"}

-----------------------------------------------------------------------------
(* E-stops that keep out of initialize() and reset().                       *)

Apart == ~Does("overlap")

FatalInv == \A t \in Threads : EStopping(t) /\ pc[t] # "e_fatal" => state = "FATAL_ERROR"

MonitorJoined ==
  \/ pc[Op] \in InitPC \ {"i_monitor", "i_start_bus", "i_done"}
  \/ pc[Op] \in {"z_transition", "z_clear", "z_drop", "z_return", "s_cleanup", "s_unlock", "s_done"}
  \/ base[Op] \in DropBack(Op) \cup {"s_cleanup"}
BusJoined ==
  \/ pc[Op] \in InitPC \ {"i_monitor", "i_bus", "i_done"}
  \/ pc[Op] \in {"z_monitor", "z_transition", "z_clear", "z_drop", "z_return",
                 "s_monitor", "s_cleanup", "s_unlock", "s_done"}
  \/ base[Op] \in DropBack(Op) \cup {"s_cleanup"}
QuietInv ==
  /\ InReset \/ InInit => \A a \in Alarms : pc[a] = "idle"
  /\ MonitorJoined => loop["monitor"] # "running"
  /\ BusJoined => loop["bus"] # "running"
  /\ ResetDeep => ~EStopping("scheduler")
  /\ InitDeep => \A t \in Threads : ~EStopping(t)
  /\ Laying => state = "INITIALIZING"

\* Who clears the units has joined the loops that use them.
JoinedInv == \A t \in Threads :
  /\ top[t] = "e_clear" \/ pc[t] \in {"e_clear", "e_unlock"} =>
       t = "monitor" \/ loop["monitor"] # "running"
  /\ pc[t] \in {"e_clear", "e_unlock"} =>
       \/ t = "scheduler" \/ loop["scheduler"] # "running"
       \/ pc[Op] \in {"b_units", "b_running"} \/ base[Op] = "b_return"

\* No shutdown in progress loses its latch.
LatchInv == \A t \in Threads :
  \/ pc[t] \in (EStopPC \cup StopPC) \ {"e_fatal", "e_latch", "s_latch"}
  \/ top[t] \in {"e_clear", "s_cleanup", "s_unlock"}
  => latch

ApartInv == FatalInv /\ QuietInv /\ JoinedInv /\ LatchInv

-----------------------------------------------------------------------------
(* What the three promises need.                                            *)

\* The e-stop halts the scheduler: someone is about to, or nobody restarts it.
MonitorHarmless == loop["monitor"] # "running" \/ ~env.recovery
HaltsNext(t) ==
  \/ pc[t] \in {"e_halt_bus", "e_bus", "e_monitor", "s_halt_bus", "s_bus", "s_monitor"}
  \/ top[t] \in {"e_clear", "s_cleanup"}
Pending(t) == pc[t] \in {"e_latch", "e_flags", "e_try"} \/ HaltsNext(t)
Halted ==
  /\ MonitorHarmless
  /\ Starting \/ (~flag["scheduler"] /\ pc["scheduler"] # "x_unit")
Haltable == Apart /\ ~(env.recovery /\ Does("monitor_estop"))
HaltInv ==
  /\ \A t \in Threads : teardown = t => HaltsNext(t) \/ Halted
  /\ state = "FATAL_ERROR" => Halted \/ \E t \in Threads : Pending(t)

\* A system that is up has what it runs on; start() sees to the scheduler before the tasks.
Awake == {"RUNNING", "PAUSING", "PAUSED", "RESUMING"}
MonitorRestarts == pc["monitor"] = "m_start" \/ base["monitor"] = "m_start"
Lively == env.does \cap {"overlap", "restart", "from_error", "late"} = {}
AliveInv ==
  /\ state \in Awake \cup {"INITIALIZED", "STARTING"} =>
       ~latch /\ flag["bus"] /\ loop["bus"] = "running" /\ controller
  /\ pc[Op] \in {"i_start_monitor", "i_start_bus", "i_done"} => ~latch
  /\ pc[Op] = "i_done" => flag["bus"] /\ loop["bus"] = "running"
  /\ pc[Op] \in {"i_replace", "i_transition"} \/ base[Op] = "i_transition" =>
       state \notin Awake \cup {"INITIALIZED", "STARTING"}
  /\ state \in Awake \/ (state = "STARTING" /\ pc[Op] \in {"b_units", "b_running"}) =>
       MonitorRestarts \/ flag["scheduler"]
  /\ state \in Awake \/ (state = "STARTING" /\ pc[Op] = "b_running") => units \subseteq tasks
  /\ state = "PAUSED" \/ (state = "PAUSING" /\ pc[Op] = "p_done") => paused \/ env.recovery

\* No use of what is freed: the scheduler's tasks are owned units, or nothing runs them again.
Orderly == /\ env.does \cap {"overlap", "estop_start", "unit_estop", "restart", "from_error"} = {}
           /\ ~(env.recovery /\ Does("monitor_estop"))
Dead == /\ loop["scheduler"] # "running" /\ MonitorHarmless
        /\ \/ state = "FATAL_ERROR"
           \/ pc[Op] \in {"z_clear", "z_drop"} \/ (pc[Op] = "d_drop" /\ base[Op] = "z_return")
UseInv ==
  /\ \A t \in Threads : pc[t] = "t_halt" => controller
  /\ MonitorRestarts => controller
  /\ state \in {"INITIALIZED", "STARTING"} => controller
  /\ pc["scheduler"] # "loop" => exec \in units
  /\ ~controller => tasks = {}
  /\ tasks \subseteq units \/ Dead
  /\ ResetDeep => loop["scheduler"] # "running" /\ MonitorHarmless

\* The inductive invariant.
IInv == /\ ControlInv /\ DataInv /\ PlaceInv /\ ModeInv /\ StateInv
        /\ (Apart => ApartInv)
        /\ (Haltable => HaltInv)
        /\ (Lively => AliveInv)
        /\ (Orderly => broken = {} /\ UseInv)

\* Every step: nothing is broken yet, and the environment stays.
Stays == broken = {} /\ UNCHANGED env

-----------------------------------------------------------------------------
(* Lemmas about who is where.                                               *)

\* What the guards of the calls say, in terms of `top` and `base`.
LEMMA Paths ==
  ASSUME ControlInv
  PROVE  /\ \A t \in Threads : InEStop(t) <=> EStopping(t)
         /\ InSetup <=> InReset \/ InInit
         /\ InStart <=> Starting \/ pc[Op] = "b_return"
         /\ \A a \in Alarms : ~EStopping(a) => pc[a] = "idle"
         /\ \A t \in Threads : InShutdown(t) =>
              \/ pc[t] \in (EStopPC \cup StopPC) \ {"e_fatal", "e_latch", "s_latch"}
              \/ top[t] \in {"e_clear", "s_cleanup", "s_unlock"}
<1>1. \A t \in Threads : Path(t) = {pc[t]} \cup ({top[t], base[t]} \ {"none"})
  <2> SUFFICES ASSUME NEW t \in Threads PROVE Path(t) = {pc[t]} \cup ({top[t], base[t]} \ {"none"})
    OBVIOUS
  <2>0. "none" \notin EStopBack(t) \cup HaltBack(t) \cup DropBack(t)
    BY Backs
  <2>1. CASE stack[t] = << >> /\ top[t] = "none" /\ base[t] = "none"
    BY <2>1 DEF Path
  <2>2. CASE stack[t] = <<base[t]>> /\ top[t] = base[t] /\ base[t] # "none"
    BY <2>2 DEF Path
  <2>3. CASE stack[t] = <<"e_clear", base[t]>> /\ top[t] = "e_clear" /\ base[t] # "none"
    <3>1. DOMAIN stack[t] = {1, 2} /\ stack[t][1] = "e_clear" /\ stack[t][2] = base[t]
      BY <2>3
    <3> QED
      BY <2>3, <3>1 DEF Path
  <2> QED
    BY <2>0, <2>1, <2>2, <2>3, Sites DEF Site
<1>2. \A t \in Threads : InEStop(t) <=> EStopping(t)
  <2> SUFFICES ASSUME NEW t \in Threads PROVE InEStop(t) <=> EStopping(t)
    OBVIOUS
  <2>1. top[t] \in EStopPC \ {"none"} <=> top[t] = "e_clear"
    BY Sites, Backs DEF Site
  <2>2. base[t] \notin EStopPC \ {"none"}
    BY Sites, Backs DEF Site
  <2> QED
    BY <1>1, <2>1, <2>2 DEF InEStop, EStopping
<1>3. /\ base[Op] \in {"none", "idle", "z_wait", "b_return", "s_cleanup", "i_transition", "i_return",
                       "i_throw_error", "s_unlock", "z_return"}
      /\ top[Op] \in {"e_clear", base[Op]}
  BY Sites, Names DEF EStopBack, HaltBack, DropBack, Op, Site
<1>4. InSetup <=> InReset \/ InInit
  BY <1>1, <1>3, Names DEF InSetup, InReset, InInit, InitPC, ResetPC
<1>5. InStart <=> Starting \/ pc[Op] = "b_return"
  BY <1>1, <1>3, Names DEF InStart, Starting
<1>6. \A a \in Alarms : ~EStopping(a) => pc[a] = "idle"
  BY Sites, Names DEF EStopping, HaltBack, DropBack, Home, Site
<1>7. \A t \in Threads : InShutdown(t) =>
        \/ pc[t] \in (EStopPC \cup StopPC) \ {"e_fatal", "e_latch", "s_latch"}
        \/ top[t] \in {"e_clear", "s_cleanup", "s_unlock"}
  <2> SUFFICES ASSUME NEW t \in Threads, InShutdown(t), top[t] \notin {"e_clear", "s_cleanup", "s_unlock"}
               PROVE  pc[t] \in (EStopPC \cup StopPC) \ {"e_fatal", "e_latch", "s_latch"}
    OBVIOUS
  <2>1. top[t] = base[t] /\ base[t] \notin (EStopPC \cup StopPC) \ {"e_fatal", "e_latch", "s_latch", "none"}
    BY Sites DEF EStopBack, HaltBack, DropBack, EStopPC, StopPC, Site
  <2> QED
    BY <1>1, <2>1 DEF InShutdown
<1> QED
  BY <1>2, <1>4, <1>5, <1>6, <1>7

\* Where a thread is that is inside an e-stop; only the operator is inside stop().
LEMMA Outside ==
  ASSUME ControlInv, NEW t \in Threads
  PROVE  /\ EStopping(t) => pc[t] \in EStopPC \cup Halts
         /\ t # Op => pc[t] \notin StopPC /\ top[t] \notin {"s_cleanup", "s_unlock"}
<1>1. EStopping(t) => pc[t] \in EStopPC \cup Halts
  BY Sites, Backs DEF Site, EStopping
<1>2. ASSUME t # Op PROVE pc[t] \notin StopPC /\ top[t] \notin {"s_cleanup", "s_unlock"}
  BY <1>2, Sites DEF Site, Home, EStopBack, HaltBack, DropBack, EStopPC, StopPC, Halts
<1> QED
  BY <1>1, <1>2

\* How the environments' disciplines are related; they do not change.
LEMMA Disciplines == (Haltable => Apart) /\ (Lively => Apart) /\ (Orderly => Haltable)
BY DEF Haltable, Lively, Orderly, Apart, Does

LEMMA EnvStays ==
  ASSUME Stays
  PROVE  (Apart' <=> Apart) /\ (Haltable' <=> Haltable) /\ (Lively' <=> Lively) /\ (Orderly' <=> Orderly)
BY DEF Stays, Apart, Haltable, Lively, Orderly, Does

\* While the operator destroys the controller, only a unit's e-stop may be inside it.
LEMMA Alone ==
  ASSUME IInv, Apart, base[Op] \in DropBack(Op) \/ pc[Op] = "i_replace",
         NEW t \in Threads \ {Op}, pc[t] \in Halts
  PROVE  t = "scheduler" /\ EStopping(t) /\ base[Op] # "s_unlock"
<1>1. ApartInv /\ PlaceInv /\ Site(t) /\ pc[t] # "loop"
  BY Sites DEF IInv, Halts
<1>2. loop["monitor"] # "running" /\ loop["bus"] # "running"
  BY <1>1 DEF ApartInv, QuietInv, MonitorJoined, BusJoined, InitPC
<1>3. t \notin {"monitor", "bus"}
  BY <1>1, <1>2, Names DEF PlaceInv, LoopInv
<1>4. EStopping(t) /\ teardown = t
  BY <1>1, <1>3 DEF Site, Home, Halts, EStopPC, HaltBack, DropBack, EStopping, PlaceInv,
         TeardownInv, Owns
<1>5. base[Op] # "s_unlock"
  <2>1. ASSUME base[Op] = "s_unlock" PROVE top[Op] = "s_unlock"
    BY <2>1, Sites, Names DEF IInv, Site, EStopBack
  <2> QED
    BY <1>1, <1>4, <2>1, Names DEF PlaceInv, TeardownInv, Owns
<1>6. t \notin Alarms
  BY <1>1, <1>5 DEF ApartInv, QuietInv, InReset, InInit, InitPC, DropBack, Halts
<1> QED
  BY <1>3, <1>4, <1>5, <1>6, Names

\* An e-stop that finds no controller finds no scheduler's loop.
LEMMA Gone ==
  ASSUME IInv, Apart, NEW t \in Threads, EStopping(t), pc[t] \in Halts, ~controller
  PROVE  loop["scheduler"] # "running"
<1>1. ApartInv /\ PlaceInv /\ Site(t) /\ Site(Op)
  BY Sites, Names DEF IInv
<1>2. SUFFICES ASSUME Destroying PROVE FALSE
  BY <1>1 DEF PlaceInv, StrayInv
<1>3. t # Op
  BY <1>1, <1>2 DEF Site, EStopping, Destroying, EStopBack, DropBack, EStopPC
<1>4. t = "scheduler" /\ base[Op] \in {"i_return", "i_throw_error", "z_return"}
  BY <1>1, <1>2, <1>3, Alone DEF Destroying, DropBack, PlaceInv, StrayInv
<1> QED
  BY <1>1, <1>4 DEF ApartInv, QuietInv, InitDeep, ResetDeep

-----------------------------------------------------------------------------
(* Every action keeps the invariant.                                        *)

\* The sets of steps, and what they say of a thread, are visible in this section.
USE DEF InitPC, StartPC, StopPC, ResetPC, EStopPC, Halts, Drops, Home, EStopBack,
        HaltBack, DropBack, Site, Moved, Op, Stays

\* initialize() joins the stale loops.
LEMMA KeptByJoinStaleLoops ==
  ASSUME IInv, Stays, JoinStaleLoops
  PROVE  IInv'
<1>1. ASSUME At(Op, "i_monitor"), Join(Op, "monitor"), Goto(Op, "i_bus"),
           UNCHANGED <<state, latch, teardown, flag, controller, tasks, paused, units, attempts,
                       failing, exec, broken>>
    PROVE  IInv'
  <2>1. ControlInv' /\ Moved(Op, "i_bus", top[Op], base[Op])
    BY <1>1, Names, Goes DEF IInv, At, SameCall
  <2>2. /\ pc[Op] = "i_monitor"
        /\ loop["monitor"] # "running"
        /\ \A w \in Workers : loop'[w] = "running" <=> loop[w] = "running"
        /\ loop' \in [Workers -> {"none", "running", "ended"}]
    BY <1>1 DEF At, IInv, DataInv, Join
  <2>3. Site(Op)
    BY Sites, Names DEF IInv
  <2>4. DataInv'
    BY <1>1, <2>1, <2>2 DEF IInv, DataInv, States
  <2>5. PlaceInv'
    BY <1>1, <2>1, <2>2, Names DEF IInv, PlaceInv, LoopInv, TeardownInv, Owns, StrayInv,
           Destroying, Laying, FlagInv, ExecInv
  <2>6. ModeInv' /\ StateInv'
    BY <1>1, <2>1, <2>2, Names DEF IInv, ModeInv, Starting, EStopping, Does, StateInv, Is, Laying,
           Clearing
  <2>7. Apart => ApartInv'
    BY <1>1, <2>1, <2>2, Names DEF IInv, ApartInv, FatalInv, QuietInv, JoinedInv, LatchInv,
           EStopping, Apart, InInit, Laying, ResetDeep, InitDeep, BusJoined
  <2>8. Haltable => HaltInv'
    BY <1>1, <2>1, <2>2, <2>3, Names DEF IInv, HaltInv, Haltable, Halted, MonitorHarmless,
           HaltsNext, Pending, Starting, Apart, Does
  <2>9. Lively => AliveInv'
    BY <1>1, <2>1, <2>2, Names DEF IInv, AliveInv, Awake, MonitorRestarts, Lively
  <2>10. Orderly => broken' = {} /\ UseInv'
    BY <1>1, <2>1, <2>2, Names DEF IInv, UseInv, Orderly, Dead, MonitorHarmless, MonitorRestarts,
           ResetDeep
  <2> QED
    BY <2>1, <2>4, <2>5, <2>6, <2>7, <2>8, <2>9, <2>10, EnvStays DEF IInv
<1>2. ASSUME At(Op, "i_bus"), Join(Op, "bus"), Goto(Op, "i_replace"),
           UNCHANGED <<state, latch, teardown, flag, controller, tasks, paused, units, attempts,
                       failing, exec, broken>>
    PROVE  IInv'
  <2>1. ControlInv' /\ Moved(Op, "i_replace", top[Op], base[Op])
    BY <1>2, Names, Goes DEF IInv, At, SameCall
  <2>2. /\ pc[Op] = "i_bus"
        /\ loop["bus"] # "running"
        /\ \A w \in Workers : loop'[w] = "running" <=> loop[w] = "running"
        /\ loop' \in [Workers -> {"none", "running", "ended"}]
    BY <1>2 DEF At, IInv, DataInv, Join
  <2>3. Site(Op)
    BY Sites, Names DEF IInv
  <2>4. DataInv'
    BY <1>2, <2>1, <2>2 DEF IInv, DataInv, States
  <2>5. PlaceInv'
    BY <1>2, <2>1, <2>2, Names DEF IInv, PlaceInv, LoopInv, TeardownInv, Owns, StrayInv,
           Destroying, Laying, FlagInv, ExecInv
  <2>6. ModeInv' /\ StateInv'
    BY <1>2, <2>1, <2>2, Names DEF IInv, ModeInv, Starting, EStopping, Does, StateInv, Is, Laying,
           Clearing
  <2>7. Apart => ApartInv'
    BY <1>2, <2>1, <2>2, Names DEF IInv, ApartInv, FatalInv, QuietInv, JoinedInv, LatchInv,
           EStopping, Apart, InInit, Laying, ResetDeep, InitDeep, MonitorJoined
  <2>8. Haltable => HaltInv'
    BY <1>2, <2>1, <2>2, <2>3, Names DEF IInv, ApartInv, HaltInv, Haltable, Halted,
           MonitorHarmless, HaltsNext, Pending, Starting
  <2>9. Lively => AliveInv'
    BY <1>2, <2>1, <2>2 DEF IInv, AliveInv, Awake, Lively
  <2>10. Orderly => broken' = {} /\ UseInv'
    BY <1>2, <2>1, <2>2, <2>3, Names DEF IInv, UseInv, Orderly, Dead, MonitorHarmless,
           MonitorRestarts, ResetDeep
  <2> QED
    BY <2>1, <2>4, <2>5, <2>6, <2>7, <2>8, <2>9, <2>10, EnvStays DEF IInv
<1> QED
  BY <1>1, <1>2 DEF JoinStaleLoops, fsm, timing, local

\* A fresh controller replaces the old one.
LEMMA KeptByInitializeComponents ==
  ASSUME IInv, Stays, InitializeComponents
  PROVE  IInv'
<1>1. ASSUME At(Op, "i_replace"), DropController(Op, TRUE), Call(Op, "d_halt", "i_transition"),
           UNCHANGED <<state, latch, teardown, flag, loop, units, attempts, failing, exec>>
    PROVE  IInv'
  <2>1. ControlInv' /\ Moved(Op, "d_halt", "i_transition", "i_transition")
    BY <1>1, Names, Backs, Enters DEF IInv, At
  <2>2. /\ pc[Op] = "i_replace"
        /\ controller' = TRUE /\ tasks' = {} /\ paused' = FALSE
        /\ broken' \in {broken, broken \cup {"freed_controller"}}
    BY <1>1 DEF At, IInv, DropController
  <2>3. Site(Op)
    BY Sites, Names DEF IInv
  <2>4. DataInv'
    BY <1>1, <2>1, <2>2, <2>3, Names, Disciplines DEF IInv, PlaceInv, ApartInv, DataInv, States
  <2>5. PlaceInv'
    BY <1>1, <2>1, <2>2, <2>3, Names DEF IInv, PlaceInv, LoopInv, TeardownInv, Owns, StrayInv,
           FlagInv, ExecInv
  <2>6. ModeInv' /\ StateInv'
    BY <1>1, <2>1, <2>2, Names DEF IInv, ModeInv, Starting, EStopping, Does, StateInv, Is, Laying,
           Clearing
  <2>7. Apart => ApartInv'
    BY <1>1, <2>1, <2>2, <2>3, Names DEF IInv, ApartInv, FatalInv, QuietInv, JoinedInv, LatchInv,
           EStopping, Apart, InInit, Laying, ResetDeep, InitDeep, MonitorJoined, BusJoined
  <2>8. Haltable => HaltInv'
    BY <1>1, <2>1, <2>2, <2>3, Names DEF IInv, HaltInv, Haltable, Halted, MonitorHarmless,
           HaltsNext, Pending, Starting
  <2>9. Lively => AliveInv'
    BY <1>1, <2>1, <2>2 DEF IInv, AliveInv, Awake, Lively
  <2>10. Orderly => broken' = {} /\ UseInv'
    <3>1. Orderly => InController \ {Op} = {}
      BY <2>2, Alone, Disciplines DEF InController, IInv, ModeInv, Orderly, Does
    <3>2. Orderly => broken' = {}
      BY <1>1, <3>1 DEF DropController
    <3> QED
      BY <1>1, <2>1, <2>2, <2>3, Names, <3>2 DEF IInv, UseInv, ResetDeep
  <2> QED
    BY <2>1, <2>4, <2>5, <2>6, <2>7, <2>8, <2>9, <2>10, EnvStays DEF IInv
<1>2. ASSUME At(Op, "i_replace"), DropController(Op, TRUE), ~controller, Goto(Op, "i_transition"),
           UNCHANGED <<state, latch, teardown, flag, loop, units, attempts, failing, exec>>
    PROVE  IInv'
  <2>1. ControlInv' /\ Moved(Op, "i_transition", top[Op], base[Op])
    BY <1>2, Names, Goes DEF IInv, At, SameCall
  <2>2. /\ pc[Op] = "i_replace"
        /\ ~controller
        /\ controller' = TRUE /\ tasks' = {} /\ paused' = FALSE
        /\ broken' \in {broken, broken \cup {"freed_controller"}}
    BY <1>2 DEF At, IInv, DropController
  <2>3. Site(Op)
    BY Sites, Names DEF IInv
  <2>4. DataInv'
    BY <1>2, <2>1, <2>2, <2>3, Names, Disciplines DEF IInv, PlaceInv, ApartInv, DataInv, States
  <2>5. PlaceInv'
    BY <1>2, <2>1, <2>2, Names DEF IInv, PlaceInv, LoopInv, TeardownInv, Owns, StrayInv, FlagInv,
           ExecInv
  <2>6. ModeInv' /\ StateInv'
    BY <1>2, <2>1, <2>2, Names DEF IInv, ModeInv, Starting, EStopping, Does, StateInv, Is, Laying,
           Clearing
  <2>7. Apart => ApartInv'
    <3>1. Apart => FatalInv'
      BY <1>2, <2>1, <2>2 DEF IInv, ApartInv, FatalInv, EStopping, Apart
    <3>2. Apart => QuietInv'
      BY <1>2, <2>1, <2>2, Names, Outside DEF IInv, PlaceInv, ApartInv, QuietInv, LoopInv,
             StrayInv, Destroying, JoinedInv, EStopping, Apart, InInit, Laying, MonitorJoined,
             BusJoined
    <3>3. Apart => JoinedInv'
      BY <1>2, <2>1, <2>2 DEF IInv, ApartInv, JoinedInv
    <3>4. Apart => LatchInv'
      BY <1>2, <2>1 DEF IInv, ApartInv, LatchInv, Apart
    <3> QED
      BY <3>1, <3>2, <3>3, <3>4 DEF ApartInv
  <2>8. Haltable => HaltInv'
    BY <1>2, <2>1, <2>2, Names DEF IInv, HaltInv, Haltable, Halted, MonitorHarmless, HaltsNext,
           Pending, Starting
  <2>9. Lively => AliveInv'
    BY <1>2, <2>1 DEF IInv, AliveInv, Awake, Lively
  <2>10. Orderly => broken' = {} /\ UseInv'
    <3>1. Orderly => InController \ {Op} = {}
      BY <2>2, Alone, Disciplines DEF InController, IInv, ModeInv, Orderly, Does
    <3>2. Orderly => broken' = {}
      BY <1>2, <3>1 DEF DropController
    <3> QED
      BY <1>2, <2>1, <2>2, <2>3, Names, <3>2 DEF IInv, UseInv, ResetDeep
  <2> QED
    BY <2>1, <2>4, <2>5, <2>6, <2>7, <2>8, <2>9, <2>10, EnvStays DEF IInv
<1> QED
  BY <1>1, <1>2 DEF InitializeComponents, fsm, threads, local

\* The transition to INITIALIZING.
LEMMA KeptByBeginInitialization ==
  ASSUME IInv, Stays, BeginInitialization
  PROVE  IInv'
<1>1. ASSUME At(Op, "i_transition"), ValidTransition(state, "INITIALIZING"), state' = "INITIALIZING", Goto(Op, "i_config"),
           UNCHANGED <<latch, teardown, flag, loop, controller, tasks, paused, units, attempts,
                       failing, exec, broken>>
    PROVE  IInv'
  <2>1. ControlInv' /\ Moved(Op, "i_config", top[Op], base[Op])
    BY <1>1, Names, Goes DEF IInv, At, SameCall
  <2>2. /\ pc[Op] = "i_transition"
        /\ state' = "INITIALIZING" /\ state \in {"ERROR", "UNINITIALIZED"}
    BY <1>1 DEF At, IInv, ValidTransition, LegalTransitions
  <2>3. Site(Op)
    BY Sites, Names DEF IInv
  <2>4. DataInv'
    BY <1>1, <2>1 DEF IInv, DataInv, States
  <2>5. PlaceInv'
    BY <1>1, <2>1, <2>2, Names DEF IInv, PlaceInv, LoopInv, TeardownInv, Owns, StrayInv, FlagInv,
           ExecInv
  <2>6. ModeInv' /\ StateInv'
    BY <1>1, <2>1, <2>2, <2>3, Names DEF IInv, ModeInv, Starting, EStopping, Does, StateInv, Is,
           Clearing
  <2>7. Apart => ApartInv'
    BY <1>1, <2>1, <2>2, Names DEF IInv, ApartInv, FatalInv, QuietInv, JoinedInv, LatchInv,
           EStopping, Apart, InReset, InInit, InitDeep, MonitorJoined, BusJoined
  <2>8. Haltable => HaltInv'
    BY <1>1, <2>1, <2>2, Names DEF IInv, HaltInv, Haltable, Halted, MonitorHarmless, HaltsNext,
           Starting
  <2>9. Lively => AliveInv'
    BY <1>1, <2>1 DEF IInv, AliveInv, Awake, Lively
  <2>10. Orderly => broken' = {} /\ UseInv'
    BY <1>1, <2>1, <2>2, <2>3, Names DEF IInv, UseInv, Orderly, Dead, MonitorRestarts, ResetDeep
  <2> QED
    BY <2>1, <2>4, <2>5, <2>6, <2>7, <2>8, <2>9, <2>10, EnvStays DEF IInv
<1>2. ASSUME At(Op, "i_transition"), ~ValidTransition(state, "INITIALIZING"), Goto(Op, "idle"),
           UNCHANGED <<state, latch, teardown, flag, loop, controller, tasks, paused, units,
                       attempts, failing, exec, broken>>
    PROVE  IInv'
  <2>1. ControlInv' /\ Moved(Op, "idle", top[Op], base[Op])
    BY <1>2, Names, Goes DEF IInv, At, SameCall
  <2>2. /\ pc[Op] = "i_transition"
        /\ state \notin {"ERROR", "UNINITIALIZED"}
    BY <1>2 DEF At, IInv, ValidTransition, LegalTransitions
  <2>4. DataInv'
    BY <1>2, <2>1 DEF IInv, DataInv, States
  <2>5. PlaceInv'
    BY <1>2, <2>1, <2>2, Names DEF IInv, PlaceInv, LoopInv, TeardownInv, Owns, StrayInv, FlagInv,
           ExecInv
  <2>6. ModeInv' /\ StateInv'
    BY <1>2, <2>1, <2>2, Names DEF IInv, ModeInv, Starting, EStopping, Does, StateInv, Is, Laying,
           Clearing
  <2>7. Apart => ApartInv'
    BY <1>2, <2>1, <2>2, Names DEF IInv, ApartInv, FatalInv, QuietInv, JoinedInv, LatchInv,
           EStopping, StateInv, Apart, InInit, Laying, InitDeep, MonitorJoined, BusJoined
  <2>8. Haltable => HaltInv'
    BY <1>2, <2>1, <2>2, Names DEF IInv, ApartInv, HaltInv, Haltable, Halted, MonitorHarmless,
           HaltsNext, Pending, Starting
  <2>9. Lively => AliveInv'
    BY <1>2, <2>1, <2>2 DEF IInv, AliveInv, Awake, Lively
  <2>10. Orderly => broken' = {} /\ UseInv'
    BY <1>2, <2>1, <2>2, Names DEF IInv, UseInv, Orderly, Dead, MonitorHarmless, MonitorRestarts,
           ResetDeep
  <2> QED
    BY <2>1, <2>4, <2>5, <2>6, <2>7, <2>8, <2>9, <2>10, EnvStays DEF IInv
<1> QED
  BY <1>1, <1>2 DEF BeginInitialization, Transition, threads, timing, local

\* The configuration loads, or not.
LEMMA KeptByLoadConfiguration ==
  ASSUME IInv, Stays, LoadConfiguration
  PROVE  IInv'
<1>1. ASSUME At(Op, "i_config"), Goto(Op, "i_layout"),
           UNCHANGED <<state, latch, teardown, flag, loop, controller, tasks, paused, units,
                       attempts, failing, exec, broken>>
    PROVE  IInv'
  <2>1. ControlInv' /\ Moved(Op, "i_layout", top[Op], base[Op])
    BY <1>1, Names, Goes DEF IInv, At, SameCall
  <2>2. /\ pc[Op] = "i_config"
    BY <1>1 DEF At, IInv
  <2>3. Site(Op)
    BY Sites, Names DEF IInv
  <2>4. DataInv'
    BY <1>1, <2>1 DEF IInv, DataInv, States
  <2>5. PlaceInv'
    BY <1>1, <2>1, <2>2, <2>3, Names DEF IInv, PlaceInv, LoopInv, TeardownInv, Owns, StrayInv,
           Laying, FlagInv, ExecInv
  <2>6. ModeInv' /\ StateInv'
    BY <1>1, <2>1, <2>2, Names DEF IInv, ModeInv, Starting, EStopping, Does, StateInv, Is, Laying,
           Clearing
  <2>7. Apart => ApartInv'
    BY <1>1, <2>1, <2>2, Names DEF IInv, ApartInv, FatalInv, QuietInv, JoinedInv, LatchInv,
           EStopping, Apart, InInit, Laying, InitDeep, MonitorJoined, BusJoined
  <2>8. Haltable => HaltInv'
    BY <1>1, <2>1, <2>2, Names DEF IInv, ApartInv, HaltInv, Haltable, Halted, MonitorHarmless,
           HaltsNext, Pending, Starting
  <2>9. Lively => AliveInv'
    BY <1>1, <2>1, Names DEF IInv, AliveInv, Awake, MonitorRestarts, Lively
  <2>10. Orderly => broken' = {} /\ UseInv'
    BY <1>1, <2>1, <2>2, Names DEF IInv, UseInv, Orderly, Dead, MonitorHarmless, MonitorRestarts,
           ResetDeep
  <2> QED
    BY <2>1, <2>4, <2>5, <2>6, <2>7, <2>8, <2>9, <2>10, EnvStays DEF IInv
<1>2. ASSUME At(Op, "i_config"), Goto(Op, "idle"),
           UNCHANGED <<state, latch, teardown, flag, loop, controller, tasks, paused, units,
                       attempts, failing, exec, broken>>
    PROVE  IInv'
  <2>1. ControlInv' /\ Moved(Op, "idle", top[Op], base[Op])
    BY <1>2, Names, Goes DEF IInv, At, SameCall
  <2>2. /\ pc[Op] = "i_config"
    BY <1>2 DEF At, IInv
  <2>4. DataInv'
    BY <1>2, <2>1 DEF IInv, DataInv, States
  <2>5. PlaceInv'
    BY <1>2, <2>1, <2>2, Names DEF IInv, PlaceInv, LoopInv, TeardownInv, Owns, StrayInv, Laying,
           FlagInv, ExecInv
  <2>6. ModeInv' /\ StateInv'
    BY <1>2, <2>1, <2>2, Names DEF IInv, ModeInv, Starting, EStopping, Does, StateInv, Is, Laying,
           Clearing
  <2>7. Apart => ApartInv'
    BY <1>2, <2>1, <2>2, Names DEF IInv, ApartInv, FatalInv, QuietInv, JoinedInv, LatchInv,
           EStopping, Apart, InInit, Laying, InitDeep, MonitorJoined, BusJoined
  <2>8. Haltable => HaltInv'
    BY <1>2, <2>1, <2>2, Names DEF IInv, ApartInv, HaltInv, Haltable, Halted, MonitorHarmless,
           HaltsNext, Pending, Starting
  <2>9. Lively => AliveInv'
    BY <1>2, <2>1, Names DEF IInv, AliveInv, Awake, MonitorRestarts, Lively
  <2>10. Orderly => broken' = {} /\ UseInv'
    BY <1>2, <2>1, <2>2, Names DEF IInv, UseInv, Orderly, Dead, MonitorHarmless, MonitorRestarts,
           ResetDeep
  <2> QED
    BY <2>1, <2>4, <2>5, <2>6, <2>7, <2>8, <2>9, <2>10, EnvStays DEF IInv
<1> QED
  BY <1>1, <1>2 DEF LoadConfiguration, fsm, threads, timing, local

\* User code registers the first units.
LEMMA KeptByInitializeBlocksLayout ==
  ASSUME IInv, Stays, InitializeBlocksLayout
  PROVE  IInv'
<1>1. ASSUME At(Op, "i_layout"), NEW added \in SUBSET (Units \ units), units' = units \cup added,
           NEW next \in {"i_clear", "i_error", "i_throw"}, Goto(Op, next),
           UNCHANGED <<state, latch, teardown, flag, loop, controller, tasks, paused, attempts,
                       failing, exec, broken>>
    PROVE  IInv'
  <2>1. ControlInv' /\ Moved(Op, next, top[Op], base[Op])
    BY <1>1, Names, Goes DEF IInv, At, SameCall
  <2>2. /\ pc[Op] = "i_layout"
        /\ next \in {"i_clear", "i_error", "i_throw"}
        /\ units \subseteq units' /\ units' \subseteq Units
    BY <1>1 DEF At, IInv, DataInv
  <2>3. Site(Op)
    BY Sites, Names DEF IInv
  <2>4. DataInv'
    BY <1>1, <2>1 DEF IInv, DataInv, States
  <2>5. PlaceInv'
    BY <1>1, <2>1, <2>2, Names DEF IInv, PlaceInv, LoopInv, TeardownInv, Owns, StrayInv, Laying,
           FlagInv, ExecInv
  <2>6. ModeInv' /\ StateInv'
    BY <1>1, <2>1, <2>2, Names DEF IInv, ModeInv, Starting, EStopping, Does, StateInv, Is, Laying,
           Clearing
  <2>7. Apart => ApartInv'
    <3>1. Apart => FatalInv'
      BY <1>1, <2>1, <2>2 DEF IInv, ApartInv, FatalInv, EStopping, Apart
    <3>2. Apart => QuietInv'
      BY <1>1, <2>1, <2>2, Names DEF IInv, ApartInv, QuietInv, EStopping, Apart, Does, InInit,
             Laying, InitDeep, MonitorJoined, BusJoined
    <3>3. Apart => JoinedInv'
      BY <1>1, <2>1, <2>2 DEF IInv, ApartInv, JoinedInv
    <3>4. Apart => LatchInv'
      BY <1>1, <2>1 DEF IInv, ApartInv, LatchInv, Apart
    <3> QED
      BY <3>1, <3>2, <3>3, <3>4 DEF ApartInv
  <2>8. Haltable => HaltInv'
    BY <1>1, <2>1, <2>2, Names DEF IInv, HaltInv, Haltable, Halted, MonitorHarmless, HaltsNext,
           Pending, Starting
  <2>9. Lively => AliveInv'
    BY <1>1, <2>1, <2>2 DEF IInv, AliveInv, Awake, Laying, Lively, StateInv, Is
  <2>10. Orderly => broken' = {} /\ UseInv'
    BY <1>1, <2>1, <2>2, <2>3, Names DEF IInv, PlaceInv, ApartInv, UseInv, Orderly, Does, Dead,
           MonitorHarmless, MonitorRestarts, Laying, ResetDeep, Clearing, QuietInv, StrayInv
  <2> QED
    BY <2>1, <2>4, <2>5, <2>6, <2>7, <2>8, <2>9, <2>10, EnvStays DEF IInv
<1> QED
  BY <1>1 DEF InitializeBlocksLayout, fsm, threads, timing, local

\* A failed initialization.
LEMMA KeptByFailInitialization ==
  ASSUME IInv, Stays, FailInitialization
  PROVE  IInv'
<1>1. ASSUME At(Op, "i_error"), ValidTransition(state, "ERROR"), state' = "ERROR", Goto(Op, "i_cleanup"),
           UNCHANGED <<latch, teardown, flag, loop, controller, tasks, paused, units, attempts,
                       failing, exec, broken>>
    PROVE  IInv'
  <2>1. ControlInv' /\ Moved(Op, "i_cleanup", top[Op], base[Op])
    BY <1>1, Names, Goes DEF IInv, At, SameCall
  <2>2. /\ pc[Op] = "i_error"
        /\ state' = "ERROR" /\ state \in {"ERROR", "INITIALIZING", "PAUSED", "PAUSING", "RESUMING", "RUNNING", "STARTING"}
    BY <1>1 DEF At, IInv, ValidTransition, LegalTransitions
  <2>3. Site(Op)
    BY Sites, Names DEF IInv
  <2>4. DataInv'
    BY <1>1, <2>1 DEF IInv, DataInv, States
  <2>5. PlaceInv'
    BY <1>1, <2>1, <2>2, Names DEF IInv, PlaceInv, LoopInv, TeardownInv, Owns, StrayInv, Laying,
           FlagInv, ExecInv
  <2>6. ModeInv' /\ StateInv'
    BY <1>1, <2>1, <2>2, <2>3, Names DEF IInv, ModeInv, Starting, EStopping, Does, StateInv, Is,
           Laying, Clearing
  <2>7. Apart => ApartInv'
    BY <1>1, <2>1, <2>2, Names DEF IInv, ApartInv, FatalInv, QuietInv, JoinedInv, LatchInv,
           EStopping, StateInv, Apart, InInit, Laying, InitDeep, MonitorJoined, BusJoined
  <2>8. Haltable => HaltInv'
    BY <1>1, <2>1, <2>2, Names DEF IInv, HaltInv, Haltable, Halted, MonitorHarmless, HaltsNext,
           Starting
  <2>9. Lively => AliveInv'
    BY <1>1, <2>1 DEF IInv, AliveInv, Awake, Lively
  <2>10. Orderly => broken' = {} /\ UseInv'
    BY <1>1, <2>1, <2>2, <2>3, Names DEF IInv, UseInv, Orderly, Dead, MonitorRestarts, ResetDeep
  <2> QED
    BY <2>1, <2>4, <2>5, <2>6, <2>7, <2>8, <2>9, <2>10, EnvStays DEF IInv
<1>2. ASSUME At(Op, "i_error"), ~ValidTransition(state, "ERROR"), Goto(Op, "i_cleanup"),
           UNCHANGED <<state, latch, teardown, flag, loop, controller, tasks, paused, units,
                       attempts, failing, exec, broken>>
    PROVE  IInv'
  <2>1. ControlInv' /\ Moved(Op, "i_cleanup", top[Op], base[Op])
    BY <1>2, Names, Goes DEF IInv, At, SameCall
  <2>2. /\ pc[Op] = "i_error"
        /\ state \notin {"ERROR", "INITIALIZING", "PAUSED", "PAUSING", "RESUMING", "RUNNING", "STARTING"}
    BY <1>2 DEF At, IInv, ValidTransition, LegalTransitions
  <2>4. DataInv'
    BY <1>2, <2>1 DEF IInv, DataInv, States
  <2>5. PlaceInv'
    BY <1>2, <2>1, <2>2, Names DEF IInv, PlaceInv, LoopInv, TeardownInv, Owns, StrayInv, Laying,
           FlagInv, ExecInv
  <2>6. ModeInv' /\ StateInv'
    BY <1>2, <2>1, <2>2, Names DEF IInv, ModeInv, Starting, EStopping, Does, StateInv, Is, Laying
  <2>7. Apart => ApartInv'
    BY <1>2, <2>1, <2>2 DEF IInv, ApartInv, FatalInv, QuietInv, JoinedInv, LatchInv, Apart, Laying
  <2>8. Haltable => HaltInv'
    BY <1>2, <2>1, <2>2, Names DEF IInv, HaltInv, Haltable, Halted, MonitorHarmless, HaltsNext,
           Pending, Starting
  <2>9. Lively => AliveInv'
    BY <1>2, <2>1, <2>2 DEF IInv, AliveInv, Awake, Lively
  <2>10. Orderly => broken' = {} /\ UseInv'
    BY <1>2, <2>1, <2>2, Names DEF IInv, UseInv, Orderly, Dead, MonitorHarmless, MonitorRestarts,
           ResetDeep
  <2> QED
    BY <2>1, <2>4, <2>5, <2>6, <2>7, <2>8, <2>9, <2>10, EnvStays DEF IInv
<1>3. ASSUME At(Op, "i_throw_error"), ValidTransition(state, "ERROR"), state' = "ERROR", Goto(Op, "idle"),
           UNCHANGED <<latch, teardown, flag, loop, controller, tasks, paused, units, attempts,
                       failing, exec, broken>>
    PROVE  IInv'
  <2>1. ControlInv' /\ Moved(Op, "idle", top[Op], base[Op])
    BY <1>3, Names, Goes DEF IInv, At, SameCall
  <2>2. /\ pc[Op] = "i_throw_error"
        /\ state' = "ERROR" /\ state \in {"ERROR", "INITIALIZING", "PAUSED", "PAUSING", "RESUMING", "RUNNING", "STARTING"}
    BY <1>3 DEF At, IInv, ValidTransition, LegalTransitions
  <2>3. Site(Op)
    BY Sites, Names DEF IInv
  <2>4. DataInv'
    BY <1>3, <2>1 DEF IInv, DataInv, States
  <2>5. PlaceInv'
    BY <1>3, <2>1, <2>2, Names DEF IInv, PlaceInv, LoopInv, TeardownInv, Owns, StrayInv,
           Destroying, Laying, FlagInv, ExecInv
  <2>6. ModeInv' /\ StateInv'
    BY <1>3, <2>1, <2>2, <2>3, Names DEF IInv, ModeInv, Starting, EStopping, Does, StateInv, Is,
           Laying, Clearing
  <2>7. Apart => ApartInv'
    BY <1>3, <2>1, <2>2, Names DEF IInv, ApartInv, FatalInv, QuietInv, JoinedInv, LatchInv,
           EStopping, Apart, InInit, Laying, InitDeep, MonitorJoined, BusJoined
  <2>8. Haltable => HaltInv'
    BY <1>3, <2>1, <2>2, Names DEF IInv, HaltInv, Haltable, Halted, MonitorHarmless, HaltsNext,
           Starting
  <2>9. Lively => AliveInv'
    BY <1>3, <2>1 DEF IInv, AliveInv, Awake, Lively
  <2>10. Orderly => broken' = {} /\ UseInv'
    BY <1>3, <2>1, <2>2, <2>3, Names DEF IInv, UseInv, Orderly, Dead, MonitorRestarts, ResetDeep
  <2> QED
    BY <2>1, <2>4, <2>5, <2>6, <2>7, <2>8, <2>9, <2>10, EnvStays DEF IInv
<1>4. ASSUME At(Op, "i_throw_error"), ~ValidTransition(state, "ERROR"), Goto(Op, "idle"),
           UNCHANGED <<state, latch, teardown, flag, loop, controller, tasks, paused, units,
                       attempts, failing, exec, broken>>
    PROVE  IInv'
  <2>1. ControlInv' /\ Moved(Op, "idle", top[Op], base[Op])
    BY <1>4, Names, Goes DEF IInv, At, SameCall
  <2>2. /\ pc[Op] = "i_throw_error"
        /\ state \notin {"ERROR", "INITIALIZING", "PAUSED", "PAUSING", "RESUMING", "RUNNING", "STARTING"}
    BY <1>4 DEF At, IInv, ValidTransition, LegalTransitions
  <2>4. DataInv'
    BY <1>4, <2>1 DEF IInv, DataInv, States
  <2>5. PlaceInv'
    BY <1>4, <2>1, <2>2, Names DEF IInv, PlaceInv, LoopInv, TeardownInv, Owns, StrayInv,
           Destroying, Laying, FlagInv, ExecInv
  <2>6. ModeInv' /\ StateInv'
    BY <1>4, <2>1, <2>2, Names DEF IInv, ModeInv, Starting, EStopping, Does, StateInv, Is
  <2>7. Apart => ApartInv'
    BY <1>4, <2>1, <2>2, Names DEF IInv, ApartInv, FatalInv, QuietInv, JoinedInv, LatchInv,
           EStopping, StateInv, Apart, InInit, Laying, InitDeep, MonitorJoined, BusJoined
  <2>8. Haltable => HaltInv'
    BY <1>4, <2>1, <2>2, Names DEF IInv, ApartInv, HaltInv, Haltable, Halted, MonitorHarmless,
           HaltsNext, Pending, Starting
  <2>9. Lively => AliveInv'
    BY <1>4, <2>1, <2>2 DEF IInv, AliveInv, Awake, Lively
  <2>10. Orderly => broken' = {} /\ UseInv'
    BY <1>4, <2>1, <2>2, Names DEF IInv, UseInv, Orderly, Dead, MonitorHarmless, MonitorRestarts,
           ResetDeep
  <2> QED
    BY <2>1, <2>4, <2>5, <2>6, <2>7, <2>8, <2>9, <2>10, EnvStays DEF IInv
<1>5. ASSUME At(Op, "i_cleanup"), Call(Op, "d_drop", "i_return"),
           UNCHANGED <<state, latch, teardown, flag, loop, controller, tasks, paused, units,
                       attempts, failing, exec, broken>>
    PROVE  IInv'
  <2>1. ControlInv' /\ Moved(Op, "d_drop", "i_return", "i_return")
    BY <1>5, Names, Backs, Enters DEF IInv, At
  <2>2. /\ pc[Op] = "i_cleanup"
    BY <1>5 DEF At, IInv
  <2>3. Site(Op)
    BY Sites, Names DEF IInv
  <2>4. DataInv'
    BY <1>5, <2>1 DEF IInv, DataInv, States
  <2>5. PlaceInv'
    BY <1>5, <2>1, <2>2, <2>3, Names DEF IInv, PlaceInv, LoopInv, TeardownInv, Owns, StrayInv,
           Destroying, Laying, FlagInv, ExecInv
  <2>6. ModeInv' /\ StateInv'
    BY <1>5, <2>1, <2>2, Names DEF IInv, ModeInv, Starting, EStopping, Does, StateInv, Is, Laying,
           Clearing
  <2>7. Apart => ApartInv'
    BY <1>5, <2>1, <2>2, Names DEF IInv, PlaceInv, ApartInv, FatalInv, QuietInv, JoinedInv,
           LatchInv, EStopping, Apart, InInit, Laying, InitDeep, MonitorJoined, BusJoined
  <2>8. Haltable => HaltInv'
    BY <1>5, <2>1, <2>2, <2>3, Names DEF IInv, ApartInv, HaltInv, Haltable, Halted,
           MonitorHarmless, HaltsNext, Pending, Starting
  <2>9. Lively => AliveInv'
    BY <1>5, <2>1, Names DEF IInv, AliveInv, Awake, MonitorRestarts, Lively
  <2>10. Orderly => broken' = {} /\ UseInv'
    BY <1>5, <2>1, <2>2, <2>3, Names DEF IInv, UseInv, Orderly, Dead, MonitorHarmless,
           MonitorRestarts, ResetDeep
  <2> QED
    BY <2>1, <2>4, <2>5, <2>6, <2>7, <2>8, <2>9, <2>10, EnvStays DEF IInv
<1>6. ASSUME At(Op, "i_throw"), Call(Op, "d_drop", "i_throw_error"),
           UNCHANGED <<state, latch, teardown, flag, loop, controller, tasks, paused, units,
                       attempts, failing, exec, broken>>
    PROVE  IInv'
  <2>1. ControlInv' /\ Moved(Op, "d_drop", "i_throw_error", "i_throw_error")
    BY <1>6, Names, Backs, Enters DEF IInv, At
  <2>2. /\ pc[Op] = "i_throw"
    BY <1>6 DEF At, IInv
  <2>3. Site(Op)
    BY Sites, Names DEF IInv
  <2>4. DataInv'
    BY <1>6, <2>1 DEF IInv, DataInv, States
  <2>5. PlaceInv'
    BY <1>6, <2>1, <2>2, <2>3, Names DEF IInv, PlaceInv, LoopInv, TeardownInv, Owns, StrayInv,
           Laying, FlagInv, ExecInv
  <2>6. ModeInv' /\ StateInv'
    BY <1>6, <2>1, <2>2, Names DEF IInv, ModeInv, Starting, EStopping, Does, StateInv, Is, Laying,
           Clearing
  <2>7. Apart => ApartInv'
    BY <1>6, <2>1, <2>2, Names DEF IInv, ApartInv, FatalInv, QuietInv, JoinedInv, LatchInv,
           EStopping, Apart, InInit, Laying, InitDeep, MonitorJoined, BusJoined
  <2>8. Haltable => HaltInv'
    BY <1>6, <2>1, <2>2, <2>3, Names DEF IInv, ApartInv, HaltInv, Haltable, Halted,
           MonitorHarmless, HaltsNext, Pending, Starting
  <2>9. Lively => AliveInv'
    BY <1>6, <2>1, Names DEF IInv, AliveInv, Awake, MonitorRestarts, Lively
  <2>10. Orderly => broken' = {} /\ UseInv'
    BY <1>6, <2>1, <2>2, <2>3, Names DEF IInv, UseInv, Orderly, Dead, MonitorHarmless,
           MonitorRestarts, ResetDeep
  <2> QED
    BY <2>1, <2>4, <2>5, <2>6, <2>7, <2>8, <2>9, <2>10, EnvStays DEF IInv
<1> QED
  BY <1>1, <1>2, <1>3, <1>4, <1>5, <1>6 DEF FailInitialization, Transition, threads, timing, local

\* initialize() lowers the latch and starts the monitor and the event bus.
LEMMA KeptByStartLoops ==
  ASSUME IInv, Stays, StartLoops
  PROVE  IInv'
<1>1. ASSUME At(Op, "i_clear"), latch' = FALSE, Goto(Op, "i_start_monitor"),
           UNCHANGED <<state, teardown, flag, loop, controller, tasks, paused, units, attempts,
                       failing, exec, broken>>
    PROVE  IInv'
  <2>1. ControlInv' /\ Moved(Op, "i_start_monitor", top[Op], base[Op])
    BY <1>1, Names, Goes DEF IInv, At, SameCall
  <2>2. /\ pc[Op] = "i_clear"
        /\ latch' = FALSE
    BY <1>1 DEF At, IInv
  <2>3. Site(Op)
    BY Sites, Names DEF IInv
  <2>4. DataInv'
    BY <1>1, <2>1, <2>2, <2>3, Names, Disciplines DEF IInv, PlaceInv, ApartInv, DataInv, States
  <2>5. PlaceInv'
    BY <1>1, <2>1, <2>2, Names DEF IInv, PlaceInv, LoopInv, TeardownInv, Owns, StrayInv, Laying,
           FlagInv, ExecInv
  <2>6. ModeInv' /\ StateInv'
    BY <1>1, <2>1, <2>2, Names DEF IInv, ModeInv, Starting, EStopping, Does, StateInv, Is, Laying,
           Clearing
  <2>7. Apart => ApartInv'
    <3>1. Apart => FatalInv'
      BY <1>1, <2>1, <2>2 DEF IInv, ApartInv, FatalInv, EStopping, Apart
    <3>2. Apart => QuietInv'
      BY <1>1, <2>1, <2>2, <2>3, Names DEF IInv, ApartInv, QuietInv, EStopping, Apart, InInit,
             Laying, InitDeep, MonitorJoined, BusJoined
    <3>3. Apart => JoinedInv'
      BY <1>1, <2>1, <2>2 DEF IInv, ApartInv, JoinedInv
    <3>4. Apart => LatchInv'
      BY <1>1, <2>1, <2>2, <2>3, Outside DEF IInv, ApartInv, LatchInv, QuietInv, InitDeep,
             EStopping, Apart
    <3> QED
      BY <3>1, <3>2, <3>3, <3>4 DEF ApartInv
  <2>8. Haltable => HaltInv'
    BY <1>1, <2>1, <2>2, Names DEF IInv, HaltInv, Haltable, Halted, MonitorHarmless, HaltsNext,
           Pending, Starting
  <2>9. Lively => AliveInv'
    BY <1>1, <2>1, Names DEF IInv, AliveInv, Awake, MonitorRestarts, Lively
  <2>10. Orderly => broken' = {} /\ UseInv'
    BY <1>1, <2>1, <2>2, Names DEF IInv, UseInv, Orderly, Dead, MonitorHarmless, MonitorRestarts,
           ResetDeep
  <2> QED
    BY <2>1, <2>4, <2>5, <2>6, <2>7, <2>8, <2>9, <2>10, EnvStays DEF IInv
<1>2. ASSUME At(Op, "i_start_monitor"), StartWorker("monitor"), Goto(Op, "i_start_bus"),
           UNCHANGED <<state, latch, teardown, controller, tasks, paused, units, attempts,
                       failing, exec, broken>>
    PROVE  IInv'
  <2>1. ControlInv' /\ Moved(Op, "i_start_bus", top[Op], base[Op])
    BY <1>2, Names, Goes DEF IInv, At, SameCall
  <2>2. /\ pc[Op] = "i_start_monitor"
        /\ loop["monitor"] # "running" /\ loop'["monitor"] = "running" /\ flag'["monitor"]
        /\ loop'["bus"] = loop["bus"] /\ flag'["bus"] = flag["bus"]
        /\ loop'["scheduler"] = loop["scheduler"] /\ flag'["scheduler"] = flag["scheduler"]
        /\ flag' \in [Workers -> BOOLEAN]
        /\ loop' \in [Workers -> {"none", "running", "ended"}]
    BY <1>2, Names DEF At, IInv, DataInv, StartWorker
  <2>3. Site(Op)
    BY Sites, Names DEF IInv
  <2>4. DataInv'
    BY <1>2, <2>1, <2>2 DEF IInv, DataInv, States
  <2>5. PlaceInv'
    BY <1>2, <2>1, <2>2, Names DEF IInv, PlaceInv, LoopInv, TeardownInv, Owns, StrayInv, Laying,
           FlagInv, ExecInv
  <2>6. ModeInv' /\ StateInv'
    BY <1>2, <2>1, <2>2, Names DEF IInv, ModeInv, Starting, EStopping, Does, StateInv, Is, Laying,
           Clearing
  <2>7. Apart => ApartInv'
    BY <1>2, <2>1, <2>2, <2>3, Names DEF IInv, ApartInv, FatalInv, QuietInv, JoinedInv, LatchInv,
           EStopping, Apart, InInit, Laying, InitDeep, MonitorJoined, BusJoined
  <2>8. Haltable => HaltInv'
    BY <1>2, <2>1, <2>2, <2>3, Outside DEF IInv, PlaceInv, ApartInv, HaltInv, Haltable, Halted,
           MonitorHarmless, HaltsNext, QuietInv, Laying, InitDeep, EStopping, TeardownInv, Owns
  <2>9. Lively => AliveInv'
    BY <1>2, <2>1, <2>2, Names DEF IInv, AliveInv, Awake, MonitorRestarts, Lively
  <2>10. Orderly => broken' = {} /\ UseInv'
    BY <1>2, <2>1, <2>2, <2>3, Names, Disciplines DEF IInv, ApartInv, UseInv, Orderly, Dead,
           MonitorRestarts, Laying, ResetDeep, QuietInv
  <2> QED
    BY <2>1, <2>4, <2>5, <2>6, <2>7, <2>8, <2>9, <2>10, EnvStays DEF IInv
<1>3. ASSUME At(Op, "i_start_bus"), StartWorker("bus"), Goto(Op, "i_done"),
           UNCHANGED <<state, latch, teardown, controller, tasks, paused, units, attempts,
                       failing, exec, broken>>
    PROVE  IInv'
  <2>1. ControlInv' /\ Moved(Op, "i_done", top[Op], base[Op])
    BY <1>3, Names, Goes DEF IInv, At, SameCall
  <2>2. /\ pc[Op] = "i_start_bus"
        /\ loop["bus"] # "running" /\ loop'["bus"] = "running" /\ flag'["bus"]
        /\ loop'["monitor"] = loop["monitor"] /\ flag'["monitor"] = flag["monitor"]
        /\ loop'["scheduler"] = loop["scheduler"] /\ flag'["scheduler"] = flag["scheduler"]
        /\ flag' \in [Workers -> BOOLEAN]
        /\ loop' \in [Workers -> {"none", "running", "ended"}]
    BY <1>3, Names DEF At, IInv, DataInv, StartWorker
  <2>3. Site(Op)
    BY Sites, Names DEF IInv
  <2>4. DataInv'
    BY <1>3, <2>1, <2>2 DEF IInv, DataInv, States
  <2>5. PlaceInv'
    BY <1>3, <2>1, <2>2, <2>3, Names DEF IInv, PlaceInv, LoopInv, TeardownInv, Owns, StrayInv,
           Laying, FlagInv, ExecInv
  <2>6. ModeInv' /\ StateInv'
    BY <1>3, <2>1, <2>2, Names DEF IInv, ModeInv, Starting, EStopping, Does, StateInv, Is, Laying,
           Clearing
  <2>7. Apart => ApartInv'
    BY <1>3, <2>1, <2>2, <2>3, Names DEF IInv, ApartInv, FatalInv, QuietInv, JoinedInv, LatchInv,
           EStopping, Apart, InInit, Laying, InitDeep, MonitorJoined, BusJoined
  <2>8. Haltable => HaltInv'
    BY <1>3, <2>1, <2>2, Names DEF IInv, ApartInv, HaltInv, Haltable, Halted, MonitorHarmless,
           HaltsNext, Pending, Starting
  <2>9. Lively => AliveInv'
    BY <1>3, <2>1, <2>2 DEF IInv, AliveInv, Awake, Lively
  <2>10. Orderly => broken' = {} /\ UseInv'
    BY <1>3, <2>1, <2>2, <2>3, Names DEF IInv, UseInv, Orderly, Dead, MonitorHarmless,
           MonitorRestarts, ResetDeep
  <2> QED
    BY <2>1, <2>4, <2>5, <2>6, <2>7, <2>8, <2>9, <2>10, EnvStays DEF IInv
<1> QED
  BY <1>1, <1>2, <1>3 DEF StartLoops, fsm, threads, timing, local

\* The transition to INITIALIZED.
LEMMA KeptByFinishInitialization ==
  ASSUME IInv, Stays, FinishInitialization
  PROVE  IInv'
<1>1. ASSUME At(Op, "i_done"), ValidTransition(state, "INITIALIZED"), state' = "INITIALIZED", Goto(Op, "idle"),
           UNCHANGED <<latch, teardown, flag, loop, controller, tasks, paused, units, attempts,
                       failing, exec, broken>>
    PROVE  IInv'
  <2>1. ControlInv' /\ Moved(Op, "idle", top[Op], base[Op])
    BY <1>1, Names, Goes DEF IInv, At, SameCall
  <2>2. /\ pc[Op] = "i_done"
        /\ state' = "INITIALIZED" /\ state \in {"ERROR", "INITIALIZING"}
    BY <1>1 DEF At, IInv, ValidTransition, LegalTransitions
  <2>3. Site(Op)
    BY Sites, Names DEF IInv
  <2>4. DataInv'
    BY <1>1, <2>1 DEF IInv, DataInv, States
  <2>5. PlaceInv'
    BY <1>1, <2>1, <2>2, Names DEF IInv, PlaceInv, LoopInv, TeardownInv, Owns, StrayInv, Laying,
           FlagInv, ExecInv
  <2>6. ModeInv' /\ StateInv'
    BY <1>1, <2>1, <2>2, <2>3, Names DEF IInv, ModeInv, Starting, EStopping, Does, StateInv, Is,
           Laying, Clearing
  <2>7. Apart => ApartInv'
    BY <1>1, <2>1, <2>2, Names DEF IInv, ApartInv, FatalInv, QuietInv, JoinedInv, LatchInv,
           EStopping, Apart, InInit, Laying, InitDeep, MonitorJoined, BusJoined
  <2>8. Haltable => HaltInv'
    BY <1>1, <2>1, <2>2, <2>3, Names DEF IInv, PlaceInv, ApartInv, HaltInv, Haltable, Halted,
           MonitorHarmless, HaltsNext, Pending, Starting, Apart, Does
  <2>9. Lively => AliveInv'
    BY <1>1, <2>1, <2>2, <2>3 DEF IInv, PlaceInv, AliveInv, Awake, Laying, Lively, StrayInv
  <2>10. Orderly => broken' = {} /\ UseInv'
    BY <1>1, <2>1, <2>2, <2>3, Names DEF IInv, PlaceInv, UseInv, Orderly, Dead, Laying, ResetDeep,
           StrayInv
  <2> QED
    BY <2>1, <2>4, <2>5, <2>6, <2>7, <2>8, <2>9, <2>10, EnvStays DEF IInv
<1>2. ASSUME At(Op, "i_done"), ~ValidTransition(state, "INITIALIZED"), Goto(Op, "i_cleanup"),
           UNCHANGED <<state, latch, teardown, flag, loop, controller, tasks, paused, units,
                       attempts, failing, exec, broken>>
    PROVE  IInv'
  <2>1. ControlInv' /\ Moved(Op, "i_cleanup", top[Op], base[Op])
    BY <1>2, Names, Goes DEF IInv, At, SameCall
  <2>2. /\ pc[Op] = "i_done"
        /\ state \notin {"ERROR", "INITIALIZING"}
    BY <1>2 DEF At, IInv, ValidTransition, LegalTransitions
  <2>4. DataInv'
    BY <1>2, <2>1 DEF IInv, DataInv, States
  <2>5. PlaceInv'
    BY <1>2, <2>1, <2>2, Names DEF IInv, PlaceInv, LoopInv, TeardownInv, Owns, StrayInv, Laying,
           FlagInv, ExecInv
  <2>6. ModeInv' /\ StateInv'
    BY <1>2, <2>1, <2>2, Names DEF IInv, ModeInv, Starting, EStopping, Does, StateInv, Is, Laying
  <2>7. Apart => ApartInv'
    <3>1. Apart => FatalInv'
      BY <1>2, <2>1, <2>2 DEF IInv, ApartInv, FatalInv, EStopping, Apart
    <3>2. Apart => QuietInv'
      BY <1>2, <2>1, <2>2 DEF IInv, ApartInv, QuietInv, Apart, Laying, MonitorJoined, BusJoined
    <3>3. Apart => JoinedInv'
      BY <1>2, <2>1, <2>2 DEF IInv, ApartInv, JoinedInv
    <3>4. Apart => LatchInv'
      BY <1>2, <2>1 DEF IInv, ApartInv, LatchInv, Apart
    <3> QED
      BY <3>1, <3>2, <3>3, <3>4 DEF ApartInv
  <2>8. Haltable => HaltInv'
    BY <1>2, <2>1, <2>2, Names DEF IInv, HaltInv, Haltable, Halted, MonitorHarmless, HaltsNext,
           Pending, Starting
  <2>9. Lively => AliveInv'
    BY <1>2, <2>1, Names DEF IInv, AliveInv, Awake, MonitorRestarts, Lively
  <2>10. Orderly => broken' = {} /\ UseInv'
    BY <1>2, <2>1, <2>2, Names DEF IInv, UseInv, Orderly, Dead, MonitorHarmless, MonitorRestarts,
           ResetDeep
  <2> QED
    BY <2>1, <2>4, <2>5, <2>6, <2>7, <2>8, <2>9, <2>10, EnvStays DEF IInv
<1> QED
  BY <1>1, <1>2 DEF FinishInitialization, Transition, threads, timing, local

\* start() starts the scheduler.
LEMMA KeptByStartController ==
  ASSUME IInv, Stays, StartController
  PROVE  IInv'
<1>1. ASSUME At(Op, "b_start"), SchedulerFree(Op), controller, StartWorker("scheduler"),
           paused' = (paused /\ flag["scheduler"]), Goto(Op, "b_units"),
           UNCHANGED <<state, latch, teardown, controller, tasks, units, attempts, failing, exec,
                       broken>>
    PROVE  IInv'
  <2>1. ControlInv' /\ Moved(Op, "b_units", top[Op], base[Op])
    BY <1>1, Names, Goes DEF IInv, At, SameCall
  <2>2. /\ pc[Op] = "b_start"
        /\ controller /\ paused' \in BOOLEAN
        /\ \A u \in Threads \ {Op} : pc[u] # "t_join"
        /\ loop["scheduler"] # "running" /\ loop'["scheduler"] = "running" /\ flag'["scheduler"]
        /\ loop'["bus"] = loop["bus"] /\ flag'["bus"] = flag["bus"]
        /\ loop'["monitor"] = loop["monitor"] /\ flag'["monitor"] = flag["monitor"]
        /\ flag' \in [Workers -> BOOLEAN]
        /\ loop' \in [Workers -> {"none", "running", "ended"}]
    BY <1>1, Names DEF At, IInv, DataInv, StartWorker, SchedulerFree
  <2>3. Site(Op)
    BY Sites, Names DEF IInv
  <2>4. DataInv'
    BY <1>1, <2>1, <2>2 DEF IInv, DataInv, States
  <2>5. PlaceInv'
    BY <1>1, <2>1, <2>2, Names DEF IInv, PlaceInv, LoopInv, TeardownInv, Owns, StrayInv, FlagInv,
           ExecInv
  <2>6. ModeInv' /\ StateInv'
    BY <1>1, <2>1, <2>2, Names DEF IInv, ModeInv, Starting, EStopping, Does, StateInv, Is, Laying,
           Clearing
  <2>7. Apart => ApartInv'
    BY <1>1, <2>1, <2>2, <2>3 DEF IInv, ApartInv, FatalInv, QuietInv, JoinedInv, LatchInv,
           EStopping, Apart, InReset, InInit, Laying, ResetDeep, InitDeep, MonitorJoined,
           BusJoined
  <2>8. Haltable => HaltInv'
    BY <1>1, <2>1, <2>2 DEF IInv, HaltInv, Haltable, Halted, MonitorHarmless, HaltsNext, Pending,
           Starting
  <2>9. Lively => AliveInv'
    BY <1>1, <2>1, <2>2 DEF IInv, AliveInv, Awake, Lively, StateInv, Is
  <2>10. Orderly => broken' = {} /\ UseInv'
    BY <1>1, <2>1, <2>2, <2>3, Names DEF IInv, UseInv, Orderly, Does, Dead, ResetDeep, ModeInv
  <2> QED
    BY <2>1, <2>4, <2>5, <2>6, <2>7, <2>8, <2>9, <2>10, EnvStays DEF IInv
<1>2. ASSUME At(Op, "b_start"), controller, flag["scheduler"], paused' = (paused /\ flag["scheduler"]), Goto(Op, "b_units"),
           UNCHANGED <<state, latch, teardown, flag, loop, controller, tasks, units, attempts,
                       failing, exec, broken>>
    PROVE  IInv'
  <2>1. ControlInv' /\ Moved(Op, "b_units", top[Op], base[Op])
    BY <1>2, Names, Goes DEF IInv, At, SameCall
  <2>2. /\ pc[Op] = "b_start"
        /\ controller /\ flag["scheduler"] /\ paused' \in BOOLEAN
    BY <1>2 DEF At, IInv
  <2>3. Site(Op)
    BY Sites, Names DEF IInv
  <2>4. DataInv'
    BY <1>2, <2>1 DEF IInv, DataInv, States
  <2>5. PlaceInv'
    BY <1>2, <2>1, <2>2, <2>3, Names DEF IInv, PlaceInv, LoopInv, TeardownInv, Owns, StrayInv,
           FlagInv, ExecInv
  <2>6. ModeInv' /\ StateInv'
    BY <1>2, <2>1, <2>2, Names DEF IInv, ModeInv, Starting, EStopping, Does, StateInv, Is, Laying,
           Clearing
  <2>7. Apart => ApartInv'
    BY <1>2, <2>1, <2>2, <2>3 DEF IInv, ApartInv, FatalInv, QuietInv, JoinedInv, LatchInv,
           EStopping, Apart, InReset, InInit, Laying, ResetDeep, InitDeep, MonitorJoined,
           BusJoined
  <2>8. Haltable => HaltInv'
    BY <1>2, <2>1, <2>2 DEF IInv, HaltInv, Haltable, Halted, MonitorHarmless, HaltsNext, Pending,
           Starting
  <2>9. Lively => AliveInv'
    BY <1>2, <2>1, <2>2 DEF IInv, AliveInv, Awake, Lively, StateInv, Is
  <2>10. Orderly => broken' = {} /\ UseInv'
    BY <1>2, <2>1, <2>2, Names DEF IInv, UseInv, Orderly, Dead, MonitorHarmless, ResetDeep
  <2> QED
    BY <2>1, <2>4, <2>5, <2>6, <2>7, <2>8, <2>9, <2>10, EnvStays DEF IInv
<1>3. ASSUME At(Op, "b_start"), ~controller, Goto(Op, "b_units"),
           UNCHANGED <<state, latch, teardown, flag, loop, controller, tasks, paused, units,
                       attempts, failing, exec, broken>>
    PROVE  IInv'
  <2>1. ControlInv' /\ Moved(Op, "b_units", top[Op], base[Op])
    BY <1>3, Names, Goes DEF IInv, At, SameCall
  <2>2. /\ pc[Op] = "b_start"
        /\ ~controller
    BY <1>3 DEF At, IInv
  <2>3. Site(Op)
    BY Sites, Names DEF IInv
  <2>4. DataInv'
    BY <1>3, <2>1 DEF IInv, DataInv, States
  <2>5. PlaceInv'
    BY <1>3, <2>1, <2>2, Names DEF IInv, PlaceInv, LoopInv, TeardownInv, Owns, StrayInv,
           Destroying, Laying, FlagInv, ExecInv
  <2>6. ModeInv' /\ StateInv'
    BY <1>3, <2>1, <2>2, Names DEF IInv, ModeInv, Starting, EStopping, Does, StateInv, Is, Laying,
           Clearing
  <2>7. Apart => ApartInv'
    BY <1>3, <2>1, <2>2, <2>3 DEF IInv, ApartInv, FatalInv, QuietInv, JoinedInv, LatchInv,
           EStopping, Apart, InReset, InInit, Laying, ResetDeep, InitDeep, MonitorJoined,
           BusJoined
  <2>8. Haltable => HaltInv'
    BY <1>3, <2>1, <2>2 DEF IInv, HaltInv, Haltable, Halted, MonitorHarmless, HaltsNext, Pending,
           Starting
  <2>9. Lively => AliveInv'
    BY <1>3, <2>1 DEF IInv, AliveInv, Awake, Lively
  <2>10. Orderly => broken' = {} /\ UseInv'
    BY <1>3, <2>1, <2>2, <2>3, Names DEF IInv, UseInv, Orderly, Dead, MonitorRestarts, ResetDeep
  <2> QED
    BY <2>1, <2>4, <2>5, <2>6, <2>7, <2>8, <2>9, <2>10, EnvStays DEF IInv
<1> QED
  BY <1>1, <1>2, <1>3 DEF StartController, Restart, fsm, threads, local

\* start() schedules the units.
LEMMA KeptByScheduleUnits ==
  ASSUME IInv, Stays, ScheduleUnits
  PROVE  IInv'
<1>1. ASSUME At(Op, "b_units"), Goto(Op, "b_running"),
           broken' = IF units # {} /\ ~controller THEN broken \cup {"null_controller"} ELSE broken,
           tasks' = IF controller THEN tasks \cup units ELSE tasks,
           UNCHANGED <<state, latch, teardown, flag, loop, controller, paused, units, attempts,
                       failing, exec>>
    PROVE  IInv'
  <2>1. ControlInv' /\ Moved(Op, "b_running", top[Op], base[Op])
    BY <1>1, Names, Goes DEF IInv, At, SameCall
  <2>2. /\ pc[Op] = "b_units"
        /\ controller => tasks' = tasks \cup units /\ broken' = broken
        /\ ~controller => tasks' = tasks
        /\ broken' \in {broken, broken \cup {"null_controller"}}
    BY <1>1 DEF At, IInv
  <2>3. Site(Op)
    BY Sites, Names DEF IInv
  <2>4. DataInv'
    BY <1>1, <2>1 DEF IInv, DataInv, States
  <2>5. PlaceInv'
    BY <1>1, <2>1, <2>2, Names DEF IInv, PlaceInv, LoopInv, TeardownInv, Owns, StrayInv,
           Destroying, Laying, FlagInv, ExecInv
  <2>6. ModeInv' /\ StateInv'
    BY <1>1, <2>1, <2>2, Names DEF IInv, ModeInv, Starting, EStopping, Does, StateInv, Is, Laying,
           Clearing
  <2>7. Apart => ApartInv'
    BY <1>1, <2>1, <2>2, <2>3 DEF IInv, ApartInv, FatalInv, QuietInv, JoinedInv, LatchInv,
           EStopping, Apart, InReset, InInit, Laying, ResetDeep, InitDeep, MonitorJoined,
           BusJoined
  <2>8. Haltable => HaltInv'
    BY <1>1, <2>1, <2>2 DEF IInv, HaltInv, Haltable, Halted, MonitorHarmless, HaltsNext, Pending,
           Starting
  <2>9. Lively => AliveInv'
    BY <1>1, <2>1, <2>2, Names DEF IInv, AliveInv, Awake, MonitorRestarts, Lively
  <2>10. Orderly => broken' = {} /\ UseInv'
    BY <1>1, <2>1, <2>2, <2>3, Names DEF IInv, UseInv, Orderly, Does, Dead, ResetDeep, ModeInv
  <2> QED
    BY <2>1, <2>4, <2>5, <2>6, <2>7, <2>8, <2>9, <2>10, EnvStays DEF IInv
<1> QED
  BY <1>1 DEF ScheduleUnits, fsm, threads, local

\* The transition to RUNNING, or the undoing of start().
LEMMA KeptByFinishStart ==
  ASSUME IInv, Stays, FinishStart
  PROVE  IInv'
<1>1. ASSUME At(Op, "b_running"), ValidTransition(state, "RUNNING"), state' = "RUNNING", Goto(Op, "idle"),
           UNCHANGED <<latch, teardown, flag, loop, controller, tasks, paused, units, attempts,
                       failing, exec, broken>>
    PROVE  IInv'
  <2>1. ControlInv' /\ Moved(Op, "idle", top[Op], base[Op])
    BY <1>1, Names, Goes DEF IInv, At, SameCall
  <2>2. /\ pc[Op] = "b_running"
        /\ state' = "RUNNING" /\ state \in {"ERROR", "RESUMING", "STARTING"}
    BY <1>1 DEF At, IInv, ValidTransition, LegalTransitions
  <2>3. Site(Op)
    BY Sites, Names DEF IInv
  <2>4. DataInv'
    BY <1>1, <2>1 DEF IInv, DataInv, States
  <2>5. PlaceInv'
    BY <1>1, <2>1, <2>2, Names DEF IInv, PlaceInv, LoopInv, TeardownInv, Owns, StrayInv,
           Destroying, Laying, FlagInv, ExecInv
  <2>6. ModeInv' /\ StateInv'
    BY <1>1, <2>1, <2>2, Names DEF IInv, ModeInv, Starting, EStopping, Does, StateInv, Is, Laying,
           Clearing
  <2>7. Apart => ApartInv'
    BY <1>1, <2>1, <2>2, <2>3 DEF IInv, ApartInv, FatalInv, QuietInv, JoinedInv, LatchInv,
           EStopping, Apart, InReset, InInit, Laying, ResetDeep, InitDeep, MonitorJoined,
           BusJoined
  <2>8. Haltable => HaltInv'
    BY <1>1, <2>1, <2>2, <2>3, Outside DEF IInv, PlaceInv, ApartInv, HaltInv, Haltable, Halted,
           MonitorHarmless, HaltsNext, FatalInv, EStopping, TeardownInv, Owns
  <2>9. Lively => AliveInv'
    BY <1>1, <2>1, <2>2, Names DEF IInv, AliveInv, Awake, MonitorRestarts, Lively, StateInv, Is
  <2>10. Orderly => broken' = {} /\ UseInv'
    BY <1>1, <2>1, <2>2, <2>3, Names DEF IInv, UseInv, Orderly, Dead, MonitorRestarts, ResetDeep
  <2> QED
    BY <2>1, <2>4, <2>5, <2>6, <2>7, <2>8, <2>9, <2>10, EnvStays DEF IInv
<1>2. ASSUME At(Op, "b_running"), ~ValidTransition(state, "RUNNING"), Call(Op, "t_null", "b_return"),
           UNCHANGED <<state, latch, teardown, flag, loop, controller, tasks, paused, units,
                       attempts, failing, exec, broken>>
    PROVE  IInv'
  <2>1. ControlInv' /\ Moved(Op, "t_null", "b_return", "b_return")
    BY <1>2, Names, Backs, Enters DEF IInv, At
  <2>2. /\ pc[Op] = "b_running"
        /\ state \notin {"ERROR", "RESUMING", "STARTING"}
    BY <1>2 DEF At, IInv, ValidTransition, LegalTransitions
  <2>3. Site(Op)
    BY Sites, Names DEF IInv
  <2>4. DataInv'
    BY <1>2, <2>1 DEF IInv, DataInv, States
  <2>5. PlaceInv'
    BY <1>2, <2>1, <2>2, <2>3, Names DEF IInv, PlaceInv, LoopInv, TeardownInv, Owns, StrayInv,
           Destroying, Laying, FlagInv, ExecInv
  <2>6. ModeInv' /\ StateInv'
    BY <1>2, <2>1, <2>2, Names DEF IInv, ModeInv, EStopping, Does, StateInv, Is
  <2>7. Apart => ApartInv'
    BY <1>2, <2>1 DEF IInv, ApartInv, FatalInv, QuietInv, JoinedInv, LatchInv, EStopping, Apart,
           InReset, InInit, Laying, ResetDeep, InitDeep, MonitorJoined, BusJoined
  <2>8. Haltable => HaltInv'
    BY <1>2, <2>1, <2>2, <2>3 DEF IInv, HaltInv, Haltable, Halted, MonitorHarmless, HaltsNext,
           Pending, Starting
  <2>9. Lively => AliveInv'
    BY <1>2, <2>1, Names DEF IInv, AliveInv, Awake, MonitorRestarts, Lively
  <2>10. Orderly => broken' = {} /\ UseInv'
    BY <1>2, <2>1, <2>2, Names DEF IInv, UseInv, Orderly, Dead, MonitorHarmless, MonitorRestarts,
           ResetDeep
  <2> QED
    BY <2>1, <2>4, <2>5, <2>6, <2>7, <2>8, <2>9, <2>10, EnvStays DEF IInv
<1> QED
  BY <1>1, <1>2 DEF FinishStart, threads, timing, local

\* pause() and resume().
LEMMA KeptByPauseAndResume ==
  ASSUME IInv, Stays, PauseAndResume
  PROVE  IInv'
<1>1. ASSUME At(Op, "p_pause"), SetPaused(TRUE), Goto(Op, "p_done"),
           UNCHANGED <<state, latch, teardown, flag, loop, controller, tasks, units, attempts,
                       failing, exec, broken>>
    PROVE  IInv'
  <2>1. ControlInv' /\ Moved(Op, "p_done", top[Op], base[Op])
    BY <1>1, Names, Goes DEF IInv, At, SameCall
  <2>2. /\ pc[Op] = "p_pause"
        /\ paused' = IF controller THEN TRUE ELSE paused
        /\ paused' \in BOOLEAN
    BY <1>1, Names DEF At, IInv, DataInv, SetPaused
  <2>3. Site(Op)
    BY Sites, Names DEF IInv
  <2>4. DataInv'
    BY <1>1, <2>1, <2>2, <2>3, Names, Disciplines DEF IInv, PlaceInv, ApartInv, DataInv, States
  <2>5. PlaceInv'
    BY <1>1, <2>1, <2>2, Names DEF IInv, PlaceInv, LoopInv, TeardownInv, Owns, StrayInv,
           Destroying, Laying, FlagInv, ExecInv
  <2>6. ModeInv' /\ StateInv'
    BY <1>1, <2>1, <2>2, Names DEF IInv, ModeInv, Starting, EStopping, Does, StateInv, Is, Laying,
           Clearing
  <2>7. Apart => ApartInv'
    BY <1>1, <2>1, <2>2, <2>3 DEF IInv, ApartInv, FatalInv, QuietInv, JoinedInv, LatchInv,
           EStopping, Apart, InReset, InInit, Laying, ResetDeep, InitDeep, MonitorJoined,
           BusJoined
  <2>8. Haltable => HaltInv'
    BY <1>1, <2>1, <2>2, Names DEF IInv, HaltInv, Haltable, Halted, MonitorHarmless, HaltsNext,
           Pending, Starting
  <2>9. Lively => AliveInv'
    BY <1>1, <2>1, <2>2, Names DEF IInv, AliveInv, Awake, MonitorRestarts, Lively
  <2>10. Orderly => broken' = {} /\ UseInv'
    BY <1>1, <2>1, <2>2, Names DEF IInv, UseInv, Orderly, Dead, MonitorHarmless, MonitorRestarts,
           ResetDeep
  <2> QED
    BY <2>1, <2>4, <2>5, <2>6, <2>7, <2>8, <2>9, <2>10, EnvStays DEF IInv
<1>2. ASSUME At(Op, "p_done"), ValidTransition(state, "PAUSED"), state' = "PAUSED", Goto(Op, "idle"),
           UNCHANGED <<latch, teardown, flag, loop, controller, tasks, paused, units, attempts,
                       failing, exec, broken>>
    PROVE  IInv'
  <2>1. ControlInv' /\ Moved(Op, "idle", top[Op], base[Op])
    BY <1>2, Names, Goes DEF IInv, At, SameCall
  <2>2. /\ pc[Op] = "p_done"
        /\ state' = "PAUSED" /\ state \in {"ERROR", "PAUSING"}
    BY <1>2 DEF At, IInv, ValidTransition, LegalTransitions
  <2>3. Site(Op)
    BY Sites, Names DEF IInv
  <2>4. DataInv'
    BY <1>2, <2>1 DEF IInv, DataInv, States
  <2>5. PlaceInv'
    BY <1>2, <2>1, <2>2, <2>3, Names DEF IInv, PlaceInv, ApartInv, LoopInv, TeardownInv, Owns,
           StrayInv, Destroying, Laying, FlagInv, ExecInv, DataInv
  <2>6. ModeInv' /\ StateInv'
    BY <1>2, <2>1, <2>2, Names DEF IInv, ModeInv, Starting, EStopping, Does, StateInv, Is, Laying,
           Clearing
  <2>7. Apart => ApartInv'
    BY <1>2, <2>1, <2>2, <2>3 DEF IInv, ApartInv, FatalInv, QuietInv, JoinedInv, LatchInv,
           EStopping, Apart, InReset, InInit, Laying, ResetDeep, InitDeep, MonitorJoined,
           BusJoined
  <2>8. Haltable => HaltInv'
    BY <1>2, <2>1, <2>2, Names DEF IInv, HaltInv, Haltable, Halted, MonitorHarmless, HaltsNext,
           Starting
  <2>9. Lively => AliveInv'
    BY <1>2, <2>1, <2>2, Names DEF IInv, AliveInv, Awake, MonitorRestarts, Lively, StateInv, Is
  <2>10. Orderly => broken' = {} /\ UseInv'
    BY <1>2, <2>1, <2>2, <2>3, Names DEF IInv, UseInv, Orderly, Dead, MonitorRestarts, ResetDeep
  <2> QED
    BY <2>1, <2>4, <2>5, <2>6, <2>7, <2>8, <2>9, <2>10, EnvStays DEF IInv
<1>3. ASSUME At(Op, "p_done"), ~ValidTransition(state, "PAUSED"), Goto(Op, "idle"),
           UNCHANGED <<state, latch, teardown, flag, loop, controller, tasks, paused, units,
                       attempts, failing, exec, broken>>
    PROVE  IInv'
  <2>1. ControlInv' /\ Moved(Op, "idle", top[Op], base[Op])
    BY <1>3, Names, Goes DEF IInv, At, SameCall
  <2>2. /\ pc[Op] = "p_done"
        /\ state \notin {"ERROR", "PAUSING"}
    BY <1>3 DEF At, IInv, ValidTransition, LegalTransitions
  <2>3. Site(Op)
    BY Sites, Names DEF IInv
  <2>4. DataInv'
    BY <1>3, <2>1 DEF IInv, DataInv, States
  <2>5. PlaceInv'
    BY <1>3, <2>1, <2>2, Names DEF IInv, PlaceInv, LoopInv, TeardownInv, Owns, StrayInv,
           Destroying, Laying, FlagInv, ExecInv
  <2>6. ModeInv' /\ StateInv'
    BY <1>3, <2>1, <2>2, Names DEF IInv, ModeInv, Starting, EStopping, Does, StateInv, Is
  <2>7. Apart => ApartInv'
    BY <1>3, <2>1, <2>2, <2>3 DEF IInv, ApartInv, FatalInv, QuietInv, JoinedInv, LatchInv,
           EStopping, Apart, InReset, InInit, Laying, ResetDeep, InitDeep, MonitorJoined,
           BusJoined
  <2>8. Haltable => HaltInv'
    BY <1>3, <2>1, <2>2, <2>3, Names DEF IInv, PlaceInv, ApartInv, HaltInv, Haltable, Halted,
           MonitorHarmless, HaltsNext, Pending, Starting, Apart, Does
  <2>9. Lively => AliveInv'
    BY <1>3, <2>1, Names DEF IInv, AliveInv, Awake, MonitorRestarts, Lively
  <2>10. Orderly => broken' = {} /\ UseInv'
    BY <1>3, <2>1, <2>2, Names DEF IInv, UseInv, Orderly, Dead, MonitorHarmless, MonitorRestarts,
           ResetDeep
  <2> QED
    BY <2>1, <2>4, <2>5, <2>6, <2>7, <2>8, <2>9, <2>10, EnvStays DEF IInv
<1>4. ASSUME At(Op, "r_resume"), SetPaused(FALSE), Goto(Op, "r_done"),
           UNCHANGED <<state, latch, teardown, flag, loop, controller, tasks, units, attempts,
                       failing, exec, broken>>
    PROVE  IInv'
  <2>1. ControlInv' /\ Moved(Op, "r_done", top[Op], base[Op])
    BY <1>4, Names, Goes DEF IInv, At, SameCall
  <2>2. /\ pc[Op] = "r_resume"
        /\ paused' = IF controller THEN FALSE ELSE paused
        /\ paused' \in BOOLEAN
    BY <1>4, Names DEF At, IInv, DataInv, SetPaused
  <2>3. Site(Op)
    BY Sites, Names DEF IInv
  <2>4. DataInv'
    BY <1>4, <2>1, <2>2, <2>3, Names, Disciplines DEF IInv, PlaceInv, ApartInv, DataInv, States
  <2>5. PlaceInv'
    BY <1>4, <2>1, <2>2, Names DEF IInv, PlaceInv, LoopInv, TeardownInv, Owns, StrayInv,
           Destroying, Laying, FlagInv, ExecInv
  <2>6. ModeInv' /\ StateInv'
    BY <1>4, <2>1, <2>2, Names DEF IInv, ModeInv, Starting, EStopping, Does, StateInv, Is, Laying,
           Clearing
  <2>7. Apart => ApartInv'
    BY <1>4, <2>1, <2>2, <2>3 DEF IInv, ApartInv, FatalInv, QuietInv, JoinedInv, LatchInv,
           EStopping, Apart, InReset, InInit, Laying, ResetDeep, InitDeep, MonitorJoined,
           BusJoined
  <2>8. Haltable => HaltInv'
    BY <1>4, <2>1, <2>2, Names DEF IInv, HaltInv, Haltable, Halted, MonitorHarmless, HaltsNext,
           Pending, Starting
  <2>9. Lively => AliveInv'
    BY <1>4, <2>1, <2>2, Names DEF IInv, AliveInv, Awake, MonitorRestarts, Lively, StateInv, Is
  <2>10. Orderly => broken' = {} /\ UseInv'
    BY <1>4, <2>1, <2>2, Names DEF IInv, UseInv, Orderly, Dead, MonitorHarmless, MonitorRestarts,
           ResetDeep
  <2> QED
    BY <2>1, <2>4, <2>5, <2>6, <2>7, <2>8, <2>9, <2>10, EnvStays DEF IInv
<1>5. ASSUME At(Op, "r_done"), ValidTransition(state, "RUNNING"), state' = "RUNNING", Goto(Op, "idle"),
           UNCHANGED <<latch, teardown, flag, loop, controller, tasks, paused, units, attempts,
                       failing, exec, broken>>
    PROVE  IInv'
  <2>1. ControlInv' /\ Moved(Op, "idle", top[Op], base[Op])
    BY <1>5, Names, Goes DEF IInv, At, SameCall
  <2>2. /\ pc[Op] = "r_done"
        /\ state' = "RUNNING" /\ state \in {"ERROR", "RESUMING", "STARTING"}
    BY <1>5 DEF At, IInv, ValidTransition, LegalTransitions
  <2>3. Site(Op)
    BY Sites, Names DEF IInv
  <2>4. DataInv'
    BY <1>5, <2>1 DEF IInv, DataInv, States
  <2>5. PlaceInv'
    BY <1>5, <2>1, <2>2, Names DEF IInv, PlaceInv, LoopInv, TeardownInv, Owns, StrayInv,
           Destroying, Laying, FlagInv, ExecInv
  <2>6. ModeInv' /\ StateInv'
    BY <1>5, <2>1, <2>2, Names DEF IInv, ModeInv, Starting, EStopping, Does, StateInv, Is, Laying,
           Clearing
  <2>7. Apart => ApartInv'
    BY <1>5, <2>1, <2>2, <2>3 DEF IInv, ApartInv, FatalInv, QuietInv, JoinedInv, LatchInv,
           EStopping, Apart, InReset, InInit, Laying, ResetDeep, InitDeep, MonitorJoined,
           BusJoined
  <2>8. Haltable => HaltInv'
    BY <1>5, <2>1, <2>2, Names DEF IInv, HaltInv, Haltable, Halted, MonitorHarmless, HaltsNext,
           Starting
  <2>9. Lively => AliveInv'
    BY <1>5, <2>1, <2>2, Names DEF IInv, AliveInv, Awake, MonitorRestarts, Lively, StateInv, Is
  <2>10. Orderly => broken' = {} /\ UseInv'
    BY <1>5, <2>1, <2>2, <2>3, Names DEF IInv, UseInv, Orderly, Dead, MonitorRestarts, ResetDeep
  <2> QED
    BY <2>1, <2>4, <2>5, <2>6, <2>7, <2>8, <2>9, <2>10, EnvStays DEF IInv
<1>6. ASSUME At(Op, "r_done"), ~ValidTransition(state, "RUNNING"), Goto(Op, "idle"),
           UNCHANGED <<state, latch, teardown, flag, loop, controller, tasks, paused, units,
                       attempts, failing, exec, broken>>
    PROVE  IInv'
  <2>1. ControlInv' /\ Moved(Op, "idle", top[Op], base[Op])
    BY <1>6, Names, Goes DEF IInv, At, SameCall
  <2>2. /\ pc[Op] = "r_done"
        /\ state \notin {"ERROR", "RESUMING", "STARTING"}
    BY <1>6 DEF At, IInv, ValidTransition, LegalTransitions
  <2>3. Site(Op)
    BY Sites, Names DEF IInv
  <2>4. DataInv'
    BY <1>6, <2>1 DEF IInv, DataInv, States
  <2>5. PlaceInv'
    BY <1>6, <2>1, <2>2, Names DEF IInv, PlaceInv, LoopInv, TeardownInv, Owns, StrayInv,
           Destroying, Laying, FlagInv, ExecInv
  <2>6. ModeInv' /\ StateInv'
    BY <1>6, <2>1, <2>2, Names DEF IInv, ModeInv, Starting, EStopping, Does, StateInv, Is
  <2>7. Apart => ApartInv'
    BY <1>6, <2>1, <2>2, <2>3 DEF IInv, ApartInv, FatalInv, QuietInv, JoinedInv, LatchInv,
           EStopping, Apart, InReset, InInit, Laying, ResetDeep, InitDeep, MonitorJoined,
           BusJoined
  <2>8. Haltable => HaltInv'
    BY <1>6, <2>1, <2>2, Names DEF IInv, HaltInv, Haltable, Halted, MonitorHarmless, HaltsNext,
           Pending, Starting
  <2>9. Lively => AliveInv'
    BY <1>6, <2>1, Names DEF IInv, AliveInv, Awake, MonitorRestarts, Lively
  <2>10. Orderly => broken' = {} /\ UseInv'
    BY <1>6, <2>1, <2>2, Names DEF IInv, UseInv, Orderly, Dead, MonitorHarmless, MonitorRestarts,
           ResetDeep
  <2> QED
    BY <2>1, <2>4, <2>5, <2>6, <2>7, <2>8, <2>9, <2>10, EnvStays DEF IInv
<1> QED
  BY <1>1, <1>2, <1>3, <1>4, <1>5, <1>6 DEF PauseAndResume, Transition, fsm, threads, timing,
         local

\* stop() raises the latch and lowers the flags.
LEMMA KeptByStopSignals ==
  ASSUME IInv, Stays, StopSignals
  PROVE  IInv'
<1>1. ASSUME At(Op, "s_latch"), latch' = TRUE, Goto(Op, "s_flags"),
           UNCHANGED <<state, teardown, flag, loop, controller, tasks, paused, units, attempts,
                       failing, exec, broken>>
    PROVE  IInv'
  <2>1. ControlInv' /\ Moved(Op, "s_flags", top[Op], base[Op])
    BY <1>1, Names, Goes DEF IInv, At, SameCall
  <2>2. /\ pc[Op] = "s_latch"
        /\ latch' = TRUE
    BY <1>1 DEF At, IInv
  <2>3. Site(Op)
    BY Sites, Names DEF IInv
  <2>4. DataInv'
    BY <1>1, <2>1 DEF IInv, DataInv, States
  <2>5. PlaceInv'
    BY <1>1, <2>1, <2>2, Names DEF IInv, PlaceInv, LoopInv, TeardownInv, Owns, StrayInv,
           Destroying, Laying, FlagInv, ExecInv
  <2>6. ModeInv' /\ StateInv'
    BY <1>1, <2>1, <2>2, Names DEF IInv, ModeInv, Starting, EStopping, Does, StateInv, Is, Laying,
           Clearing
  <2>7. Apart => ApartInv'
    BY <1>1, <2>1, <2>2, <2>3 DEF IInv, ApartInv, FatalInv, QuietInv, JoinedInv, LatchInv,
           EStopping, Apart, InReset, InInit, Laying, ResetDeep, InitDeep, MonitorJoined,
           BusJoined
  <2>8. Haltable => HaltInv'
    BY <1>1, <2>1, <2>2, Names DEF IInv, HaltInv, Haltable, Halted, MonitorHarmless, HaltsNext,
           Pending, Starting
  <2>9. Lively => AliveInv'
    BY <1>1, <2>1, <2>2 DEF IInv, AliveInv, Awake, Lively, StateInv, Is
  <2>10. Orderly => broken' = {} /\ UseInv'
    BY <1>1, <2>1, <2>2, <2>3, Names DEF IInv, PlaceInv, ApartInv, UseInv, Orderly, Does, Dead,
           MonitorHarmless, MonitorRestarts, Laying, ResetDeep, Clearing, QuietInv, StrayInv
  <2> QED
    BY <2>1, <2>4, <2>5, <2>6, <2>7, <2>8, <2>9, <2>10, EnvStays DEF IInv
<1>2. ASSUME At(Op, "s_flags"), RequestStop({"bus", "monitor"}), Goto(Op, "s_lock"),
           UNCHANGED <<state, latch, teardown, loop, controller, tasks, paused, units, attempts,
                       failing, exec, broken>>
    PROVE  IInv'
  <2>1. ControlInv' /\ Moved(Op, "s_lock", top[Op], base[Op])
    BY <1>2, Names, Goes DEF IInv, At, SameCall
  <2>2. /\ pc[Op] = "s_flags"
        /\ ~flag'["bus"] /\ ~flag'["monitor"] /\ flag'["scheduler"] = flag["scheduler"]
        /\ flag' \in [Workers -> BOOLEAN]
    BY <1>2, Names DEF At, IInv, DataInv, RequestStop
  <2>3. Site(Op)
    BY Sites, Names DEF IInv
  <2>4. DataInv'
    BY <1>2, <2>1, <2>2 DEF IInv, DataInv, States
  <2>5. PlaceInv'
    BY <1>2, <2>1, <2>2, Names DEF IInv, PlaceInv, LoopInv, TeardownInv, Owns, StrayInv,
           Destroying, Laying, FlagInv, ExecInv
  <2>6. ModeInv' /\ StateInv'
    BY <1>2, <2>1, <2>2, Names DEF IInv, ModeInv, Starting, EStopping, Does, StateInv, Is, Laying,
           Clearing
  <2>7. Apart => ApartInv'
    BY <1>2, <2>1, <2>2, <2>3 DEF IInv, ApartInv, FatalInv, QuietInv, JoinedInv, LatchInv,
           EStopping, Apart, InReset, InInit, Laying, ResetDeep, InitDeep, MonitorJoined,
           BusJoined
  <2>8. Haltable => HaltInv'
    BY <1>2, <2>1, <2>2, Names DEF IInv, HaltInv, Haltable, Halted, MonitorHarmless, HaltsNext,
           Pending, Starting
  <2>9. Lively => AliveInv'
    BY <1>2, <2>1, <2>2 DEF IInv, AliveInv, Awake, Lively, StateInv, Is
  <2>10. Orderly => broken' = {} /\ UseInv'
    BY <1>2, <2>1, <2>2, Names DEF IInv, UseInv, Orderly, Dead, MonitorHarmless, MonitorRestarts,
           ResetDeep
  <2> QED
    BY <2>1, <2>4, <2>5, <2>6, <2>7, <2>8, <2>9, <2>10, EnvStays DEF IInv
<1>3. ASSUME At(Op, "s_halt_bus"), RequestStop({"bus"}), Goto(Op, "s_bus"),
           UNCHANGED <<state, latch, teardown, loop, controller, tasks, paused, units, attempts,
                       failing, exec, broken>>
    PROVE  IInv'
  <2>1. ControlInv' /\ Moved(Op, "s_bus", top[Op], base[Op])
    BY <1>3, Names, Goes DEF IInv, At, SameCall
  <2>2. /\ pc[Op] = "s_halt_bus"
        /\ ~flag'["bus"] /\ flag'["monitor"] = flag["monitor"] /\ flag'["scheduler"] = flag["scheduler"]
        /\ flag' \in [Workers -> BOOLEAN]
    BY <1>3, Names DEF At, IInv, DataInv, RequestStop
  <2>3. Site(Op)
    BY Sites, Names DEF IInv
  <2>4. DataInv'
    BY <1>3, <2>1, <2>2 DEF IInv, DataInv, States
  <2>5. PlaceInv'
    BY <1>3, <2>1, <2>2, Names DEF IInv, PlaceInv, LoopInv, TeardownInv, Owns, StrayInv,
           Destroying, Laying, FlagInv, ExecInv
  <2>6. ModeInv' /\ StateInv'
    BY <1>3, <2>1, <2>2, Names DEF IInv, ModeInv, Starting, EStopping, Does, StateInv, Is, Laying,
           Clearing
  <2>7. Apart => ApartInv'
    BY <1>3, <2>1, <2>2, <2>3 DEF IInv, ApartInv, FatalInv, QuietInv, JoinedInv, LatchInv,
           EStopping, Apart, InReset, InInit, Laying, ResetDeep, InitDeep, MonitorJoined,
           BusJoined
  <2>8. Haltable => HaltInv'
    BY <1>3, <2>1, <2>2, Names DEF IInv, HaltInv, Haltable, Halted, MonitorHarmless, HaltsNext,
           Pending, Starting
  <2>9. Lively => AliveInv'
    BY <1>3, <2>1, <2>2 DEF IInv, AliveInv, Awake, Lively, StateInv, Is
  <2>10. Orderly => broken' = {} /\ UseInv'
    BY <1>3, <2>1, <2>2, Names DEF IInv, UseInv, Orderly, Dead, MonitorHarmless, MonitorRestarts,
           ResetDeep
  <2> QED
    BY <2>1, <2>4, <2>5, <2>6, <2>7, <2>8, <2>9, <2>10, EnvStays DEF IInv
<1> QED
  BY <1>1, <1>2, <1>3 DEF StopSignals, fsm, threads, timing, local

\* stop() takes shutdownMutex_.
LEMMA KeptByStopTakesTeardown ==
  ASSUME IInv, Stays, StopTakesTeardown
  PROVE  IInv'
<1>1. ASSUME At(Op, "s_lock"), teardown = "none", teardown' = Op, Goto(Op, "s_halt_bus"),
           UNCHANGED <<state, latch, flag, loop, controller, tasks, paused, units, attempts,
                       failing, exec, broken>>
    PROVE  IInv'
  <2>1. ControlInv' /\ Moved(Op, "s_halt_bus", top[Op], base[Op])
    BY <1>1, Names, Goes DEF IInv, At, SameCall
  <2>2. /\ pc[Op] = "s_lock"
        /\ teardown = "none" /\ teardown' = Op
    BY <1>1 DEF At, IInv
  <2>3. Site(Op)
    BY Sites, Names DEF IInv
  <2>4. DataInv'
    BY <1>1, <2>1, Names DEF IInv, DataInv, States
  <2>5. PlaceInv'
    BY <1>1, <2>1, <2>2, Names DEF IInv, PlaceInv, LoopInv, TeardownInv, Owns, StrayInv,
           Destroying, Laying, FlagInv, ExecInv
  <2>6. ModeInv' /\ StateInv'
    BY <1>1, <2>1, <2>2, Names DEF IInv, ModeInv, Starting, EStopping, Does, StateInv, Is, Laying,
           Clearing
  <2>7. Apart => ApartInv'
    BY <1>1, <2>1, <2>2, <2>3 DEF IInv, ApartInv, FatalInv, QuietInv, JoinedInv, LatchInv,
           EStopping, Apart, InReset, InInit, Laying, ResetDeep, InitDeep, MonitorJoined,
           BusJoined
  <2>8. Haltable => HaltInv'
    BY <1>1, <2>1, Names DEF IInv, HaltInv, Haltable, Halted, MonitorHarmless, HaltsNext, Pending
  <2>9. Lively => AliveInv'
    BY <1>1, <2>1, Names DEF IInv, AliveInv, Awake, MonitorRestarts, Lively
  <2>10. Orderly => broken' = {} /\ UseInv'
    BY <1>1, <2>1, <2>2, <2>3, Names DEF IInv, UseInv, Orderly, Dead, MonitorHarmless,
           MonitorRestarts, ResetDeep
  <2> QED
    BY <2>1, <2>4, <2>5, <2>6, <2>7, <2>8, <2>9, <2>10, EnvStays DEF IInv
<1> QED
  BY <1>1 DEF StopTakesTeardown, threads, timing, local

\* stop() joins the loops, stops the scheduler and destroys the controller.
LEMMA KeptByStopJoins ==
  ASSUME IInv, Stays, StopJoins
  PROVE  IInv'
<1>1. ASSUME At(Op, "s_bus"), Join(Op, "bus"), Goto(Op, "s_monitor"),
           UNCHANGED <<state, latch, teardown, flag, controller, tasks, paused, units, attempts,
                       failing, exec, broken>>
    PROVE  IInv'
  <2>1. ControlInv' /\ Moved(Op, "s_monitor", top[Op], base[Op])
    BY <1>1, Names, Goes DEF IInv, At, SameCall
  <2>2. /\ pc[Op] = "s_bus"
        /\ loop["bus"] # "running"
        /\ \A w \in Workers : loop'[w] = "running" <=> loop[w] = "running"
        /\ loop' \in [Workers -> {"none", "running", "ended"}]
    BY <1>1 DEF At, IInv, DataInv, Join
  <2>4. DataInv'
    BY <1>1, <2>1, <2>2 DEF IInv, DataInv, States
  <2>5. PlaceInv'
    BY <1>1, <2>1, <2>2, Names DEF IInv, PlaceInv, LoopInv, TeardownInv, Owns, StrayInv,
           Destroying, Laying, FlagInv, ExecInv
  <2>6. ModeInv' /\ StateInv'
    BY <1>1, <2>1, <2>2, Names DEF IInv, ModeInv, Starting, EStopping, Does, StateInv, Is, Laying,
           Clearing
  <2>7. Apart => ApartInv'
    BY <1>1, <2>1, <2>2, Names DEF IInv, ApartInv, FatalInv, QuietInv, JoinedInv, LatchInv,
           EStopping, Apart, InReset, InInit, Laying, ResetDeep, InitDeep, MonitorJoined
  <2>8. Haltable => HaltInv'
    BY <1>1, <2>1, <2>2, Names DEF IInv, HaltInv, Haltable, Halted, MonitorHarmless, HaltsNext,
           Pending, Starting
  <2>9. Lively => AliveInv'
    BY <1>1, <2>1, <2>2 DEF IInv, AliveInv, Awake, Lively
  <2>10. Orderly => broken' = {} /\ UseInv'
    BY <1>1, <2>1, <2>2, Names DEF IInv, UseInv, Orderly, Dead, MonitorHarmless, MonitorRestarts,
           ResetDeep
  <2> QED
    BY <2>1, <2>4, <2>5, <2>6, <2>7, <2>8, <2>9, <2>10, EnvStays DEF IInv
<1>2. ASSUME At(Op, "s_monitor"), Join(Op, "monitor"), Call(Op, "t_null", "s_cleanup"),
           UNCHANGED <<state, latch, teardown, flag, controller, tasks, paused, units, attempts,
                       failing, exec, broken>>
    PROVE  IInv'
  <2>1. ControlInv' /\ Moved(Op, "t_null", "s_cleanup", "s_cleanup")
    BY <1>2, Names, Backs, Enters DEF IInv, At
  <2>2. /\ pc[Op] = "s_monitor"
        /\ loop["monitor"] # "running"
        /\ \A w \in Workers : loop'[w] = "running" <=> loop[w] = "running"
        /\ loop' \in [Workers -> {"none", "running", "ended"}]
    BY <1>2 DEF At, IInv, DataInv, Join
  <2>3. Site(Op)
    BY Sites, Names DEF IInv
  <2>4. DataInv'
    BY <1>2, <2>1, <2>2 DEF IInv, DataInv, States
  <2>5. PlaceInv'
    BY <1>2, <2>1, <2>2, Names DEF IInv, PlaceInv, LoopInv, TeardownInv, Owns, StrayInv,
           Destroying, Laying, FlagInv, ExecInv
  <2>6. ModeInv' /\ StateInv'
    BY <1>2, <2>1, <2>2, Names DEF IInv, ModeInv, Starting, EStopping, Does, StateInv, Is, Laying,
           Clearing
  <2>7. Apart => ApartInv'
    <3>1. Apart => FatalInv'
      BY <1>2, <2>1 DEF IInv, ApartInv, FatalInv, EStopping, Apart
    <3>2. Apart => QuietInv'
      BY <1>2, <2>1, <2>2, Names DEF IInv, ApartInv, QuietInv, Apart, InReset, InInit, Laying,
             ResetDeep, InitDeep, MonitorJoined, BusJoined
    <3>3. Apart => JoinedInv'
      BY <1>2, <2>1, <2>2, <2>3, Names DEF IInv, ApartInv, JoinedInv
    <3>4. Apart => LatchInv'
      BY <1>2, <2>1, <2>2 DEF IInv, ApartInv, LatchInv, Apart
    <3> QED
      BY <3>1, <3>2, <3>3, <3>4 DEF ApartInv
  <2>8. Haltable => HaltInv'
    BY <1>2, <2>1, <2>2, <2>3, Names DEF IInv, HaltInv, Haltable, Halted, MonitorHarmless,
           HaltsNext, Pending, Starting
  <2>9. Lively => AliveInv'
    BY <1>2, <2>1, <2>2, Names DEF IInv, AliveInv, Awake, MonitorRestarts, Lively
  <2>10. Orderly => broken' = {} /\ UseInv'
    BY <1>2, <2>1, <2>2, <2>3, Names DEF IInv, UseInv, Orderly, Dead, MonitorHarmless,
           MonitorRestarts, ResetDeep
  <2> QED
    BY <2>1, <2>4, <2>5, <2>6, <2>7, <2>8, <2>9, <2>10, EnvStays DEF IInv
<1>3. ASSUME At(Op, "s_cleanup"), Call(Op, "d_drop", "s_unlock"),
           UNCHANGED <<state, latch, teardown, flag, loop, controller, tasks, paused, units,
                       attempts, failing, exec, broken>>
    PROVE  IInv'
  <2>1. ControlInv' /\ Moved(Op, "d_drop", "s_unlock", "s_unlock")
    BY <1>3, Names, Backs, Enters DEF IInv, At
  <2>2. /\ pc[Op] = "s_cleanup"
    BY <1>3 DEF At, IInv
  <2>3. Site(Op)
    BY Sites, Names DEF IInv
  <2>4. DataInv'
    BY <1>3, <2>1 DEF IInv, DataInv, States
  <2>5. PlaceInv'
    BY <1>3, <2>1, <2>2, Names DEF IInv, PlaceInv, LoopInv, TeardownInv, Owns, StrayInv,
           Destroying, Laying, FlagInv, ExecInv
  <2>6. ModeInv' /\ StateInv'
    BY <1>3, <2>1, <2>2, Names DEF IInv, ModeInv, Starting, EStopping, Does, StateInv, Is, Laying,
           Clearing
  <2>7. Apart => ApartInv'
    BY <1>3, <2>1, <2>2, <2>3 DEF IInv, ApartInv, FatalInv, QuietInv, JoinedInv, LatchInv,
           EStopping, Apart, InReset, InInit, Laying, ResetDeep, InitDeep, MonitorJoined,
           BusJoined
  <2>8. Haltable => HaltInv'
    BY <1>3, <2>1, <2>2, <2>3, Names DEF IInv, HaltInv, Haltable, Halted, MonitorHarmless,
           HaltsNext, Pending, Starting
  <2>9. Lively => AliveInv'
    BY <1>3, <2>1, Names DEF IInv, AliveInv, Awake, MonitorRestarts, Lively
  <2>10. Orderly => broken' = {} /\ UseInv'
    BY <1>3, <2>1, <2>2, <2>3, Names DEF IInv, UseInv, Orderly, Dead, MonitorHarmless,
           MonitorRestarts, ResetDeep
  <2> QED
    BY <2>1, <2>4, <2>5, <2>6, <2>7, <2>8, <2>9, <2>10, EnvStays DEF IInv
<1> QED
  BY <1>1, <1>2, <1>3 DEF StopJoins, fsm, timing, local

\* stop() gives the mutex back.
LEMMA KeptByFinishStop ==
  ASSUME IInv, Stays, FinishStop
  PROVE  IInv'
<1>1. ASSUME At(Op, "s_unlock"), teardown' = (IF teardown = Op THEN "none" ELSE teardown), Goto(Op, "s_done"),
           UNCHANGED <<state, latch, flag, loop, controller, tasks, paused, units, attempts,
                       failing, exec, broken>>
    PROVE  IInv'
  <2>1. ControlInv' /\ Moved(Op, "s_done", top[Op], base[Op])
    BY <1>1, Names, Goes DEF IInv, At, SameCall
  <2>2. /\ pc[Op] = "s_unlock"
        /\ teardown = Op /\ teardown' = "none"
    BY <1>1, Names DEF At, IInv, PlaceInv, TeardownInv, Owns
  <2>3. Site(Op)
    BY Sites, Names DEF IInv
  <2>4. DataInv'
    BY <1>1, <2>1 DEF IInv, DataInv, States
  <2>5. PlaceInv'
    BY <1>1, <2>1, <2>2, <2>3, Names DEF IInv, PlaceInv, LoopInv, TeardownInv, Owns, StrayInv,
           Destroying, Laying, FlagInv, ExecInv
  <2>6. ModeInv' /\ StateInv'
    BY <1>1, <2>1, <2>2, Names DEF IInv, ModeInv, Starting, EStopping, Does, StateInv, Is, Laying,
           Clearing
  <2>7. Apart => ApartInv'
    BY <1>1, <2>1, <2>2, <2>3 DEF IInv, ApartInv, FatalInv, QuietInv, JoinedInv, LatchInv,
           EStopping, Apart, InReset, InInit, Laying, ResetDeep, InitDeep, MonitorJoined,
           BusJoined
  <2>8. Haltable => HaltInv'
    BY <1>1, <2>1, <2>2, <2>3, Names DEF IInv, HaltInv, Haltable, Halted, MonitorHarmless,
           HaltsNext, Starting
  <2>9. Lively => AliveInv'
    BY <1>1, <2>1, Names DEF IInv, AliveInv, Awake, MonitorRestarts, Lively
  <2>10. Orderly => broken' = {} /\ UseInv'
    BY <1>1, <2>1, <2>2, <2>3, Names DEF IInv, UseInv, Orderly, Dead, MonitorHarmless,
           MonitorRestarts, ResetDeep
  <2> QED
    BY <2>1, <2>4, <2>5, <2>6, <2>7, <2>8, <2>9, <2>10, EnvStays DEF IInv
<1>2. ASSUME At(Op, "s_done"), ValidTransition(state, "STOPPED"), state' = "STOPPED", Goto(Op, "idle"),
           UNCHANGED <<latch, teardown, flag, loop, controller, tasks, paused, units, attempts,
                       failing, exec, broken>>
    PROVE  IInv'
  <2>1. ControlInv' /\ Moved(Op, "idle", top[Op], base[Op])
    BY <1>2, Names, Goes DEF IInv, At, SameCall
  <2>2. /\ pc[Op] = "s_done"
        /\ state' = "STOPPED" /\ state \in {"ERROR", "STOPPING"}
    BY <1>2 DEF At, IInv, ValidTransition, LegalTransitions
  <2>3. Site(Op)
    BY Sites, Names DEF IInv
  <2>4. DataInv'
    BY <1>2, <2>1 DEF IInv, DataInv, States
  <2>5. PlaceInv'
    BY <1>2, <2>1, <2>2, <2>3, Names DEF IInv, PlaceInv, ApartInv, LoopInv, TeardownInv, Owns,
           StrayInv, Destroying, Laying, FlagInv, ExecInv, DataInv
  <2>6. ModeInv' /\ StateInv'
    BY <1>2, <2>1, <2>2, <2>3, Names DEF IInv, ModeInv, Starting, EStopping, Does, StateInv, Is,
           Laying, Clearing
  <2>7. Apart => ApartInv'
    BY <1>2, <2>1, <2>2, <2>3 DEF IInv, ApartInv, FatalInv, QuietInv, JoinedInv, LatchInv,
           EStopping, Apart, InReset, InInit, Laying, ResetDeep, InitDeep, MonitorJoined,
           BusJoined
  <2>8. Haltable => HaltInv'
    BY <1>2, <2>1, <2>2, Names DEF IInv, HaltInv, Haltable, Halted, MonitorHarmless, HaltsNext,
           Starting
  <2>9. Lively => AliveInv'
    BY <1>2, <2>1 DEF IInv, AliveInv, Awake, Lively
  <2>10. Orderly => broken' = {} /\ UseInv'
    BY <1>2, <2>1, <2>2, <2>3, Names DEF IInv, UseInv, Orderly, Dead, MonitorRestarts, ResetDeep
  <2> QED
    BY <2>1, <2>4, <2>5, <2>6, <2>7, <2>8, <2>9, <2>10, EnvStays DEF IInv
<1>3. ASSUME At(Op, "s_done"), ~ValidTransition(state, "STOPPED"), Goto(Op, "idle"),
           UNCHANGED <<state, latch, teardown, flag, loop, controller, tasks, paused, units,
                       attempts, failing, exec, broken>>
    PROVE  IInv'
  <2>1. ControlInv' /\ Moved(Op, "idle", top[Op], base[Op])
    BY <1>3, Names, Goes DEF IInv, At, SameCall
  <2>2. /\ pc[Op] = "s_done"
        /\ state \notin {"ERROR", "STOPPING"}
    BY <1>3 DEF At, IInv, ValidTransition, LegalTransitions
  <2>3. Site(Op)
    BY Sites, Names DEF IInv
  <2>4. DataInv'
    BY <1>3, <2>1 DEF IInv, DataInv, States
  <2>5. PlaceInv'
    BY <1>3, <2>1, <2>2, Names DEF IInv, PlaceInv, LoopInv, TeardownInv, Owns, StrayInv,
           Destroying, Laying, FlagInv, ExecInv
  <2>6. ModeInv' /\ StateInv'
    BY <1>3, <2>1, <2>2, Names DEF IInv, ModeInv, Starting, EStopping, Does, StateInv, Is
  <2>7. Apart => ApartInv'
    BY <1>3, <2>1, <2>2, <2>3 DEF IInv, ApartInv, FatalInv, QuietInv, JoinedInv, LatchInv,
           EStopping, Apart, InReset, InInit, Laying, ResetDeep, InitDeep, MonitorJoined,
           BusJoined
  <2>8. Haltable => HaltInv'
    BY <1>3, <2>1, <2>2, <2>3, Names DEF IInv, PlaceInv, ApartInv, HaltInv, Haltable, Halted,
           MonitorHarmless, HaltsNext, Pending, Starting, Apart, Does
  <2>9. Lively => AliveInv'
    BY <1>3, <2>1, Names DEF IInv, AliveInv, Awake, MonitorRestarts, Lively
  <2>10. Orderly => broken' = {} /\ UseInv'
    BY <1>3, <2>1, <2>2, Names DEF IInv, UseInv, Orderly, Dead, MonitorHarmless, MonitorRestarts,
           ResetDeep
  <2> QED
    BY <2>1, <2>4, <2>5, <2>6, <2>7, <2>8, <2>9, <2>10, EnvStays DEF IInv
<1> QED
  BY <1>1, <1>2, <1>3 DEF FinishStop, Transition, threads, timing, local

\* emergencyShutdown() reports FATAL_ERROR, raises the latch and lowers the flags.
LEMMA KeptByEStopSignals ==
  ASSUME IInv, Stays, NEW t \in Threads, EStopSignals(t)
  PROVE  IInv'
<1>1. ASSUME At(t, "e_fatal"), state' = "FATAL_ERROR", Goto(t, "e_latch"),
           UNCHANGED <<latch, teardown, flag, loop, controller, tasks, paused, units, attempts,
                       failing, exec, broken>>
    PROVE  IInv'
  <2>1. ControlInv' /\ Moved(t, "e_latch", top[t], base[t])
    BY <1>1, Goes DEF IInv, At, SameCall
  <2>2. /\ pc[t] = "e_fatal"
        /\ state' = "FATAL_ERROR"
    BY <1>1 DEF At, IInv
  <2>4. DataInv'
    BY <1>1, <2>1 DEF IInv, DataInv, States
  <2>5. PlaceInv'
    BY <1>1, <2>1, <2>2, Names DEF IInv, PlaceInv, LoopInv, TeardownInv, Owns, StrayInv,
           Destroying, Laying, FlagInv, ExecInv
  <2>6. ModeInv' /\ StateInv'
    BY <1>1, <2>1, <2>2, Names DEF IInv, ModeInv, Starting, EStopping, Does, StateInv, Is
  <2>7. Apart => ApartInv'
    BY <1>1, <2>1, <2>2, Names DEF IInv, ApartInv, FatalInv, QuietInv, JoinedInv, LatchInv,
           EStopping, Apart, InReset, InInit, Laying, ResetDeep, InitDeep, MonitorJoined,
           BusJoined
  <2>8. Haltable => HaltInv'
    BY <1>1, <2>1, <2>2, Names DEF IInv, HaltInv, Haltable, Halted, MonitorHarmless, HaltsNext,
           Pending, Starting
  <2>9. Lively => AliveInv'
    BY <1>1, <2>1, Names DEF IInv, AliveInv, Awake, Lively
  <2>10. Orderly => broken' = {} /\ UseInv'
    BY <1>1, <2>1, <2>2, Names DEF IInv, UseInv, Orderly, Dead, MonitorHarmless, MonitorRestarts,
           ResetDeep
  <2> QED
    BY <2>1, <2>4, <2>5, <2>6, <2>7, <2>8, <2>9, <2>10, EnvStays DEF IInv
<1>2. ASSUME At(t, "e_latch"), latch' = TRUE, Goto(t, "e_flags"),
           UNCHANGED <<state, teardown, flag, loop, controller, tasks, paused, units, attempts,
                       failing, exec, broken>>
    PROVE  IInv'
  <2>1. ControlInv' /\ Moved(t, "e_flags", top[t], base[t])
    BY <1>2, Goes DEF IInv, At, SameCall
  <2>2. /\ pc[t] = "e_latch"
        /\ latch' = TRUE
    BY <1>2 DEF At, IInv
  <2>4. DataInv'
    BY <1>2, <2>1 DEF IInv, DataInv, States
  <2>5. PlaceInv'
    BY <1>2, <2>1, <2>2, Names DEF IInv, PlaceInv, LoopInv, TeardownInv, Owns, StrayInv,
           Destroying, Laying, FlagInv, ExecInv
  <2>6. ModeInv' /\ StateInv'
    BY <1>2, <2>1, <2>2, Names DEF IInv, ModeInv, Starting, EStopping, Does, StateInv, Is, Laying,
           Clearing
  <2>7. Apart => ApartInv'
    BY <1>2, <2>1, <2>2, Names DEF IInv, ApartInv, FatalInv, QuietInv, JoinedInv, LatchInv,
           EStopping, Apart, InReset, InInit, Laying, ResetDeep, InitDeep, MonitorJoined,
           BusJoined
  <2>8. Haltable => HaltInv'
    BY <1>2, <2>1, <2>2, Names DEF IInv, HaltInv, Haltable, Halted, MonitorHarmless, HaltsNext,
           Pending, Starting
  <2>9. Lively => AliveInv'
    BY <1>2, <2>1, <2>2, Names, Disciplines DEF IInv, ApartInv, AliveInv, Awake, Laying, Lively,
           FatalInv, EStopping, QuietInv
  <2>10. Orderly => broken' = {} /\ UseInv'
    BY <1>2, <2>1, <2>2, Names DEF IInv, UseInv, Orderly, Dead, MonitorHarmless, MonitorRestarts,
           ResetDeep
  <2> QED
    BY <2>1, <2>4, <2>5, <2>6, <2>7, <2>8, <2>9, <2>10, EnvStays DEF IInv
<1>3. ASSUME At(t, "e_flags"), RequestStop({"bus", "monitor"}), Goto(t, "e_try"),
           UNCHANGED <<state, latch, teardown, loop, controller, tasks, paused, units, attempts,
                       failing, exec, broken>>
    PROVE  IInv'
  <2>1. ControlInv' /\ Moved(t, "e_try", top[t], base[t])
    BY <1>3, Goes DEF IInv, At, SameCall
  <2>2. /\ pc[t] = "e_flags"
        /\ ~flag'["bus"] /\ ~flag'["monitor"] /\ flag'["scheduler"] = flag["scheduler"]
        /\ flag' \in [Workers -> BOOLEAN]
    BY <1>3, Names DEF At, IInv, DataInv, RequestStop
  <2>4. DataInv'
    BY <1>3, <2>1, <2>2 DEF IInv, DataInv, States
  <2>5. PlaceInv'
    BY <1>3, <2>1, <2>2, Names DEF IInv, PlaceInv, LoopInv, TeardownInv, Owns, StrayInv,
           Destroying, Laying, FlagInv, ExecInv
  <2>6. ModeInv' /\ StateInv'
    BY <1>3, <2>1, <2>2, Names DEF IInv, ModeInv, Starting, EStopping, Does, StateInv, Is, Laying,
           Clearing
  <2>7. Apart => ApartInv'
    BY <1>3, <2>1, <2>2, Names DEF IInv, ApartInv, FatalInv, QuietInv, JoinedInv, LatchInv,
           EStopping, Apart, InReset, InInit, Laying, ResetDeep, InitDeep, MonitorJoined,
           BusJoined
  <2>8. Haltable => HaltInv'
    BY <1>3, <2>1, <2>2, Names DEF IInv, HaltInv, Haltable, Halted, MonitorHarmless, HaltsNext,
           Pending, Starting
  <2>9. Lively => AliveInv'
    BY <1>3, <2>1, <2>2, Names, Disciplines DEF IInv, ApartInv, AliveInv, Awake, Laying, Lively,
           FatalInv, EStopping, QuietInv
  <2>10. Orderly => broken' = {} /\ UseInv'
    BY <1>3, <2>1, <2>2, Names DEF IInv, UseInv, Orderly, Dead, MonitorHarmless, MonitorRestarts,
           ResetDeep
  <2> QED
    BY <2>1, <2>4, <2>5, <2>6, <2>7, <2>8, <2>9, <2>10, EnvStays DEF IInv
<1>4. ASSUME At(t, "e_halt_bus"), RequestStop({"bus"}), Goto(t, "e_bus"),
           UNCHANGED <<state, latch, teardown, loop, controller, tasks, paused, units, attempts,
                       failing, exec, broken>>
    PROVE  IInv'
  <2>1. ControlInv' /\ Moved(t, "e_bus", top[t], base[t])
    BY <1>4, Goes DEF IInv, At, SameCall
  <2>2. /\ pc[t] = "e_halt_bus"
        /\ ~flag'["bus"] /\ flag'["monitor"] = flag["monitor"] /\ flag'["scheduler"] = flag["scheduler"]
        /\ flag' \in [Workers -> BOOLEAN]
    BY <1>4, Names DEF At, IInv, DataInv, RequestStop
  <2>4. DataInv'
    BY <1>4, <2>1, <2>2 DEF IInv, DataInv, States
  <2>5. PlaceInv'
    BY <1>4, <2>1, <2>2, Names DEF IInv, PlaceInv, LoopInv, TeardownInv, Owns, StrayInv,
           Destroying, Laying, FlagInv, ExecInv
  <2>6. ModeInv' /\ StateInv'
    BY <1>4, <2>1, <2>2, Names DEF IInv, ModeInv, Starting, EStopping, Does, StateInv, Is, Laying,
           Clearing
  <2>7. Apart => ApartInv'
    BY <1>4, <2>1, <2>2, Names DEF IInv, ApartInv, FatalInv, QuietInv, JoinedInv, LatchInv,
           EStopping, Apart, InReset, InInit, Laying, ResetDeep, InitDeep, MonitorJoined,
           BusJoined
  <2>8. Haltable => HaltInv'
    BY <1>4, <2>1, <2>2, Names DEF IInv, HaltInv, Haltable, Halted, MonitorHarmless, HaltsNext,
           Pending, Starting
  <2>9. Lively => AliveInv'
    BY <1>4, <2>1, <2>2, Names, Disciplines DEF IInv, ApartInv, AliveInv, Awake, Laying, Lively,
           FatalInv, EStopping, QuietInv
  <2>10. Orderly => broken' = {} /\ UseInv'
    BY <1>4, <2>1, <2>2, Names DEF IInv, UseInv, Orderly, Dead, MonitorHarmless, MonitorRestarts,
           ResetDeep
  <2> QED
    BY <2>1, <2>4, <2>5, <2>6, <2>7, <2>8, <2>9, <2>10, EnvStays DEF IInv
<1> QED
  BY <1>1, <1>2, <1>3, <1>4 DEF EStopSignals, fsm, threads, timing, local

\* It takes shutdownMutex_, or leaves the teardown to its owner.
LEMMA KeptByEStopTakesTeardown ==
  ASSUME IInv, Stays, NEW t \in Threads, EStopTakesTeardown(t)
  PROVE  IInv'
<1>1. ASSUME At(t, "e_try"), teardown = "none", teardown' = t, Goto(t, "e_halt_bus"),
           UNCHANGED <<state, latch, flag, loop, controller, tasks, paused, units, attempts,
                       failing, exec, broken>>
    PROVE  IInv'
  <2>1. ControlInv' /\ Moved(t, "e_halt_bus", top[t], base[t])
    BY <1>1, Goes DEF IInv, At, SameCall
  <2>2. /\ pc[t] = "e_try"
        /\ teardown = "none" /\ teardown' = t
    BY <1>1 DEF At, IInv
  <2>4. DataInv'
    BY <1>1, <2>1 DEF IInv, DataInv, States
  <2>5. PlaceInv'
    BY <1>1, <2>1, <2>2, Names DEF IInv, PlaceInv, LoopInv, TeardownInv, Owns, StrayInv,
           Destroying, Laying, FlagInv, ExecInv
  <2>6. ModeInv' /\ StateInv'
    BY <1>1, <2>1, <2>2, Names DEF IInv, ModeInv, Starting, EStopping, Does, StateInv, Is, Laying,
           Clearing
  <2>7. Apart => ApartInv'
    BY <1>1, <2>1, <2>2, Names DEF IInv, ApartInv, FatalInv, QuietInv, JoinedInv, LatchInv,
           EStopping, Apart, InReset, InInit, Laying, ResetDeep, InitDeep, MonitorJoined,
           BusJoined
  <2>8. Haltable => HaltInv'
    BY <1>1, <2>1 DEF IInv, HaltInv, Haltable, Halted, MonitorHarmless, HaltsNext, Pending
  <2>9. Lively => AliveInv'
    BY <1>1, <2>1, <2>2, Names DEF IInv, AliveInv, Awake, MonitorRestarts, Lively
  <2>10. Orderly => broken' = {} /\ UseInv'
    BY <1>1, <2>1, <2>2, Names DEF IInv, UseInv, Orderly, Dead, MonitorHarmless, MonitorRestarts,
           ResetDeep
  <2> QED
    BY <2>1, <2>4, <2>5, <2>6, <2>7, <2>8, <2>9, <2>10, EnvStays DEF IInv
<1>2. ASSUME At(t, "e_try"), teardown # "none", Return(t),
           UNCHANGED <<state, latch, teardown, flag, loop, controller, tasks, paused, units,
                       attempts, failing, exec, broken>>
    PROVE  IInv'
  <2>1. /\ ControlInv'
        /\ IF top[t] = "e_clear" THEN Moved(t, "e_clear", base[t], base[t])
                                   ELSE Moved(t, top[t], "none", "none")
    BY <1>2, Returns DEF IInv, At
  <2>2. /\ pc[t] = "e_try"
        /\ teardown \in Threads \ {t}
    BY <1>2, Sites DEF At, IInv, DataInv, PlaceInv, TeardownInv, Owns
  <2>3. Site(t)
    BY Sites DEF IInv
  <2>4. DataInv'
    BY <1>2, <2>1 DEF IInv, DataInv, States
  <2>5. PlaceInv'
    BY <1>2, <2>1, <2>2, <2>3, Names DEF IInv, PlaceInv, LoopInv, TeardownInv, Owns, StrayInv,
           Destroying, Laying, FlagInv, ExecInv
  <2>6. ModeInv' /\ StateInv'
    BY <1>2, <2>1, <2>2, <2>3, Names DEF IInv, ModeInv, Starting, EStopping, Does, StateInv, Is,
           Laying, Clearing
  <2>7. Apart => ApartInv'
    BY <1>2, <2>1, <2>2, <2>3, Names DEF IInv, ApartInv, FatalInv, QuietInv, JoinedInv, LatchInv,
           EStopping, Apart, InReset, InInit, Laying, ResetDeep, InitDeep, MonitorJoined,
           BusJoined
  <2>8. Haltable => HaltInv'
    BY <1>2, <2>1, <2>2, <2>3, Names DEF IInv, HaltInv, Haltable, Halted, MonitorHarmless,
           HaltsNext, Pending, Starting
  <2>9. Lively => AliveInv'
    BY <1>2, <2>1, <2>2, <2>3, Names DEF IInv, AliveInv, Awake, MonitorRestarts, Lively
  <2>10. Orderly => broken' = {} /\ UseInv'
    BY <1>2, <2>1, <2>2, <2>3, Names DEF IInv, UseInv, Orderly, Dead, MonitorHarmless,
           MonitorRestarts, ResetDeep
  <2> QED
    BY <2>1, <2>4, <2>5, <2>6, <2>7, <2>8, <2>9, <2>10, EnvStays DEF IInv
<1> QED
  BY <1>1, <1>2 DEF EStopTakesTeardown, threads, timing, local

\* It joins the loops and stops the scheduler.
LEMMA KeptByEStopJoins ==
  ASSUME IInv, Stays, NEW t \in Threads, EStopJoins(t)
  PROVE  IInv'
<1>1. ASSUME At(t, "e_bus"), Join(t, "bus"), Goto(t, "e_monitor"),
           UNCHANGED <<state, latch, teardown, flag, controller, tasks, paused, units, attempts,
                       failing, exec, broken>>
    PROVE  IInv'
  <2>1. ControlInv' /\ Moved(t, "e_monitor", top[t], base[t])
    BY <1>1, Goes DEF IInv, At, SameCall
  <2>2. /\ pc[t] = "e_bus"
        /\ t = "bus" \/ loop["bus"] # "running"
        /\ \A w \in Workers : loop'[w] = "running" <=> loop[w] = "running"
        /\ loop' \in [Workers -> {"none", "running", "ended"}]
    BY <1>1 DEF At, IInv, DataInv, Join
  <2>4. DataInv'
    BY <1>1, <2>1, <2>2 DEF IInv, DataInv, States
  <2>5. PlaceInv'
    BY <1>1, <2>1, <2>2, Names DEF IInv, PlaceInv, LoopInv, TeardownInv, Owns, StrayInv,
           Destroying, Laying, FlagInv, ExecInv
  <2>6. ModeInv' /\ StateInv'
    BY <1>1, <2>1, <2>2, Names DEF IInv, ModeInv, Starting, EStopping, Does, StateInv, Is, Laying,
           Clearing
  <2>7. Apart => ApartInv'
    BY <1>1, <2>1, <2>2, Names DEF IInv, ApartInv, FatalInv, QuietInv, JoinedInv, LatchInv,
           EStopping, Apart, InReset, InInit, Laying, ResetDeep, InitDeep, MonitorJoined,
           BusJoined
  <2>8. Haltable => HaltInv'
    BY <1>1, <2>1, <2>2, Names DEF IInv, HaltInv, Haltable, Halted, MonitorHarmless, HaltsNext,
           Pending, Starting
  <2>9. Lively => AliveInv'
    BY <1>1, <2>1, <2>2, Names DEF IInv, AliveInv, Awake, MonitorRestarts, Lively
  <2>10. Orderly => broken' = {} /\ UseInv'
    BY <1>1, <2>1, <2>2, Names DEF IInv, UseInv, Orderly, Dead, MonitorHarmless, MonitorRestarts,
           ResetDeep
  <2> QED
    BY <2>1, <2>4, <2>5, <2>6, <2>7, <2>8, <2>9, <2>10, EnvStays DEF IInv
<1>2. ASSUME At(t, "e_monitor"), Join(t, "monitor"), Call(t, "t_null", "e_clear"),
           UNCHANGED <<state, latch, teardown, flag, controller, tasks, paused, units, attempts,
                       failing, exec, broken>>
    PROVE  IInv'
  <2>1. ControlInv' /\ Moved(t, "t_null", "e_clear", base[t])
    BY <1>2, Backs, Enters DEF IInv, At
  <2>2. /\ pc[t] = "e_monitor"
        /\ t = "monitor" \/ loop["monitor"] # "running"
        /\ \A w \in Workers : loop'[w] = "running" <=> loop[w] = "running"
        /\ loop' \in [Workers -> {"none", "running", "ended"}]
    BY <1>2 DEF At, IInv, DataInv, Join
  <2>4. DataInv'
    BY <1>2, <2>1, <2>2 DEF IInv, DataInv, States
  <2>5. PlaceInv'
    BY <1>2, <2>1, <2>2, Names DEF IInv, PlaceInv, LoopInv, TeardownInv, Owns, StrayInv,
           Destroying, Laying, FlagInv, ExecInv
  <2>6. ModeInv' /\ StateInv'
    BY <1>2, <2>1, <2>2, Names DEF IInv, ModeInv, Starting, EStopping, Does, StateInv, Is, Laying,
           Clearing
  <2>7. Apart => ApartInv'
    BY <1>2, <2>1, <2>2, Names DEF IInv, ApartInv, FatalInv, QuietInv, JoinedInv, LatchInv,
           EStopping, Apart, InReset, InInit, Laying, ResetDeep, InitDeep, MonitorJoined,
           BusJoined
  <2>8. Haltable => HaltInv'
    BY <1>2, <2>1, <2>2, Names DEF IInv, HaltInv, Haltable, Halted, MonitorHarmless, HaltsNext,
           Pending, Starting
  <2>9. Lively => AliveInv'
    BY <1>2, <2>1, <2>2, Names DEF IInv, AliveInv, Awake, MonitorRestarts, Lively
  <2>10. Orderly => broken' = {} /\ UseInv'
    BY <1>2, <2>1, <2>2, Names DEF IInv, UseInv, Orderly, Dead, MonitorHarmless, MonitorRestarts,
           ResetDeep
  <2> QED
    BY <2>1, <2>4, <2>5, <2>6, <2>7, <2>8, <2>9, <2>10, EnvStays DEF IInv
<1> QED
  BY <1>1, <1>2 DEF EStopJoins, fsm, timing, local

\* It destroys the units and gives the mutex back.
LEMMA KeptByEStopClears ==
  ASSUME IInv, Stays, NEW t \in Threads, EStopClears(t)
  PROVE  IInv'
<1>1. ASSUME At(t, "e_clear"), units' = {}, Goto(t, "e_unlock"),
           UNCHANGED <<state, latch, teardown, flag, loop, controller, tasks, paused, attempts,
                       failing, exec, broken>>
    PROVE  IInv'
  <2>1. ControlInv' /\ Moved(t, "e_unlock", top[t], base[t])
    BY <1>1, Goes DEF IInv, At, SameCall
  <2>2. /\ pc[t] = "e_clear"
        /\ units' = {}
    BY <1>1 DEF At, IInv
  <2>4. DataInv'
    BY <1>1, <2>1 DEF IInv, DataInv, States
  <2>5. PlaceInv'
    BY <1>1, <2>1, <2>2, Names DEF IInv, PlaceInv, LoopInv, TeardownInv, Owns, StrayInv,
           Destroying, Laying, FlagInv, ExecInv
  <2>6. ModeInv' /\ StateInv'
    BY <1>1, <2>1, <2>2, Names DEF IInv, ModeInv, Starting, EStopping, Does, StateInv, Is, Laying,
           Clearing
  <2>7. Apart => ApartInv'
    BY <1>1, <2>1, <2>2, Names DEF IInv, ApartInv, FatalInv, QuietInv, JoinedInv, LatchInv,
           EStopping, Apart, InReset, InInit, Laying, ResetDeep, InitDeep, MonitorJoined,
           BusJoined
  <2>8. Haltable => HaltInv'
    BY <1>1, <2>1, <2>2, Names DEF IInv, HaltInv, Haltable, Halted, MonitorHarmless, HaltsNext,
           Pending, Starting
  <2>9. Lively => AliveInv'
    BY <1>1, <2>1, <2>2, Names DEF IInv, AliveInv, Awake, MonitorRestarts, Lively
  <2>10. Orderly => broken' = {} /\ UseInv'
    BY <1>1, <2>1, <2>2, Names, Disciplines DEF IInv, PlaceInv, ApartInv, UseInv, Orderly, Does,
           Dead, MonitorHarmless, MonitorRestarts, ModeInv, Starting, EStopping, JoinedInv,
           LoopInv, FatalInv
  <2> QED
    BY <2>1, <2>4, <2>5, <2>6, <2>7, <2>8, <2>9, <2>10, EnvStays DEF IInv
<1>2. ASSUME At(t, "e_unlock"), teardown' = "none", Return(t),
           UNCHANGED <<state, latch, flag, loop, controller, tasks, paused, units, attempts,
                       failing, exec, broken>>
    PROVE  IInv'
  <2>1. /\ ControlInv'
        /\ IF top[t] = "e_clear" THEN Moved(t, "e_clear", base[t], base[t])
                                   ELSE Moved(t, top[t], "none", "none")
    BY <1>2, Returns DEF IInv, At
  <2>2. /\ pc[t] = "e_unlock"
        /\ teardown = t /\ teardown' = "none"
    BY <1>2 DEF At, IInv, PlaceInv, TeardownInv, Owns
  <2>3. Site(t)
    BY Sites DEF IInv
  <2>4. DataInv'
    BY <1>2, <2>1 DEF IInv, DataInv, States
  <2>5. PlaceInv'
    BY <1>2, <2>1, <2>2, <2>3, Names DEF IInv, PlaceInv, LoopInv, TeardownInv, Owns, StrayInv,
           Destroying, Laying, FlagInv, ExecInv
  <2>6. ModeInv' /\ StateInv'
    BY <1>2, <2>1, <2>2, <2>3, Names DEF IInv, ModeInv, Starting, EStopping, Does, StateInv, Is,
           Laying, Clearing
  <2>7. Apart => ApartInv'
    <3>1. Apart => FatalInv'
      BY <1>2, <2>1, <2>2 DEF IInv, ApartInv, FatalInv, EStopping, Apart
    <3>2. Apart => QuietInv'
      <4>1. Apart /\ ResetDeep' => ~EStopping("scheduler")'
        BY <1>2, <2>1, <2>2, Names, Sites DEF IInv, PlaceInv, ApartInv, ResetDeep, JoinedInv,
               LoopInv, EStopping
      <4> QED
        BY <1>2, <2>1, <2>2, <2>3, Names, <4>1 DEF IInv, ApartInv, QuietInv, EStopping, InReset,
               InInit, Laying, InitDeep, MonitorJoined, BusJoined
    <3>3. Apart => JoinedInv'
      BY <1>2, <2>1, <2>2, <2>3, Names DEF IInv, ApartInv, JoinedInv
    <3>4. Apart => LatchInv'
      BY <1>2, <2>1, <2>2 DEF IInv, ApartInv, LatchInv, Apart
    <3> QED
      BY <3>1, <3>2, <3>3, <3>4 DEF ApartInv
  <2>8. Haltable => HaltInv'
    BY <1>2, <2>1, <2>2, <2>3, Names DEF IInv, HaltInv, Haltable, Halted, MonitorHarmless,
           HaltsNext, Starting
  <2>9. Lively => AliveInv'
    BY <1>2, <2>1, <2>2, <2>3, Names DEF IInv, AliveInv, Awake, MonitorRestarts, Lively
  <2>10. Orderly => broken' = {} /\ UseInv'
    BY <1>2, <2>1, <2>2, <2>3, Names, Disciplines DEF IInv, ApartInv, UseInv, Orderly, Does, Dead,
           MonitorHarmless, MonitorRestarts, ModeInv, Starting, EStopping, JoinedInv
  <2> QED
    BY <2>1, <2>4, <2>5, <2>6, <2>7, <2>8, <2>9, <2>10, EnvStays DEF IInv
<1> QED
  BY <1>1, <1>2 DEF EStopClears, threads, timing, local

\* The inside of TimingController::stop().
LEMMA KeptByTimingStop ==
  ASSUME IInv, Stays, NEW t \in Threads, TimingStop(t)
  PROVE  IInv'
<1>1. ASSUME At(t, "t_null"), controller, Goto(t, "t_halt"),
           UNCHANGED <<state, latch, teardown, flag, loop, controller, tasks, paused, units,
                       attempts, failing, exec, broken>>
    PROVE  IInv'
  <2>1. ControlInv' /\ Moved(t, "t_halt", top[t], base[t])
    BY <1>1, Goes DEF IInv, At, SameCall
  <2>2. /\ pc[t] = "t_null"
        /\ controller
    BY <1>1 DEF At, IInv
  <2>4. DataInv'
    BY <1>1, <2>1 DEF IInv, DataInv, States
  <2>5. PlaceInv'
    BY <1>1, <2>1, <2>2, Names DEF IInv, PlaceInv, LoopInv, TeardownInv, Owns, StrayInv, FlagInv,
           ExecInv
  <2>6. ModeInv' /\ StateInv'
    BY <1>1, <2>1, <2>2, Names DEF IInv, ModeInv, Starting, EStopping, Does, StateInv, Is, Laying,
           Clearing
  <2>7. Apart => ApartInv'
    BY <1>1, <2>1, <2>2, Names DEF IInv, ApartInv, FatalInv, QuietInv, JoinedInv, LatchInv,
           EStopping, Apart, InReset, InInit, Laying, ResetDeep, InitDeep, MonitorJoined,
           BusJoined
  <2>8. Haltable => HaltInv'
    BY <1>1, <2>1, <2>2, Names DEF IInv, HaltInv, Haltable, Halted, MonitorHarmless, HaltsNext,
           Pending, Starting
  <2>9. Lively => AliveInv'
    BY <1>1, <2>1, <2>2, Names DEF IInv, AliveInv, Awake, MonitorRestarts, Lively
  <2>10. Orderly => broken' = {} /\ UseInv'
    BY <1>1, <2>1, <2>2, Names DEF IInv, UseInv, Orderly, Dead, MonitorHarmless, ResetDeep
  <2> QED
    BY <2>1, <2>4, <2>5, <2>6, <2>7, <2>8, <2>9, <2>10, EnvStays DEF IInv
<1>2. ASSUME At(t, "t_null"), ~controller, Return(t),
           UNCHANGED <<state, latch, teardown, flag, loop, controller, tasks, paused, units,
                       attempts, failing, exec, broken>>
    PROVE  IInv'
  <2>1. /\ ControlInv'
        /\ IF top[t] = "e_clear" THEN Moved(t, "e_clear", base[t], base[t])
                                   ELSE Moved(t, top[t], "none", "none")
    BY <1>2, Returns DEF IInv, At
  <2>2. /\ pc[t] = "t_null"
        /\ ~controller
    BY <1>2 DEF At, IInv
  <2>3. Site(t)
    BY Sites DEF IInv
  <2>4. DataInv'
    BY <1>2, <2>1 DEF IInv, DataInv, States
  <2>5. PlaceInv'
    BY <1>2, <2>1, <2>2, <2>3, Names DEF IInv, PlaceInv, LoopInv, TeardownInv, Owns, StrayInv,
           Destroying, Laying, FlagInv, ExecInv
  <2>6. ModeInv' /\ StateInv'
    BY <1>2, <2>1, <2>2, <2>3, Names DEF IInv, ModeInv, Starting, EStopping, Does, StateInv, Is,
           Laying, Clearing
  <2>7. Apart => ApartInv'
    <3>1. Apart => FatalInv'
      BY <1>2, <2>1, <2>3 DEF IInv, ApartInv, FatalInv, EStopping, Apart
    <3>2. Apart => QuietInv'
      BY <1>2, <2>1, <2>2, <2>3, Names DEF IInv, ApartInv, QuietInv, EStopping, Apart, InReset,
             InInit, Laying, ResetDeep, InitDeep, MonitorJoined, BusJoined
    <3>3. Apart => JoinedInv'
      BY <1>2, <2>1, <2>3, Gone DEF IInv, PlaceInv, ApartInv, JoinedInv, EStopping, StrayInv,
             Destroying, Apart
    <3>4. Apart => LatchInv'
      BY <1>2, <2>1, <2>3 DEF IInv, ApartInv, LatchInv, Apart
    <3> QED
      BY <3>1, <3>2, <3>3, <3>4 DEF ApartInv
  <2>8. Haltable => HaltInv'
    BY <1>2, <2>1, <2>2, <2>3, Names, Gone DEF IInv, PlaceInv, ApartInv, HaltInv, Haltable,
           Halted, MonitorHarmless, HaltsNext, Pending, JoinedInv, FlagInv, LoopInv, StrayInv,
           ModeInv, EStopping, QuietInv, MonitorJoined, Destroying
  <2>9. Lively => AliveInv'
    BY <1>2, <2>1, <2>3, Names DEF IInv, AliveInv, Awake, Lively
  <2>10. Orderly => broken' = {} /\ UseInv'
    BY <1>2, <2>1, <2>2, <2>3, Names DEF IInv, UseInv, Orderly, Dead, MonitorHarmless,
           MonitorRestarts, ResetDeep
  <2> QED
    BY <2>1, <2>4, <2>5, <2>6, <2>7, <2>8, <2>9, <2>10, EnvStays DEF IInv
<1>3. ASSUME At(t, "t_halt"), broken' = (IF controller THEN broken ELSE broken \cup {"null_controller"}),
           RequestStop({"scheduler"}), t = "scheduler", Return(t),
           UNCHANGED <<state, latch, teardown, loop, controller, tasks, paused, units, attempts,
                       failing, exec>>
    PROVE  IInv'
  <2>1. /\ ControlInv'
        /\ IF top[t] = "e_clear" THEN Moved(t, "e_clear", base[t], base[t])
                                   ELSE Moved(t, top[t], "none", "none")
    BY <1>3, Returns DEF IInv, At
  <2>2. /\ pc[t] = "t_halt"
        /\ t = "scheduler"
        /\ broken' \in {broken, broken \cup {"null_controller"}} /\ (controller => broken' = broken)
        /\ ~flag'["scheduler"] /\ flag'["bus"] = flag["bus"] /\ flag'["monitor"] = flag["monitor"]
        /\ flag' \in [Workers -> BOOLEAN]
    BY <1>3, Names DEF At, IInv, DataInv, RequestStop
  <2>3. Site(t)
    BY Sites DEF IInv
  <2>4. DataInv'
    BY <1>3, <2>1, <2>2 DEF IInv, DataInv, States
  <2>5. PlaceInv'
    BY <1>3, <2>1, <2>2, <2>3, Names DEF IInv, PlaceInv, LoopInv, TeardownInv, Owns, StrayInv,
           Destroying, Laying, FlagInv, ExecInv
  <2>6. ModeInv' /\ StateInv'
    BY <1>3, <2>1, <2>3, Names DEF IInv, ModeInv, Starting, EStopping, Does, StateInv, Is, Laying,
           Clearing
  <2>7. Apart => ApartInv'
    BY <1>3, <2>1, <2>2, <2>3, Names DEF IInv, ApartInv, FatalInv, QuietInv, JoinedInv, LatchInv,
           EStopping, Apart, InReset, InInit, Laying, ResetDeep, InitDeep, BusJoined
  <2>8. Haltable => HaltInv'
    BY <1>3, <2>1, <2>2, <2>3 DEF IInv, ApartInv, HaltInv, Haltable, Halted, MonitorHarmless,
           HaltsNext, JoinedInv
  <2>9. Lively => AliveInv'
    BY <1>3, <2>1, <2>2, <2>3, Names, Disciplines DEF IInv, ApartInv, AliveInv, Awake, Lively,
           FatalInv, EStopping
  <2>10. Orderly => broken' = {} /\ UseInv'
    BY <1>3, <2>1, <2>2, Names DEF IInv, UseInv, Orderly, Dead, MonitorHarmless, ResetDeep
  <2> QED
    BY <2>1, <2>4, <2>5, <2>6, <2>7, <2>8, <2>9, <2>10, EnvStays DEF IInv
<1>4. ASSUME At(t, "t_halt"), broken' = (IF controller THEN broken ELSE broken \cup {"null_controller"}),
           RequestStop({"scheduler"}), t # "scheduler", Goto(t, "t_lock"),
           UNCHANGED <<state, latch, teardown, loop, controller, tasks, paused, units, attempts,
                       failing, exec>>
    PROVE  IInv'
  <2>1. ControlInv' /\ Moved(t, "t_lock", top[t], base[t])
    BY <1>4, Goes DEF IInv, At, SameCall
  <2>2. /\ pc[t] = "t_halt"
        /\ t # "scheduler"
        /\ broken' \in {broken, broken \cup {"null_controller"}} /\ (controller => broken' = broken)
        /\ ~flag'["scheduler"] /\ flag'["bus"] = flag["bus"] /\ flag'["monitor"] = flag["monitor"]
        /\ flag' \in [Workers -> BOOLEAN]
    BY <1>4, Names DEF At, IInv, DataInv, RequestStop
  <2>3. Site(t)
    BY Sites DEF IInv
  <2>4. DataInv'
    BY <1>4, <2>1, <2>2 DEF IInv, DataInv, States
  <2>5. PlaceInv'
    BY <1>4, <2>1, <2>2, Names DEF IInv, PlaceInv, LoopInv, TeardownInv, Owns, StrayInv,
           Destroying, Laying, FlagInv, ExecInv
  <2>6. ModeInv' /\ StateInv'
    BY <1>4, <2>1, <2>2, Names DEF IInv, ModeInv, Starting, EStopping, Does, StateInv, Is, Laying,
           Clearing
  <2>7. Apart => ApartInv'
    BY <1>4, <2>1, <2>2, Names DEF IInv, ApartInv, FatalInv, QuietInv, JoinedInv, LatchInv,
           EStopping, Apart, InReset, InInit, Laying, ResetDeep, InitDeep, MonitorJoined,
           BusJoined
  <2>8. Haltable => HaltInv'
    BY <1>4, <2>1, <2>2, Names DEF IInv, HaltInv, Haltable, Halted, MonitorHarmless, HaltsNext,
           Pending, Starting
  <2>9. Lively => AliveInv'
    BY <1>4, <2>1, <2>2, <2>3, Names, Disciplines DEF IInv, ApartInv, AliveInv, Awake,
           MonitorRestarts, Lively, StateInv, Is, FatalInv, EStopping
  <2>10. Orderly => broken' = {} /\ UseInv'
    BY <1>4, <2>1, <2>2, Names DEF IInv, UseInv, Orderly, Dead, MonitorHarmless, ResetDeep
  <2> QED
    BY <2>1, <2>4, <2>5, <2>6, <2>7, <2>8, <2>9, <2>10, EnvStays DEF IInv
<1>5. ASSUME At(t, "d_halt"), RequestStop({"scheduler"}), Goto(t, "t_lock"),
           UNCHANGED <<state, latch, teardown, loop, controller, tasks, paused, units, attempts,
                       failing, exec, broken>>
    PROVE  IInv'
  <2>1. ControlInv' /\ Moved(t, "t_lock", top[t], base[t])
    BY <1>5, Goes DEF IInv, At, SameCall
  <2>2. /\ pc[t] = "d_halt"
        /\ ~flag'["scheduler"] /\ flag'["bus"] = flag["bus"] /\ flag'["monitor"] = flag["monitor"]
        /\ flag' \in [Workers -> BOOLEAN]
    BY <1>5, Names DEF At, IInv, DataInv, RequestStop
  <2>3. Site(t)
    BY Sites DEF IInv
  <2>4. DataInv'
    BY <1>5, <2>1, <2>2 DEF IInv, DataInv, States
  <2>5. PlaceInv'
    BY <1>5, <2>1, <2>2, Names DEF IInv, PlaceInv, LoopInv, TeardownInv, Owns, StrayInv,
           Destroying, Laying, FlagInv, ExecInv
  <2>6. ModeInv' /\ StateInv'
    BY <1>5, <2>1, <2>2, Names DEF IInv, ModeInv, Starting, EStopping, Does, StateInv, Is, Laying,
           Clearing
  <2>7. Apart => ApartInv'
    BY <1>5, <2>1, <2>2, Names DEF IInv, ApartInv, FatalInv, QuietInv, JoinedInv, LatchInv,
           EStopping, Apart, InReset, InInit, Laying, ResetDeep, InitDeep, MonitorJoined,
           BusJoined
  <2>8. Haltable => HaltInv'
    BY <1>5, <2>1, <2>2, Names DEF IInv, HaltInv, Haltable, Halted, MonitorHarmless, HaltsNext,
           Pending, Starting
  <2>9. Lively => AliveInv'
    BY <1>5, <2>1, <2>2, <2>3 DEF IInv, AliveInv, Awake, Lively, StateInv, Is, Clearing
  <2>10. Orderly => broken' = {} /\ UseInv'
    BY <1>5, <2>1, <2>2, Names DEF IInv, UseInv, Orderly, Dead, MonitorHarmless, MonitorRestarts,
           ResetDeep
  <2> QED
    BY <2>1, <2>4, <2>5, <2>6, <2>7, <2>8, <2>9, <2>10, EnvStays DEF IInv
<1>6. ASSUME At(t, "t_lock"), SchedulerFree(t), RequestStop({"scheduler"}), Goto(t, "t_join"),
           UNCHANGED <<state, latch, teardown, loop, controller, tasks, paused, units, attempts,
                       failing, exec, broken>>
    PROVE  IInv'
  <2>1. ControlInv' /\ Moved(t, "t_join", top[t], base[t])
    BY <1>6, Goes DEF IInv, At, SameCall
  <2>2. /\ pc[t] = "t_lock"
        /\ ~flag'["scheduler"] /\ flag'["bus"] = flag["bus"] /\ flag'["monitor"] = flag["monitor"]
        /\ flag' \in [Workers -> BOOLEAN]
    BY <1>6, Names DEF At, IInv, DataInv, RequestStop
  <2>3. Site(t)
    BY Sites DEF IInv
  <2>4. DataInv'
    BY <1>6, <2>1, <2>2 DEF IInv, DataInv, States
  <2>5. PlaceInv'
    BY <1>6, <2>1, <2>2, Names DEF IInv, PlaceInv, LoopInv, TeardownInv, Owns, StrayInv,
           Destroying, Laying, FlagInv, ExecInv
  <2>6. ModeInv' /\ StateInv'
    BY <1>6, <2>1, <2>2, Names DEF IInv, ModeInv, Starting, EStopping, Does, StateInv, Is, Laying,
           Clearing
  <2>7. Apart => ApartInv'
    BY <1>6, <2>1, <2>2, Names DEF IInv, ApartInv, FatalInv, QuietInv, JoinedInv, LatchInv,
           EStopping, Apart, InReset, InInit, Laying, ResetDeep, InitDeep, MonitorJoined,
           BusJoined
  <2>8. Haltable => HaltInv'
    BY <1>6, <2>1, <2>2, Names DEF IInv, HaltInv, Haltable, Halted, MonitorHarmless, HaltsNext,
           Pending, Starting
  <2>9. Lively => AliveInv'
    BY <1>6, <2>1, <2>2, <2>3, Names, Disciplines DEF IInv, ApartInv, AliveInv, Awake,
           MonitorRestarts, Lively, StateInv, Is, Clearing, FatalInv, EStopping
  <2>10. Orderly => broken' = {} /\ UseInv'
    BY <1>6, <2>1, <2>2, Names DEF IInv, UseInv, Orderly, Dead, MonitorHarmless, MonitorRestarts,
           ResetDeep
  <2> QED
    BY <2>1, <2>4, <2>5, <2>6, <2>7, <2>8, <2>9, <2>10, EnvStays DEF IInv
<1>7. ASSUME At(t, "t_join"), Join(t, "scheduler"), Return(t),
           UNCHANGED <<state, latch, teardown, flag, controller, tasks, paused, units, attempts,
                       failing, exec, broken>>
    PROVE  IInv'
  <2>1. /\ ControlInv'
        /\ IF top[t] = "e_clear" THEN Moved(t, "e_clear", base[t], base[t])
                                   ELSE Moved(t, top[t], "none", "none")
    BY <1>7, Returns DEF IInv, At
  <2>2. /\ pc[t] = "t_join"
        /\ t = "scheduler" \/ loop["scheduler"] # "running"
        /\ \A w \in Workers : loop'[w] = "running" <=> loop[w] = "running"
        /\ loop' \in [Workers -> {"none", "running", "ended"}]
    BY <1>7 DEF At, IInv, DataInv, Join
  <2>3. Site(t)
    BY Sites DEF IInv
  <2>4. DataInv'
    BY <1>7, <2>1, <2>2 DEF IInv, DataInv, States
  <2>5. PlaceInv'
    BY <1>7, <2>1, <2>2, <2>3, Names DEF IInv, PlaceInv, LoopInv, TeardownInv, Owns, StrayInv,
           Destroying, Laying, FlagInv, ExecInv
  <2>6. ModeInv' /\ StateInv'
    BY <1>7, <2>1, <2>2, <2>3, Names DEF IInv, ModeInv, Starting, EStopping, Does, StateInv, Is,
           Laying, Clearing
  <2>7. Apart => ApartInv'
    <3>1. Apart => FatalInv'
      BY <1>7, <2>1, <2>3 DEF IInv, ApartInv, FatalInv, EStopping, Apart
    <3>2. Apart => QuietInv'
      BY <1>7, <2>1, <2>2, <2>3, Names, Outside DEF IInv, PlaceInv, ApartInv, QuietInv, LoopInv,
             EStopping, Apart, InReset, InInit, Laying, ResetDeep, InitDeep, MonitorJoined,
             BusJoined
    <3>3. Apart => JoinedInv'
      BY <1>7, <2>1, <2>2, <2>3, Names DEF IInv, ApartInv, JoinedInv
    <3>4. Apart => LatchInv'
      BY <1>7, <2>1, <2>3 DEF IInv, ApartInv, LatchInv, Apart
    <3> QED
      BY <3>1, <3>2, <3>3, <3>4 DEF ApartInv
  <2>8. Haltable => HaltInv'
    BY <1>7, <2>1, <2>2, <2>3, Names DEF IInv, PlaceInv, ApartInv, HaltInv, Haltable, Halted,
           MonitorHarmless, HaltsNext, Pending, JoinedInv, FlagInv, LoopInv, ModeInv, EStopping,
           QuietInv, MonitorJoined
  <2>9. Lively => AliveInv'
    BY <1>7, <2>1, <2>2, <2>3, Names DEF IInv, AliveInv, Awake, MonitorRestarts, Lively
  <2>10. Orderly => broken' = {} /\ UseInv'
    BY <1>7, <2>1, <2>2, <2>3, Names DEF IInv, UseInv, Orderly, Dead, MonitorHarmless,
           MonitorRestarts, ResetDeep
  <2> QED
    BY <2>1, <2>4, <2>5, <2>6, <2>7, <2>8, <2>9, <2>10, EnvStays DEF IInv
<1> QED
  BY <1>1, <1>2, <1>3, <1>4, <1>5, <1>6, <1>7 DEF TimingStop, StopTiming, fsm, timing, local

\* The destruction of the controller.
LEMMA KeptByDrop ==
  ASSUME IInv, Stays, Drop(Op)
  PROVE  IInv'
<1>1. ASSUME At(Op, "d_drop"), controller, DropController(Op, FALSE), Goto(Op, "d_halt"),
           UNCHANGED <<state, latch, teardown, flag, loop, units, attempts, failing, exec>>
    PROVE  IInv'
  <2>1. ControlInv' /\ Moved(Op, "d_halt", top[Op], base[Op])
    BY <1>1, Names, Goes DEF IInv, At, SameCall
  <2>2. /\ pc[Op] = "d_drop"
        /\ controller
        /\ controller' = FALSE /\ tasks' = {} /\ paused' = FALSE
        /\ broken' \in {broken, broken \cup {"freed_controller"}}
    BY <1>1 DEF At, IInv, DropController
  <2>3. Site(Op)
    BY Sites, Names DEF IInv
  <2>4. DataInv'
    BY <1>1, <2>1, <2>2, <2>3, Names, Disciplines DEF IInv, PlaceInv, ApartInv, DataInv, States
  <2>5. PlaceInv'
    BY <1>1, <2>1, <2>2, <2>3, Names DEF IInv, PlaceInv, LoopInv, TeardownInv, Owns, StrayInv,
           Destroying, Laying, FlagInv, ExecInv
  <2>6. ModeInv' /\ StateInv'
    BY <1>1, <2>1, <2>2, Names DEF IInv, ModeInv, Starting, EStopping, Does, StateInv, Is, Laying,
           Clearing
  <2>7. Apart => ApartInv'
    BY <1>1, <2>1, <2>2, Names DEF IInv, ApartInv, FatalInv, QuietInv, JoinedInv, LatchInv,
           EStopping, StateInv, Apart, InReset, InInit, Laying, ResetDeep, InitDeep,
           MonitorJoined, BusJoined
  <2>8. Haltable => HaltInv'
    BY <1>1, <2>1, <2>2, Names DEF IInv, HaltInv, Haltable, Halted, MonitorHarmless, HaltsNext,
           Pending, Starting
  <2>9. Lively => AliveInv'
    BY <1>1, <2>1, <2>2, <2>3 DEF IInv, AliveInv, Awake, Lively, StateInv, Is, Clearing
  <2>10. Orderly => broken' = {} /\ UseInv'
    <3>0. base[Op] \in DropBack(Op) \ {"i_transition"}
      BY <2>2, <2>3 DEF IInv, PlaceInv, StrayInv
    <3>1. Orderly => \A t \in Threads \ {Op} : pc[t] \notin Halts
      BY <3>0, Alone, Disciplines DEF IInv, ModeInv, Orderly, Does
    <3>2. Orderly => broken' = {}
      BY <1>1, <3>1 DEF DropController, InController
    <3>3. Orderly => ~MonitorRestarts
      <4>1. Apart => pc["monitor"] = "loop"
        BY <3>0, Names DEF IInv, ApartInv, QuietInv, MonitorJoined, PlaceInv, LoopInv
      <4> QED
        BY <4>1, Sites, Names, Disciplines DEF IInv, MonitorRestarts
    <3> QED
      BY <1>1, <2>1, <2>2, <2>3, Names, <3>0, <3>1, <3>2, <3>3
         DEF IInv, UseInv, MonitorHarmless, MonitorRestarts, ResetDeep, Clearing, StateInv, Is
  <2> QED
    BY <2>1, <2>4, <2>5, <2>6, <2>7, <2>8, <2>9, <2>10, EnvStays DEF IInv
<1>2. ASSUME At(Op, "d_drop"), ~controller, Return(Op),
           UNCHANGED <<state, latch, teardown, flag, loop, controller, tasks, paused, units,
                       attempts, failing, exec, broken>>
    PROVE  IInv'
  <2>1. /\ ControlInv'
        /\ IF top[Op] = "e_clear" THEN Moved(Op, "e_clear", base[Op], base[Op])
                                   ELSE Moved(Op, top[Op], "none", "none")
    BY <1>2, Names, Backs, Returns DEF IInv, At
  <2>2. /\ pc[Op] = "d_drop"
        /\ ~controller
    BY <1>2 DEF At, IInv
  <2>3. Site(Op)
    BY Sites, Names DEF IInv
  <2>4. DataInv'
    BY <1>2, <2>1 DEF IInv, DataInv, States
  <2>5. PlaceInv'
    BY <1>2, <2>1, <2>2, <2>3, Names DEF IInv, PlaceInv, LoopInv, TeardownInv, Owns, StrayInv,
           Destroying, Laying, FlagInv, ExecInv
  <2>6. ModeInv' /\ StateInv'
    BY <1>2, <2>1, <2>2, <2>3, Names DEF IInv, ModeInv, Starting, EStopping, Does, StateInv, Is,
           Laying, Clearing
  <2>7. Apart => ApartInv'
    <3>1. Apart => FatalInv'
      BY <1>2, <2>1, <2>3 DEF IInv, ApartInv, FatalInv, EStopping, Apart
    <3>2. Apart => QuietInv'
      BY <1>2, <2>1, <2>2, <2>3, Names DEF IInv, PlaceInv, ApartInv, QuietInv, StrayInv,
             EStopping, Apart, InReset, InInit, Laying, ResetDeep, InitDeep, MonitorJoined,
             BusJoined
    <3>3. Apart => JoinedInv'
      BY <1>2, <2>1, <2>2, <2>3 DEF IInv, ApartInv, JoinedInv
    <3>4. Apart => LatchInv'
      BY <1>2, <2>1, <2>3 DEF IInv, ApartInv, LatchInv, Apart
    <3> QED
      BY <3>1, <3>2, <3>3, <3>4 DEF ApartInv
  <2>8. Haltable => HaltInv'
    BY <1>2, <2>1, <2>2, <2>3, Names DEF IInv, HaltInv, Haltable, Halted, MonitorHarmless,
           HaltsNext, Pending, Starting
  <2>9. Lively => AliveInv'
    BY <1>2, <2>1, <2>3 DEF IInv, AliveInv, Awake, Lively
  <2>10. Orderly => broken' = {} /\ UseInv'
    BY <1>2, <2>1, <2>2, <2>3, Names DEF IInv, UseInv, Orderly, Dead, MonitorHarmless,
           MonitorRestarts, ResetDeep
  <2> QED
    BY <2>1, <2>4, <2>5, <2>6, <2>7, <2>8, <2>9, <2>10, EnvStays DEF IInv
<1> QED
  BY <1>1, <1>2 DEF Drop, fsm, threads, timing, local

\* reset() waits for the teardown and joins the loops.
LEMMA KeptByResetWaits ==
  ASSUME IInv, Stays, ResetWaits
  PROVE  IInv'
<1>1. ASSUME At(Op, "z_wait"), teardown = "none", Goto(Op, "z_bus"),
           UNCHANGED <<state, latch, teardown, flag, loop, controller, tasks, paused, units,
                       attempts, failing, exec, broken>>
    PROVE  IInv'
  <2>1. ControlInv' /\ Moved(Op, "z_bus", top[Op], base[Op])
    BY <1>1, Names, Goes DEF IInv, At, SameCall
  <2>2. /\ pc[Op] = "z_wait"
        /\ teardown = "none"
    BY <1>1 DEF At, IInv
  <2>3. Site(Op)
    BY Sites, Names DEF IInv
  <2>4. DataInv'
    BY <1>1, <2>1 DEF IInv, DataInv, States
  <2>5. PlaceInv'
    BY <1>1, <2>1, <2>2, <2>3, Names DEF IInv, PlaceInv, ApartInv, LoopInv, TeardownInv, Owns,
           StrayInv, Destroying, Laying, FlagInv, ExecInv, DataInv
  <2>6. ModeInv' /\ StateInv'
    BY <1>1, <2>1, <2>2, Names DEF IInv, ModeInv, Starting, EStopping, Does, StateInv, Is
  <2>7. Apart => ApartInv'
    BY <1>1, <2>1, <2>2, Names DEF IInv, ApartInv, FatalInv, QuietInv, JoinedInv, LatchInv,
           EStopping, Apart, Does, InReset, Laying, ResetDeep, InitDeep, MonitorJoined, BusJoined
  <2>8. Haltable => HaltInv'
    BY <1>1, <2>1, <2>2, Names DEF IInv, HaltInv, Haltable, Halted, MonitorHarmless, HaltsNext,
           Pending, Starting
  <2>9. Lively => AliveInv'
    BY <1>1, <2>1, Names DEF IInv, AliveInv, Awake, MonitorRestarts, Lively
  <2>10. Orderly => broken' = {} /\ UseInv'
    BY <1>1, <2>1, <2>2, Names DEF IInv, UseInv, Orderly, Dead, MonitorHarmless, MonitorRestarts,
           ResetDeep
  <2> QED
    BY <2>1, <2>4, <2>5, <2>6, <2>7, <2>8, <2>9, <2>10, EnvStays DEF IInv
<1>2. ASSUME At(Op, "z_bus"), Join(Op, "bus"), Goto(Op, "z_monitor"),
           UNCHANGED <<state, latch, teardown, flag, controller, tasks, paused, units, attempts,
                       failing, exec, broken>>
    PROVE  IInv'
  <2>1. ControlInv' /\ Moved(Op, "z_monitor", top[Op], base[Op])
    BY <1>2, Names, Goes DEF IInv, At, SameCall
  <2>2. /\ pc[Op] = "z_bus"
        /\ loop["bus"] # "running"
        /\ \A w \in Workers : loop'[w] = "running" <=> loop[w] = "running"
        /\ loop' \in [Workers -> {"none", "running", "ended"}]
    BY <1>2 DEF At, IInv, DataInv, Join
  <2>3. Site(Op)
    BY Sites, Names DEF IInv
  <2>4. DataInv'
    BY <1>2, <2>1, <2>2 DEF IInv, DataInv, States
  <2>5. PlaceInv'
    BY <1>2, <2>1, <2>2, Names DEF IInv, PlaceInv, LoopInv, TeardownInv, Owns, StrayInv,
           Destroying, Laying, FlagInv, ExecInv
  <2>6. ModeInv' /\ StateInv'
    BY <1>2, <2>1, <2>2, Names DEF IInv, ModeInv, Starting, EStopping, Does, StateInv, Is
  <2>7. Apart => ApartInv'
    BY <1>2, <2>1, <2>2, Names DEF IInv, ApartInv, FatalInv, QuietInv, JoinedInv, LatchInv,
           EStopping, Apart, InReset, Laying, ResetDeep, InitDeep, MonitorJoined
  <2>8. Haltable => HaltInv'
    BY <1>2, <2>1, <2>2, Names DEF IInv, ApartInv, HaltInv, Haltable, Halted, MonitorHarmless,
           HaltsNext, Pending, Starting
  <2>9. Lively => AliveInv'
    BY <1>2, <2>1, <2>2 DEF IInv, AliveInv, Awake, Lively
  <2>10. Orderly => broken' = {} /\ UseInv'
    BY <1>2, <2>1, <2>2, <2>3, Names DEF IInv, UseInv, Orderly, Dead, MonitorHarmless,
           MonitorRestarts, ResetDeep
  <2> QED
    BY <2>1, <2>4, <2>5, <2>6, <2>7, <2>8, <2>9, <2>10, EnvStays DEF IInv
<1>3. ASSUME At(Op, "z_monitor"), Join(Op, "monitor"), Goto(Op, "z_transition"),
           UNCHANGED <<state, latch, teardown, flag, controller, tasks, paused, units, attempts,
                       failing, exec, broken>>
    PROVE  IInv'
  <2>1. ControlInv' /\ Moved(Op, "z_transition", top[Op], base[Op])
    BY <1>3, Names, Goes DEF IInv, At, SameCall
  <2>2. /\ pc[Op] = "z_monitor"
        /\ loop["monitor"] # "running"
        /\ \A w \in Workers : loop'[w] = "running" <=> loop[w] = "running"
        /\ loop' \in [Workers -> {"none", "running", "ended"}]
    BY <1>3 DEF At, IInv, DataInv, Join
  <2>4. DataInv'
    BY <1>3, <2>1, <2>2 DEF IInv, DataInv, States
  <2>5. PlaceInv'
    BY <1>3, <2>1, <2>2, Names DEF IInv, PlaceInv, LoopInv, TeardownInv, Owns, StrayInv,
           Destroying, Laying, FlagInv, ExecInv
  <2>6. ModeInv' /\ StateInv'
    BY <1>3, <2>1, <2>2, Names DEF IInv, ModeInv, Starting, EStopping, Does, StateInv, Is
  <2>7. Apart => ApartInv'
    BY <1>3, <2>1, <2>2, Names DEF IInv, ApartInv, FatalInv, QuietInv, JoinedInv, LatchInv,
           EStopping, Apart, InReset, Laying, ResetDeep, InitDeep, BusJoined
  <2>8. Haltable => HaltInv'
    BY <1>3, <2>1, <2>2, Names DEF IInv, HaltInv, Haltable, Halted, MonitorHarmless, HaltsNext,
           Pending, Starting
  <2>9. Lively => AliveInv'
    BY <1>3, <2>1, <2>2, Names DEF IInv, AliveInv, Awake, MonitorRestarts, Lively
  <2>10. Orderly => broken' = {} /\ UseInv'
    BY <1>3, <2>1, <2>2, Names DEF IInv, UseInv, Orderly, Dead, MonitorHarmless, MonitorRestarts,
           ResetDeep
  <2> QED
    BY <2>1, <2>4, <2>5, <2>6, <2>7, <2>8, <2>9, <2>10, EnvStays DEF IInv
<1> QED
  BY <1>1, <1>2, <1>3 DEF ResetWaits, fsm, timing, local

\* reset() clears the units and destroys the controller.
LEMMA KeptByResetTail ==
  ASSUME IInv, Stays, ResetTail
  PROVE  IInv'
<1>1. ASSUME At(Op, "z_transition"), ValidTransition(state, "UNINITIALIZED"), state' = "UNINITIALIZED", Goto(Op, "z_clear"),
           UNCHANGED <<latch, teardown, flag, loop, controller, tasks, paused, units, attempts,
                       failing, exec, broken>>
    PROVE  IInv'
  <2>1. ControlInv' /\ Moved(Op, "z_clear", top[Op], base[Op])
    BY <1>1, Names, Goes DEF IInv, At, SameCall
  <2>2. /\ pc[Op] = "z_transition"
        /\ state' = "UNINITIALIZED" /\ state \in {"ERROR", "FATAL_ERROR", "STOPPED"}
    BY <1>1 DEF At, IInv, ValidTransition, LegalTransitions
  <2>3. Site(Op)
    BY Sites, Names DEF IInv
  <2>4. DataInv'
    BY <1>1, <2>1 DEF IInv, DataInv, States
  <2>5. PlaceInv'
    BY <1>1, <2>1, <2>2, Names DEF IInv, PlaceInv, LoopInv, TeardownInv, Owns, StrayInv,
           Destroying, Laying, FlagInv, ExecInv
  <2>6. ModeInv' /\ StateInv'
    BY <1>1, <2>1, <2>2, <2>3, Names DEF IInv, ModeInv, Starting, EStopping, Does, StateInv, Is,
           Laying
  <2>7. Apart => ApartInv'
    <3>1. Apart => FatalInv'
      BY <1>1, <2>1, <2>2, Names, Outside DEF IInv, PlaceInv, ApartInv, FatalInv, EStopping,
             Apart, QuietInv, ResetDeep, LoopInv, InReset, MonitorJoined, BusJoined
    <3>2. Apart => QuietInv'
      BY <1>1, <2>1, <2>2, Names DEF IInv, ApartInv, QuietInv, Destroying, EStopping, Apart,
             InReset, Laying, ResetDeep, InitDeep, MonitorJoined, BusJoined
    <3>3. Apart => JoinedInv'
      BY <1>1, <2>1, <2>2 DEF IInv, ApartInv, JoinedInv
    <3>4. Apart => LatchInv'
      BY <1>1, <2>1 DEF IInv, ApartInv, LatchInv, Apart
    <3> QED
      BY <3>1, <3>2, <3>3, <3>4 DEF ApartInv
  <2>8. Haltable => HaltInv'
    BY <1>1, <2>1, <2>2, Names DEF IInv, HaltInv, Haltable, Halted, MonitorHarmless, HaltsNext,
           Starting
  <2>9. Lively => AliveInv'
    BY <1>1, <2>1 DEF IInv, AliveInv, Awake, Lively
  <2>10. Orderly => broken' = {} /\ UseInv'
    BY <1>1, <2>1, <2>2, Names DEF IInv, UseInv, Orderly, Dead, MonitorHarmless, MonitorRestarts,
           ResetDeep
  <2> QED
    BY <2>1, <2>4, <2>5, <2>6, <2>7, <2>8, <2>9, <2>10, EnvStays DEF IInv
<1>2. ASSUME At(Op, "z_transition"), ~ValidTransition(state, "UNINITIALIZED"), Goto(Op, "z_clear"),
           UNCHANGED <<state, latch, teardown, flag, loop, controller, tasks, paused, units,
                       attempts, failing, exec, broken>>
    PROVE  IInv'
  <2>1. ControlInv' /\ Moved(Op, "z_clear", top[Op], base[Op])
    BY <1>2, Names, Goes DEF IInv, At, SameCall
  <2>2. /\ pc[Op] = "z_transition"
        /\ state \notin {"ERROR", "FATAL_ERROR", "STOPPED"}
    BY <1>2 DEF At, IInv, ValidTransition, LegalTransitions
  <2>4. DataInv'
    BY <1>2, <2>1 DEF IInv, DataInv, States
  <2>5. PlaceInv'
    BY <1>2, <2>1, <2>2, Names DEF IInv, PlaceInv, LoopInv, TeardownInv, Owns, StrayInv,
           Destroying, Laying, FlagInv, ExecInv
  <2>6. ModeInv' /\ StateInv'
    BY <1>2, <2>1, <2>2 DEF IInv, ModeInv, StateInv, Is
  <2>7. Apart => ApartInv'
    BY <1>2, <2>1, <2>2 DEF IInv, FatalInv, QuietInv, JoinedInv, LatchInv, StateInv, Apart
  <2>8. Haltable => HaltInv'
    BY <1>2, <2>1, <2>2, Names DEF IInv, HaltInv, Haltable, Halted, MonitorHarmless, HaltsNext,
           Starting
  <2>9. Lively => AliveInv'
    BY <1>2, <2>1, Names DEF IInv, AliveInv, Awake, MonitorRestarts, Lively
  <2>10. Orderly => broken' = {} /\ UseInv'
    BY <1>2, <2>1, <2>2, Names DEF IInv, UseInv, Orderly, Dead, MonitorHarmless, MonitorRestarts,
           ResetDeep
  <2> QED
    BY <2>1, <2>4, <2>5, <2>6, <2>7, <2>8, <2>9, <2>10, EnvStays DEF IInv
<1>3. ASSUME At(Op, "z_clear"), units' = {}, attempts' = 0, Goto(Op, "z_drop"),
           UNCHANGED <<state, latch, teardown, flag, loop, controller, tasks, paused, failing,
                       exec, broken>>
    PROVE  IInv'
  <2>1. ControlInv' /\ Moved(Op, "z_drop", top[Op], base[Op])
    BY <1>3, Names, Goes DEF IInv, At, SameCall
  <2>2. /\ pc[Op] = "z_clear"
        /\ units' = {} /\ attempts' \in 0..MaxRecoveries
    BY <1>3, RecoveryAssumption DEF At, IInv
  <2>3. Site(Op)
    BY Sites, Names DEF IInv
  <2>4. DataInv'
    BY <1>3, <2>1, <2>2 DEF IInv, DataInv, States
  <2>5. PlaceInv'
    BY <1>3, <2>1, <2>2, Names DEF IInv, PlaceInv, LoopInv, TeardownInv, Owns, StrayInv,
           Destroying, Laying, FlagInv, ExecInv
  <2>6. ModeInv' /\ StateInv'
    BY <1>3, <2>1, <2>2, Names DEF IInv, ModeInv, Starting, EStopping, Does, StateInv, Is, Laying,
           Clearing
  <2>7. Apart => ApartInv'
    BY <1>3, <2>1, <2>2, Names DEF IInv, ApartInv, FatalInv, QuietInv, JoinedInv, LatchInv,
           EStopping, Apart, InReset, Laying, ResetDeep, InitDeep, MonitorJoined, BusJoined
  <2>8. Haltable => HaltInv'
    BY <1>3, <2>1, <2>2, <2>3, Names DEF IInv, PlaceInv, ApartInv, HaltInv, Haltable, Halted,
           MonitorHarmless, HaltsNext, Pending, Starting, Apart, Does
  <2>9. Lively => AliveInv'
    BY <1>3, <2>1, Names DEF IInv, AliveInv, Awake, MonitorRestarts, Lively
  <2>10. Orderly => broken' = {} /\ UseInv'
    BY <1>3, <2>1, <2>2, Names DEF IInv, PlaceInv, UseInv, Orderly, Dead, MonitorHarmless,
           MonitorRestarts, ResetDeep, LoopInv
  <2> QED
    BY <2>1, <2>4, <2>5, <2>6, <2>7, <2>8, <2>9, <2>10, EnvStays DEF IInv
<1>4. ASSUME At(Op, "z_drop"), Call(Op, "d_drop", "z_return"),
           UNCHANGED <<state, latch, teardown, flag, loop, controller, tasks, paused, units,
                       attempts, failing, exec, broken>>
    PROVE  IInv'
  <2>1. ControlInv' /\ Moved(Op, "d_drop", "z_return", "z_return")
    BY <1>4, Names, Backs, Enters DEF IInv, At
  <2>2. /\ pc[Op] = "z_drop"
    BY <1>4 DEF At, IInv
  <2>3. Site(Op)
    BY Sites, Names DEF IInv
  <2>4. DataInv'
    BY <1>4, <2>1 DEF IInv, DataInv, States
  <2>5. PlaceInv'
    BY <1>4, <2>1, <2>2, <2>3, Names DEF IInv, PlaceInv, LoopInv, TeardownInv, Owns, StrayInv,
           Destroying, Laying, FlagInv, ExecInv
  <2>6. ModeInv' /\ StateInv'
    BY <1>4, <2>1, <2>2, Names DEF IInv, ModeInv, Starting, EStopping, Does, StateInv, Is, Laying,
           Clearing
  <2>7. Apart => ApartInv'
    BY <1>4, <2>1, <2>2, <2>3, Names DEF IInv, ApartInv, FatalInv, QuietInv, JoinedInv, LatchInv,
           EStopping, Apart, InReset, Laying, ResetDeep, InitDeep, MonitorJoined, BusJoined
  <2>8. Haltable => HaltInv'
    BY <1>4, <2>1, <2>2, <2>3, Names DEF IInv, HaltInv, Haltable, Halted, MonitorHarmless,
           HaltsNext, Pending, Starting
  <2>9. Lively => AliveInv'
    BY <1>4, <2>1, Names DEF IInv, AliveInv, Awake, MonitorRestarts, Lively
  <2>10. Orderly => broken' = {} /\ UseInv'
    BY <1>4, <2>1, <2>2, Names DEF IInv, UseInv, Orderly, Dead, MonitorHarmless, MonitorRestarts,
           ResetDeep
  <2> QED
    BY <2>1, <2>4, <2>5, <2>6, <2>7, <2>8, <2>9, <2>10, EnvStays DEF IInv
<1> QED
  BY <1>1, <1>2, <1>3, <1>4 DEF ResetTail, Transition, threads, timing, local

\* A call returns.
LEMMA KeptByReturnToUser ==
  ASSUME IInv, Stays, ReturnToUser
  PROVE  IInv'
<1>1. ASSUME pc[Op] \in {"i_return", "b_return", "z_return"}, Goto(Op, "idle"),
           UNCHANGED <<state, latch, teardown, flag, loop, controller, tasks, paused, units,
                       attempts, failing, exec, broken>>
    PROVE  IInv'
  <2>1. ControlInv' /\ Moved(Op, "idle", top[Op], base[Op])
    BY <1>1, Names, Goes DEF IInv, SameCall
  <2>2. /\ pc[Op] \in {"i_return", "b_return", "z_return"}
    BY <1>1 DEF IInv
  <2>3. Site(Op)
    BY Sites, Names DEF IInv
  <2>4. DataInv'
    BY <1>1, <2>1 DEF IInv, DataInv, States
  <2>5. PlaceInv'
    BY <1>1, <2>1, Names DEF IInv, PlaceInv, LoopInv, TeardownInv, Owns, StrayInv, Destroying,
           Laying, FlagInv, ExecInv
  <2>6. ModeInv' /\ StateInv'
    BY <1>1, <2>1, Names DEF IInv, ModeInv, Starting, EStopping, Does, StateInv, Is, Laying,
           Clearing
  <2>7. Apart => ApartInv'
    <3>1. Apart => FatalInv'
      BY <1>1, <2>1 DEF IInv, ApartInv, FatalInv, EStopping, Apart
    <3>2. Apart => QuietInv'
      BY <1>1, <2>1, <2>3 DEF IInv, QuietInv, Apart, InReset, InInit, Laying, ResetDeep, InitDeep,
             MonitorJoined, BusJoined
    <3>3. Apart => JoinedInv'
      BY <1>1, <2>1 DEF IInv, ApartInv, JoinedInv
    <3>4. Apart => LatchInv'
      BY <1>1, <2>1 DEF IInv, ApartInv, LatchInv, Apart
    <3> QED
      BY <3>1, <3>2, <3>3, <3>4 DEF ApartInv
  <2>8. Haltable => HaltInv'
    BY <1>1, <2>1, Names DEF IInv, HaltInv, Haltable, Halted, MonitorHarmless, HaltsNext, Pending,
           Starting, Does
  <2>9. Lively => AliveInv'
    BY <1>1, <2>1, Names DEF IInv, AliveInv, Awake, MonitorRestarts, Lively
  <2>10. Orderly => broken' = {} /\ UseInv'
    BY <1>1, <2>1, <2>3, Names DEF IInv, UseInv, Orderly, Dead, MonitorHarmless, MonitorRestarts,
           ResetDeep
  <2> QED
    BY <2>1, <2>4, <2>5, <2>6, <2>7, <2>8, <2>9, <2>10, EnvStays DEF IInv
<1> QED
  BY <1>1 DEF ReturnToUser, fsm, threads, timing, local

\* The operator's calls.
LEMMA KeptByOperatorCalls ==
  ASSUME IInv, Stays, OperatorCalls
  PROVE  IInv'
<1>1. ASSUME At(Op, "idle"), AlarmsQuiet, Goto(Op, "i_monitor"),
           UNCHANGED <<state, latch, teardown, flag, loop, controller, tasks, paused, units,
                       attempts, failing, exec, broken>>
    PROVE  IInv'
  <2>1. ControlInv' /\ Moved(Op, "i_monitor", top[Op], base[Op])
    BY <1>1, Names, Goes DEF IInv, At, SameCall
  <2>2. /\ pc[Op] = "idle"
        /\ Apart => \A a \in Alarms : pc[a] = "idle"
    BY <1>1, Names, Paths DEF At, IInv, AlarmsQuiet, Apart
  <2>3. Site(Op)
    BY Sites, Names DEF IInv
  <2>4. DataInv'
    BY <1>1, <2>1 DEF IInv, DataInv, States
  <2>5. PlaceInv'
    BY <1>1, <2>1, <2>2, Names DEF IInv, PlaceInv, LoopInv, TeardownInv, Owns, StrayInv,
           Destroying, Laying, FlagInv, ExecInv
  <2>6. ModeInv' /\ StateInv'
    BY <1>1, <2>1, <2>2, Names DEF IInv, ModeInv, Starting, EStopping, Does, StateInv, Is, Laying,
           Clearing
  <2>7. Apart => ApartInv'
    <3>1. Apart => FatalInv'
      BY <1>1, <2>1, <2>2 DEF IInv, ApartInv, FatalInv, EStopping, Apart
    <3>2. Apart => QuietInv'
      BY <1>1, <2>1, <2>2, <2>3, Names DEF IInv, QuietInv, Apart, Laying, ResetDeep, InitDeep,
             MonitorJoined, BusJoined
    <3>3. Apart => JoinedInv'
      BY <1>1, <2>1, <2>2 DEF IInv, ApartInv, JoinedInv
    <3>4. Apart => LatchInv'
      BY <1>1, <2>1 DEF IInv, ApartInv, LatchInv, Apart
    <3> QED
      BY <3>1, <3>2, <3>3, <3>4 DEF ApartInv
  <2>8. Haltable => HaltInv'
    BY <1>1, <2>1, <2>2, Names DEF IInv, HaltInv, Haltable, Halted, MonitorHarmless, HaltsNext,
           Pending, Starting
  <2>9. Lively => AliveInv'
    BY <1>1, <2>1, Names DEF IInv, AliveInv, Awake, MonitorRestarts, Lively
  <2>10. Orderly => broken' = {} /\ UseInv'
    BY <1>1, <2>1, <2>2, Names DEF IInv, UseInv, Orderly, Dead, MonitorHarmless, MonitorRestarts,
           ResetDeep
  <2> QED
    BY <2>1, <2>4, <2>5, <2>6, <2>7, <2>8, <2>9, <2>10, EnvStays DEF IInv
<1>2. ASSUME At(Op, "idle"), AlarmsQuiet, Call(Op, "e_fatal", "z_wait"),
           UNCHANGED <<state, latch, teardown, flag, loop, controller, tasks, paused, units,
                       attempts, failing, exec, broken>>
    PROVE  IInv'
  <2>1. ControlInv' /\ Moved(Op, "e_fatal", "z_wait", "z_wait")
    BY <1>2, Names, Backs, Enters DEF IInv, At
  <2>2. /\ pc[Op] = "idle"
        /\ Apart => \A a \in Alarms : pc[a] = "idle"
    BY <1>2, Names, Paths DEF At, IInv, AlarmsQuiet, Apart
  <2>3. Site(Op)
    BY Sites, Names DEF IInv
  <2>4. DataInv'
    BY <1>2, <2>1 DEF IInv, DataInv, States
  <2>5. PlaceInv'
    BY <1>2, <2>1, <2>2, <2>3, Names DEF IInv, PlaceInv, LoopInv, TeardownInv, Owns, StrayInv,
           Destroying, Laying, FlagInv, ExecInv
  <2>6. ModeInv' /\ StateInv'
    BY <1>2, <2>1, <2>2, Names DEF IInv, ModeInv, Starting, EStopping, Does, StateInv, Is, Laying,
           Clearing
  <2>7. Apart => ApartInv'
    BY <1>2, <2>1, <2>2, <2>3, Names DEF IInv, ApartInv, FatalInv, QuietInv, JoinedInv, LatchInv,
           EStopping, Apart, Does, Laying, ResetDeep, InitDeep, MonitorJoined, BusJoined
  <2>8. Haltable => HaltInv'
    BY <1>2, <2>1, <2>2, <2>3, Names DEF IInv, HaltInv, Haltable, Halted, MonitorHarmless,
           HaltsNext, Pending, Starting
  <2>9. Lively => AliveInv'
    BY <1>2, <2>1, Names DEF IInv, AliveInv, Awake, MonitorRestarts, Lively
  <2>10. Orderly => broken' = {} /\ UseInv'
    BY <1>2, <2>1, <2>2, <2>3, Names DEF IInv, UseInv, Orderly, Dead, MonitorHarmless,
           MonitorRestarts, ResetDeep
  <2> QED
    BY <2>1, <2>4, <2>5, <2>6, <2>7, <2>8, <2>9, <2>10, EnvStays DEF IInv
<1>3. ASSUME At(Op, "idle"), Restartable, StartQuiet, ValidTransition(state, "STARTING"),
           state' = "STARTING", Goto(Op, "b_start"),
           UNCHANGED <<latch, teardown, flag, loop, controller, tasks, paused, units, attempts,
                       failing, exec, broken>>
    PROVE  IInv'
  <2>1. ControlInv' /\ Moved(Op, "b_start", top[Op], base[Op])
    BY <1>3, Names, Goes DEF IInv, At, SameCall
  <2>2. /\ pc[Op] = "idle"
        /\ state' = "STARTING" /\ state \in {"ERROR", "INITIALIZED", "STOPPED"} /\ (Does("from_error") \/ state # "ERROR") /\ (Does("restart") \/ state # "STOPPED")
        /\ ~Does("estop_start") => \A t \in Threads : ~EStopping(t)
    BY <1>3, Paths DEF At, IInv, StartQuiet, Restartable, ValidTransition, LegalTransitions
  <2>3. Site(Op)
    BY Sites, Names DEF IInv
  <2>4. DataInv'
    BY <1>3, <2>1 DEF IInv, DataInv, States
  <2>5. PlaceInv'
    BY <1>3, <2>1, <2>2, <2>3, Names DEF IInv, PlaceInv, ApartInv, LoopInv, TeardownInv, Owns,
           StrayInv, Destroying, Laying, FlagInv, ExecInv, DataInv
  <2>6. ModeInv' /\ StateInv'
    BY <1>3, <2>1, <2>2, <2>3, Names DEF IInv, ModeInv, EStopping, Does, StateInv, Is, Laying,
           Clearing
  <2>7. Apart => ApartInv'
    BY <1>3, <2>1, <2>2, <2>3 DEF IInv, ApartInv, FatalInv, QuietInv, JoinedInv, LatchInv,
           EStopping, Apart, InReset, InInit, Laying, ResetDeep, InitDeep, MonitorJoined,
           BusJoined
  <2>8. Haltable => HaltInv'
    BY <1>3, <2>1, <2>2 DEF IInv, HaltInv, Haltable, Halted, MonitorHarmless, HaltsNext, Starting
  <2>9. Lively => AliveInv'
    BY <1>3, <2>1, <2>2 DEF IInv, AliveInv, Awake, Lively, Does
  <2>10. Orderly => broken' = {} /\ UseInv'
    BY <1>3, <2>1, <2>2, <2>3, Names DEF IInv, UseInv, Orderly, Does, Dead, ResetDeep
  <2> QED
    BY <2>1, <2>4, <2>5, <2>6, <2>7, <2>8, <2>9, <2>10, EnvStays DEF IInv
<1>4. ASSUME At(Op, "idle"), Restartable, ValidTransition(state, "PAUSING"), state' = "PAUSING", Goto(Op, "p_pause"),
           UNCHANGED <<latch, teardown, flag, loop, controller, tasks, paused, units, attempts,
                       failing, exec, broken>>
    PROVE  IInv'
  <2>1. ControlInv' /\ Moved(Op, "p_pause", top[Op], base[Op])
    BY <1>4, Names, Goes DEF IInv, At, SameCall
  <2>2. /\ pc[Op] = "idle"
        /\ state' = "PAUSING" /\ state \in {"ERROR", "RUNNING"} /\ (Does("from_error") \/ state # "ERROR") /\ (Does("restart") \/ state # "STOPPED")
    BY <1>4 DEF At, IInv, Restartable, ValidTransition, LegalTransitions
  <2>3. Site(Op)
    BY Sites, Names DEF IInv
  <2>4. DataInv'
    BY <1>4, <2>1 DEF IInv, DataInv, States
  <2>5. PlaceInv'
    BY <1>4, <2>1, <2>2, Names DEF IInv, PlaceInv, LoopInv, TeardownInv, Owns, StrayInv,
           Destroying, Laying, FlagInv, ExecInv
  <2>6. ModeInv' /\ StateInv'
    BY <1>4, <2>1, <2>2, <2>3, Names DEF IInv, ModeInv, Starting, EStopping, Does, StateInv, Is,
           Laying, Clearing
  <2>7. Apart => ApartInv'
    BY <1>4, <2>1, <2>2, <2>3 DEF IInv, ApartInv, FatalInv, QuietInv, JoinedInv, LatchInv,
           EStopping, Apart, InReset, InInit, Laying, ResetDeep, InitDeep, MonitorJoined,
           BusJoined
  <2>8. Haltable => HaltInv'
    BY <1>4, <2>1, <2>2, Names DEF IInv, HaltInv, Haltable, Halted, MonitorHarmless, HaltsNext,
           Starting
  <2>9. Lively => AliveInv'
    BY <1>4, <2>1, <2>2, Names DEF IInv, AliveInv, Awake, MonitorRestarts, Lively, Does
  <2>10. Orderly => broken' = {} /\ UseInv'
    BY <1>4, <2>1, <2>2, <2>3, Names DEF IInv, UseInv, Orderly, Dead, MonitorRestarts, ResetDeep
  <2> QED
    BY <2>1, <2>4, <2>5, <2>6, <2>7, <2>8, <2>9, <2>10, EnvStays DEF IInv
<1>5. ASSUME At(Op, "idle"), Restartable, ValidTransition(state, "RESUMING"), state' = "RESUMING", Goto(Op, "r_resume"),
           UNCHANGED <<latch, teardown, flag, loop, controller, tasks, paused, units, attempts,
                       failing, exec, broken>>
    PROVE  IInv'
  <2>1. ControlInv' /\ Moved(Op, "r_resume", top[Op], base[Op])
    BY <1>5, Names, Goes DEF IInv, At, SameCall
  <2>2. /\ pc[Op] = "idle"
        /\ state' = "RESUMING" /\ state \in {"ERROR", "PAUSED"} /\ (Does("from_error") \/ state # "ERROR") /\ (Does("restart") \/ state # "STOPPED")
    BY <1>5 DEF At, IInv, Restartable, ValidTransition, LegalTransitions
  <2>3. Site(Op)
    BY Sites, Names DEF IInv
  <2>4. DataInv'
    BY <1>5, <2>1 DEF IInv, DataInv, States
  <2>5. PlaceInv'
    BY <1>5, <2>1, <2>2, Names DEF IInv, PlaceInv, LoopInv, TeardownInv, Owns, StrayInv,
           Destroying, Laying, FlagInv, ExecInv
  <2>6. ModeInv' /\ StateInv'
    BY <1>5, <2>1, <2>2, <2>3, Names DEF IInv, ModeInv, Starting, EStopping, Does, StateInv, Is,
           Laying, Clearing
  <2>7. Apart => ApartInv'
    BY <1>5, <2>1, <2>2, <2>3 DEF IInv, ApartInv, FatalInv, QuietInv, JoinedInv, LatchInv,
           EStopping, Apart, InReset, InInit, Laying, ResetDeep, InitDeep, MonitorJoined,
           BusJoined
  <2>8. Haltable => HaltInv'
    BY <1>5, <2>1, <2>2, Names DEF IInv, HaltInv, Haltable, Halted, MonitorHarmless, HaltsNext,
           Starting
  <2>9. Lively => AliveInv'
    BY <1>5, <2>1, <2>2, Names DEF IInv, AliveInv, Awake, MonitorRestarts, Lively, Does
  <2>10. Orderly => broken' = {} /\ UseInv'
    BY <1>5, <2>1, <2>2, <2>3, Names DEF IInv, UseInv, Orderly, Dead, MonitorRestarts, ResetDeep
  <2> QED
    BY <2>1, <2>4, <2>5, <2>6, <2>7, <2>8, <2>9, <2>10, EnvStays DEF IInv
<1>6. ASSUME At(Op, "idle"), ValidTransition(state, "STOPPING"), state' = "STOPPING", Goto(Op, "s_latch"),
           UNCHANGED <<latch, teardown, flag, loop, controller, tasks, paused, units, attempts,
                       failing, exec, broken>>
    PROVE  IInv'
  <2>1. ControlInv' /\ Moved(Op, "s_latch", top[Op], base[Op])
    BY <1>6, Names, Goes DEF IInv, At, SameCall
  <2>2. /\ pc[Op] = "idle"
        /\ state' = "STOPPING" /\ state \in {"ERROR", "PAUSED", "RUNNING"}
    BY <1>6 DEF At, IInv, ValidTransition, LegalTransitions
  <2>3. Site(Op)
    BY Sites, Names DEF IInv
  <2>4. DataInv'
    BY <1>6, <2>1 DEF IInv, DataInv, States
  <2>5. PlaceInv'
    BY <1>6, <2>1, <2>2, Names DEF IInv, PlaceInv, LoopInv, TeardownInv, Owns, StrayInv,
           Destroying, Laying, FlagInv, ExecInv
  <2>6. ModeInv' /\ StateInv'
    BY <1>6, <2>1, <2>2, <2>3, Names DEF IInv, ModeInv, Starting, EStopping, Does, StateInv, Is,
           Laying, Clearing
  <2>7. Apart => ApartInv'
    BY <1>6, <2>1, <2>2, <2>3 DEF IInv, ApartInv, FatalInv, QuietInv, JoinedInv, LatchInv,
           EStopping, Apart, InReset, InInit, Laying, ResetDeep, InitDeep, MonitorJoined,
           BusJoined
  <2>8. Haltable => HaltInv'
    BY <1>6, <2>1, <2>2, Names DEF IInv, HaltInv, Haltable, Halted, MonitorHarmless, HaltsNext,
           Starting
  <2>9. Lively => AliveInv'
    BY <1>6, <2>1 DEF IInv, AliveInv, Awake, Lively
  <2>10. Orderly => broken' = {} /\ UseInv'
    BY <1>6, <2>1, <2>2, <2>3, Names DEF IInv, UseInv, Orderly, Dead, MonitorRestarts, ResetDeep
  <2> QED
    BY <2>1, <2>4, <2>5, <2>6, <2>7, <2>8, <2>9, <2>10, EnvStays DEF IInv
<1>7. ASSUME At(Op, "idle"), Call(Op, "e_fatal", "idle"),
           UNCHANGED <<state, latch, teardown, flag, loop, controller, tasks, paused, units,
                       attempts, failing, exec, broken>>
    PROVE  IInv'
  <2>1. ControlInv' /\ Moved(Op, "e_fatal", "idle", "idle")
    BY <1>7, Names, Backs, Enters DEF IInv, At, PCs, WorkPC
  <2>2. /\ pc[Op] = "idle"
    BY <1>7 DEF At, IInv
  <2>3. Site(Op)
    BY Sites, Names DEF IInv
  <2>4. DataInv'
    BY <1>7, <2>1 DEF IInv, DataInv, States
  <2>5. PlaceInv'
    BY <1>7, <2>1, <2>2, <2>3, Names DEF IInv, PlaceInv, LoopInv, TeardownInv, Owns, StrayInv,
           Destroying, Laying, FlagInv, ExecInv
  <2>6. ModeInv' /\ StateInv'
    BY <1>7, <2>1, <2>2, Names DEF IInv, ModeInv, Starting, EStopping, Does, StateInv, Is, Laying,
           Clearing
  <2>7. Apart => ApartInv'
    BY <1>7, <2>1, <2>2, <2>3 DEF IInv, ApartInv, FatalInv, QuietInv, JoinedInv, LatchInv,
           EStopping, Apart, InReset, InInit, Laying, ResetDeep, InitDeep, MonitorJoined,
           BusJoined
  <2>8. Haltable => HaltInv'
    BY <1>7, <2>1, <2>2, <2>3, Names DEF IInv, HaltInv, Haltable, Halted, MonitorHarmless,
           HaltsNext, Pending, Starting
  <2>9. Lively => AliveInv'
    BY <1>7, <2>1, Names DEF IInv, AliveInv, Awake, MonitorRestarts, Lively
  <2>10. Orderly => broken' = {} /\ UseInv'
    BY <1>7, <2>1, <2>2, Names DEF IInv, UseInv, Orderly, Dead, MonitorHarmless, MonitorRestarts,
           ResetDeep
  <2> QED
    BY <2>1, <2>4, <2>5, <2>6, <2>7, <2>8, <2>9, <2>10, EnvStays DEF IInv
<1>8. ASSUME At(Op, "idle"), Goto(Op, "idle"),
           UNCHANGED <<state, latch, teardown, flag, loop, controller, tasks, paused, units,
                       attempts, failing, exec, broken>>
    PROVE  IInv'
  <2>1. ControlInv' /\ Moved(Op, "idle", top[Op], base[Op])
    BY <1>8, Names, Goes DEF IInv, At, SameCall
  <2>2. /\ pc[Op] = "idle"
    BY <1>8 DEF At, IInv
  <2>3. Site(Op)
    BY Sites, Names DEF IInv
  <2>4. DataInv'
    BY <1>8, <2>1 DEF IInv, DataInv, States
  <2>5. PlaceInv'
    BY <1>8, <2>1, <2>2, Names DEF IInv, PlaceInv, LoopInv, TeardownInv, Owns, StrayInv,
           Destroying, Laying, FlagInv, ExecInv
  <2>6. ModeInv' /\ StateInv'
    BY <1>8, <2>1, <2>2, Names DEF IInv, ModeInv, Starting, EStopping, Does, StateInv, Is, Laying,
           Clearing
  <2>7. Apart => ApartInv'
    BY <1>8, <2>1, <2>2, <2>3 DEF IInv, ApartInv, FatalInv, QuietInv, JoinedInv, LatchInv,
           EStopping, Apart, InReset, InInit, Laying, ResetDeep, InitDeep, MonitorJoined,
           BusJoined
  <2>8. Haltable => HaltInv'
    BY <1>8, <2>1, <2>2, Names DEF IInv, HaltInv, Haltable, Halted, MonitorHarmless, HaltsNext,
           Pending, Starting
  <2>9. Lively => AliveInv'
    BY <1>8, <2>1, Names DEF IInv, AliveInv, Awake, MonitorRestarts, Lively
  <2>10. Orderly => broken' = {} /\ UseInv'
    BY <1>8, <2>1, <2>2, Names DEF IInv, UseInv, Orderly, Dead, MonitorHarmless, MonitorRestarts,
           ResetDeep
  <2> QED
    BY <2>1, <2>4, <2>5, <2>6, <2>7, <2>8, <2>9, <2>10, EnvStays DEF IInv
<1> QED
  BY <1>1, <1>2, <1>3, <1>4, <1>5, <1>6, <1>7, <1>8 DEF OperatorCalls, Transition, threads,
         timing, local

\* User code pulls the e-stop.
LEMMA KeptByUserCodePullsEStop ==
  ASSUME IInv, Stays, NEW t \in Threads, UserCodePullsEStop(t)
  PROVE  IInv'
<1>1. ASSUME EStopAllowed, t \in Alarms, At(t, "idle"), Call(t, "e_fatal", "idle"),
           UNCHANGED <<state, latch, teardown, flag, loop, controller, tasks, paused, units,
                       attempts, failing, exec, broken>>
    PROVE  IInv'
  <2>1. ControlInv' /\ Moved(t, "e_fatal", "idle", "idle")
    BY <1>1, Names, Backs, Enters DEF IInv, At
  <2>2. /\ pc[t] = "idle"
        /\ t \in Alarms
        /\ Apart => ~InReset /\ ~InInit
        /\ ~Does("estop_start") => ~Starting
    BY <1>1, Paths DEF At, IInv, EStopAllowed, Apart
  <2>3. Site(t)
    BY Sites DEF IInv
  <2>4. DataInv'
    BY <1>1, <2>1 DEF IInv, DataInv, States
  <2>5. PlaceInv'
    BY <1>1, <2>1, <2>2, <2>3, Names DEF IInv, PlaceInv, LoopInv, TeardownInv, Owns, StrayInv,
           Destroying, Laying, FlagInv, ExecInv
  <2>6. ModeInv' /\ StateInv'
    BY <1>1, <2>1, <2>2, Names DEF IInv, ModeInv, Starting, EStopping, Does, StateInv, Is, Laying,
           Clearing
  <2>7. Apart => ApartInv'
    BY <1>1, <2>1, <2>2, Names DEF IInv, ApartInv, FatalInv, QuietInv, JoinedInv, LatchInv,
           EStopping, Apart, InReset, InInit, Laying, ResetDeep, InitDeep, MonitorJoined,
           BusJoined
  <2>8. Haltable => HaltInv'
    BY <1>1, <2>1, <2>2, <2>3, Names DEF IInv, HaltInv, Haltable, Halted, MonitorHarmless,
           HaltsNext, Pending, Starting
  <2>9. Lively => AliveInv'
    BY <1>1, <2>1, Names DEF IInv, AliveInv, Awake, MonitorRestarts, Lively
  <2>10. Orderly => broken' = {} /\ UseInv'
    BY <1>1, <2>1, Names DEF IInv, UseInv, Orderly, Dead, MonitorHarmless, MonitorRestarts,
           ResetDeep
  <2> QED
    BY <2>1, <2>4, <2>5, <2>6, <2>7, <2>8, <2>9, <2>10, EnvStays DEF IInv
<1>2. ASSUME EStopAllowed, t = "bus", At(t, "loop"), loop[t] = "running", ~Leaving(t), Call(t, "e_fatal", "loop"),
           UNCHANGED <<state, latch, teardown, flag, loop, controller, tasks, paused, units,
                       attempts, failing, exec, broken>>
    PROVE  IInv'
  <2>1. ControlInv' /\ Moved(t, "e_fatal", "loop", "loop")
    BY <1>2, Backs, Enters DEF IInv, At
  <2>2. /\ pc[t] = "loop"
        /\ t = "bus" /\ loop[t] = "running"
        /\ Apart => ~InReset /\ ~InInit
        /\ ~Does("estop_start") => ~Starting
    BY <1>2, Paths DEF At, IInv, EStopAllowed, Apart
  <2>3. Site(t)
    BY Sites DEF IInv
  <2>4. DataInv'
    BY <1>2, <2>1 DEF IInv, DataInv, States
  <2>5. PlaceInv'
    BY <1>2, <2>1, <2>2, <2>3, Names DEF IInv, PlaceInv, LoopInv, TeardownInv, Owns, StrayInv,
           Destroying, Laying, FlagInv, ExecInv
  <2>6. ModeInv' /\ StateInv'
    BY <1>2, <2>1, <2>2, Names DEF IInv, ModeInv, Starting, EStopping, Does, StateInv, Is, Laying,
           Clearing
  <2>7. Apart => ApartInv'
    BY <1>2, <2>1, <2>2, Names DEF IInv, ApartInv, FatalInv, QuietInv, JoinedInv, LatchInv,
           EStopping, Apart, InReset, InInit, Laying, ResetDeep, InitDeep, MonitorJoined,
           BusJoined
  <2>8. Haltable => HaltInv'
    BY <1>2, <2>1, <2>2, <2>3, Names DEF IInv, HaltInv, Haltable, Halted, MonitorHarmless,
           HaltsNext, Pending, Starting, Apart
  <2>9. Lively => AliveInv'
    BY <1>2, <2>1, Names DEF IInv, AliveInv, Awake, MonitorRestarts, Lively
  <2>10. Orderly => broken' = {} /\ UseInv'
    BY <1>2, <2>1, Names DEF IInv, UseInv, Orderly, Does, Dead, MonitorHarmless, MonitorRestarts,
           ResetDeep
  <2> QED
    BY <2>1, <2>4, <2>5, <2>6, <2>7, <2>8, <2>9, <2>10, EnvStays DEF IInv
<1>3. ASSUME EStopAllowed, t = "monitor", Does("monitor_estop"), At(t, "m_callback"), Call(t, "e_fatal", "m_decide"),
           UNCHANGED <<state, latch, teardown, flag, loop, controller, tasks, paused, units,
                       attempts, failing, exec, broken>>
    PROVE  IInv'
  <2>1. ControlInv' /\ Moved(t, "e_fatal", "m_decide", "m_decide")
    BY <1>3, Backs, Enters DEF IInv, At
  <2>2. /\ pc[t] = "m_callback"
        /\ t = "monitor" /\ Does("monitor_estop")
        /\ Apart => ~InReset /\ ~InInit
        /\ ~Does("estop_start") => ~Starting
    BY <1>3, Paths DEF At, IInv, EStopAllowed, Apart
  <2>3. Site(t)
    BY Sites DEF IInv
  <2>4. DataInv'
    BY <1>3, <2>1 DEF IInv, DataInv, States
  <2>5. PlaceInv'
    BY <1>3, <2>1, <2>2, <2>3, Names DEF IInv, PlaceInv, LoopInv, TeardownInv, Owns, StrayInv,
           Destroying, Laying, FlagInv, ExecInv
  <2>6. ModeInv' /\ StateInv'
    BY <1>3, <2>1, <2>2, Names DEF IInv, ModeInv, Starting, EStopping, Does, StateInv, Is, Laying,
           Clearing
  <2>7. Apart => ApartInv'
    BY <1>3, <2>1, <2>2, Names DEF IInv, ApartInv, FatalInv, QuietInv, JoinedInv, LatchInv,
           EStopping, Apart, InReset, InInit, Laying, ResetDeep, InitDeep, MonitorJoined,
           BusJoined
  <2>8. Haltable => HaltInv'
    BY <1>3, <2>1, <2>2, <2>3, Names DEF IInv, HaltInv, Haltable, Halted, MonitorHarmless,
           HaltsNext, Pending, Starting
  <2>9. Lively => AliveInv'
    BY <1>3, <2>1, <2>2, <2>3, Names DEF IInv, AliveInv, Awake, MonitorRestarts, Lively
  <2>10. Orderly => broken' = {} /\ UseInv'
    BY <1>3, <2>1, Names DEF IInv, UseInv, Orderly, Dead, MonitorHarmless, MonitorRestarts,
           ResetDeep
  <2> QED
    BY <2>1, <2>4, <2>5, <2>6, <2>7, <2>8, <2>9, <2>10, EnvStays DEF IInv
<1>4. ASSUME EStopAllowed, t = "scheduler", Does("unit_estop"), At(t, "x_unit"), Call(t, "e_fatal", "x_done"),
           UNCHANGED <<state, latch, teardown, flag, loop, controller, tasks, paused, units,
                       attempts, failing, exec, broken>>
    PROVE  IInv'
  <2>1. ControlInv' /\ Moved(t, "e_fatal", "x_done", "x_done")
    BY <1>4, Backs, Enters DEF IInv, At
  <2>2. /\ pc[t] = "x_unit"
        /\ t = "scheduler" /\ Does("unit_estop")
        /\ Apart => ~InReset /\ ~InInit
        /\ ~Does("estop_start") => ~Starting
    BY <1>4, Paths DEF At, IInv, EStopAllowed, Apart
  <2>3. Site(t)
    BY Sites DEF IInv
  <2>4. DataInv'
    BY <1>4, <2>1 DEF IInv, DataInv, States
  <2>5. PlaceInv'
    BY <1>4, <2>1, <2>2, <2>3, Names DEF IInv, PlaceInv, LoopInv, TeardownInv, Owns, StrayInv,
           Destroying, Laying, FlagInv, ExecInv
  <2>6. ModeInv' /\ StateInv'
    BY <1>4, <2>1, <2>2, Names DEF IInv, ModeInv, Starting, EStopping, Does, StateInv, Is, Laying,
           Clearing
  <2>7. Apart => ApartInv'
    BY <1>4, <2>1, <2>2, Names DEF IInv, ApartInv, FatalInv, QuietInv, JoinedInv, LatchInv,
           EStopping, Apart, InReset, InInit, Laying, ResetDeep, InitDeep, MonitorJoined,
           BusJoined
  <2>8. Haltable => HaltInv'
    BY <1>4, <2>1, <2>2, <2>3, Names DEF IInv, HaltInv, Haltable, Halted, MonitorHarmless,
           HaltsNext, Pending, Starting
  <2>9. Lively => AliveInv'
    BY <1>4, <2>1, Names DEF IInv, AliveInv, Awake, MonitorRestarts, Lively
  <2>10. Orderly => broken' = {} /\ UseInv'
    BY <1>4, <2>1 DEF IInv, UseInv, Orderly, Does, Dead
  <2> QED
    BY <2>1, <2>4, <2>5, <2>6, <2>7, <2>8, <2>9, <2>10, EnvStays DEF IInv
<1> QED
  BY <1>1, <1>2, <1>3, <1>4 DEF UserCodePullsEStop, fsm, threads, timing, local

\* A unit is registered.
LEMMA KeptByRegisterProcessingUnit ==
  ASSUME IInv, Stays, NEW u \in Units, RegisterProcessingUnit(u)
  PROVE  IInv'
<1>1. ASSUME Does("late") \/ (At(Op, "idle") /\ state # "PAUSED"), units' = units \cup {u},
           tasks' = IF controller /\ state = "RUNNING" THEN tasks \cup {u} ELSE tasks, UNCHANGED <<pc, stack>>,
           UNCHANGED <<state, latch, teardown, flag, loop, controller, paused, attempts, failing,
                       exec, broken>>
    PROVE  IInv'
  <2>1. ControlInv' /\ UNCHANGED <<pc, top, base>>
    BY <1>1, Stands DEF IInv
  <2>2. /\ units' = units \cup {u} /\ u \in Units
        /\ controller /\ state = "RUNNING" => tasks' = tasks \cup {u}
        /\ ~controller \/ state # "RUNNING" => tasks' = tasks
        /\ Does("late") \/ (pc[Op] = "idle" /\ state # "PAUSED")
    BY <1>1 DEF At, IInv
  <2>4. DataInv'
    BY <1>1, <2>1 DEF IInv, DataInv, States
  <2>5. PlaceInv'
    BY <1>1, <2>1 DEF IInv, PlaceInv, LoopInv, TeardownInv, Owns, StrayInv, Destroying, Laying,
           FlagInv, ExecInv
  <2>6. ModeInv' /\ StateInv'
    BY <1>1, <2>1 DEF IInv, ModeInv, Starting, EStopping, Does, StateInv, Is, Laying, Clearing
  <2>7. Apart => ApartInv'
    BY <1>1, <2>1 DEF IInv, ApartInv, FatalInv, QuietInv, JoinedInv, LatchInv, EStopping, Apart,
           Does, InReset, InInit, Laying, ResetDeep, InitDeep, MonitorJoined, BusJoined
  <2>8. Haltable => HaltInv'
    BY <1>1, <2>1 DEF IInv, HaltInv, Haltable, Halted, MonitorHarmless, HaltsNext, Pending,
           Starting
  <2>9. Lively => AliveInv'
    BY <1>1, <2>1, <2>2 DEF IInv, AliveInv, Awake, MonitorRestarts, Lively, Does, StateInv
  <2>10. Orderly => broken' = {} /\ UseInv'
    BY <1>1, <2>1 DEF IInv, UseInv, Orderly, Dead, MonitorHarmless, MonitorRestarts, ResetDeep
  <2> QED
    BY <2>1, <2>4, <2>5, <2>6, <2>7, <2>8, <2>9, <2>10, EnvStays DEF IInv
<1> QED
  BY <1>1 DEF RegisterProcessingUnit, fsm, threads, local

\* A loop leaves.
LEMMA KeptByLoopEnds ==
  ASSUME IInv, Stays, NEW w \in Workers, LoopEnds(w)
  PROVE  IInv'
<1>1. ASSUME At(w, "loop"), loop[w] = "running", Leaving(w), loop' = [loop EXCEPT ![w] = "ended"], UNCHANGED <<pc, stack>>,
           UNCHANGED <<state, latch, teardown, flag, controller, tasks, paused, units, attempts,
                       failing, exec, broken>>
    PROVE  IInv'
  <2>1. ControlInv' /\ UNCHANGED <<pc, top, base>>
    BY <1>1, Stands DEF IInv
  <2>2. /\ pc[w] = "loop" /\ loop'[w] = "ended" /\ \A v \in Workers : v # w => loop'[v] = loop[v]
        /\ ~flag[w] \/ (w # "scheduler" /\ ShutdownRequested)
        /\ loop' \in [Workers -> {"none", "running", "ended"}]
    BY <1>1 DEF At, IInv, DataInv, Leaving
  <2>4. DataInv'
    BY <1>1, <2>1 DEF IInv, DataInv, States
  <2>5. PlaceInv'
    BY <1>1, <2>1, <2>2 DEF IInv, PlaceInv, LoopInv, TeardownInv, Owns, StrayInv, Destroying,
           Laying, FlagInv, ExecInv
  <2>6. ModeInv' /\ StateInv'
    BY <1>1, <2>1 DEF IInv, ModeInv, Starting, EStopping, Does, StateInv, Is, Laying, Clearing
  <2>7. Apart => ApartInv'
    BY <1>1, <2>1 DEF IInv, ApartInv, FatalInv, QuietInv, JoinedInv, LatchInv, EStopping, Apart,
           InReset, InInit, Laying, ResetDeep, InitDeep, MonitorJoined, BusJoined
  <2>8. Haltable => HaltInv'
    BY <1>1, <2>1 DEF IInv, HaltInv, Haltable, Halted, MonitorHarmless, HaltsNext, Pending,
           Starting
  <2>9. Lively => AliveInv'
    BY <1>1, <2>1, <2>2, Disciplines DEF IInv, ApartInv, AliveInv, Awake, MonitorRestarts, Laying,
           Lively, ShutdownRequested, QuietInv
  <2>10. Orderly => broken' = {} /\ UseInv'
    BY <1>1, <2>1 DEF IInv, UseInv, Orderly, Dead, MonitorHarmless, MonitorRestarts, ResetDeep
  <2> QED
    BY <2>1, <2>4, <2>5, <2>6, <2>7, <2>8, <2>9, <2>10, EnvStays DEF IInv
<1> QED
  BY <1>1 DEF LoopEnds, fsm, timing, local

\* A health check.
LEMMA KeptByHealthCheck ==
  ASSUME IInv, Stays, HealthCheck
  PROVE  IInv'
<1>1. ASSUME At("monitor", "loop"), loop["monitor"] = "running", failing' \in BOOLEAN, Goto("monitor", "m_callback"),
           UNCHANGED <<state, latch, teardown, flag, loop, controller, tasks, paused, units,
                       attempts, exec, broken>>
    PROVE  IInv'
  <2>1. ControlInv' /\ Moved("monitor", "m_callback", top["monitor"], base["monitor"])
    BY <1>1, Names, Goes DEF IInv, At, SameCall
  <2>2. /\ pc["monitor"] = "loop"
        /\ failing' \in BOOLEAN /\ loop["monitor"] = "running"
    BY <1>1 DEF At, IInv
  <2>3. Site("monitor")
    BY Sites, Names DEF IInv
  <2>4. DataInv'
    BY <1>1, <2>1 DEF IInv, DataInv, States
  <2>5. PlaceInv'
    BY <1>1, <2>1, <2>2, <2>3, Names DEF IInv, PlaceInv, ApartInv, LoopInv, TeardownInv, Owns,
           StrayInv, Destroying, Laying, FlagInv, ExecInv, DataInv
  <2>6. ModeInv' /\ StateInv'
    BY <1>1, <2>1, Names DEF IInv, ModeInv, Starting, EStopping, Does, StateInv, Is, Laying,
           Clearing
  <2>7. Apart => ApartInv'
    <3>1. Apart => FatalInv'
      BY <1>1, <2>1, <2>2, <2>3, Names DEF IInv, ApartInv, FatalInv, EStopping
    <3>2. Apart => QuietInv'
      BY <1>1, <2>1, <2>2, <2>3, Names DEF IInv, ApartInv, QuietInv, EStopping, InReset, InInit,
             Laying, ResetDeep, InitDeep, MonitorJoined, BusJoined
    <3>3. Apart => JoinedInv'
      BY <1>1, <2>1, <2>2, <2>3, Names DEF IInv, ApartInv, JoinedInv
    <3>4. Apart => LatchInv'
      BY <1>1, <2>1, <2>2, <2>3, Names DEF IInv, ApartInv, LatchInv
    <3> QED
      BY <3>1, <3>2, <3>3, <3>4 DEF ApartInv
  <2>8. Haltable => HaltInv'
    BY <1>1, <2>1, <2>2, Names DEF IInv, HaltInv, Haltable, Halted, MonitorHarmless, HaltsNext,
           Pending, Starting
  <2>9. Lively => AliveInv'
    BY <1>1, <2>1, <2>2, Names DEF IInv, AliveInv, Awake, MonitorRestarts, Lively
  <2>10. Orderly => broken' = {} /\ UseInv'
    BY <1>1, <2>1, Names DEF IInv, UseInv, Orderly, Dead, MonitorHarmless, MonitorRestarts,
           ResetDeep
  <2> QED
    BY <2>1, <2>4, <2>5, <2>6, <2>7, <2>8, <2>9, <2>10, EnvStays DEF IInv
<1> QED
  BY <1>1 DEF HealthCheck, fsm, threads, timing, local

\* attemptRecovery(), on the monitor.
LEMMA KeptByRecovery ==
  ASSUME IInv, Stays, Recovery
  PROVE  IInv'
<1>1. ASSUME At("monitor", "m_callback"), Goto("monitor", "m_decide"),
           UNCHANGED <<state, latch, teardown, flag, loop, controller, tasks, paused, units,
                       attempts, failing, exec, broken>>
    PROVE  IInv'
  <2>1. ControlInv' /\ Moved("monitor", "m_decide", top["monitor"], base["monitor"])
    BY <1>1, Names, Goes DEF IInv, At, SameCall
  <2>2. /\ pc["monitor"] = "m_callback"
    BY <1>1 DEF At, IInv
  <2>4. DataInv'
    BY <1>1, <2>1 DEF IInv, DataInv, States
  <2>5. PlaceInv'
    BY <1>1, <2>1, <2>2, Names DEF IInv, PlaceInv, LoopInv, TeardownInv, Owns, StrayInv,
           Destroying, Laying, FlagInv, ExecInv
  <2>6. ModeInv' /\ StateInv'
    BY <1>1, <2>1, Names DEF IInv, ModeInv, Starting, EStopping, Does, StateInv, Is, Laying,
           Clearing
  <2>7. Apart => ApartInv'
    BY <1>1, <2>1, <2>2, Names DEF IInv, ApartInv, FatalInv, QuietInv, JoinedInv, LatchInv,
           EStopping, Apart, InReset, InInit, Laying, ResetDeep, InitDeep, MonitorJoined,
           BusJoined
  <2>8. Haltable => HaltInv'
    BY <1>1, <2>1, <2>2, Names DEF IInv, HaltInv, Haltable, Halted, MonitorHarmless, HaltsNext,
           Pending, Starting
  <2>9. Lively => AliveInv'
    BY <1>1, <2>1, <2>2, Names DEF IInv, AliveInv, Awake, MonitorRestarts, Lively
  <2>10. Orderly => broken' = {} /\ UseInv'
    BY <1>1, <2>1, Names DEF IInv, UseInv, Orderly, Dead, MonitorHarmless, MonitorRestarts,
           ResetDeep
  <2> QED
    BY <2>1, <2>4, <2>5, <2>6, <2>7, <2>8, <2>9, <2>10, EnvStays DEF IInv
<1>2. ASSUME At("monitor", "m_decide"), CanRecover, attempts' = attempts + 1, Goto("monitor", "m_recover"), failing' = FALSE,
           UNCHANGED <<state, latch, teardown, flag, loop, controller, tasks, paused, units, exec,
                       broken>>
    PROVE  IInv'
  <2>1. ControlInv' /\ Moved("monitor", "m_recover", top["monitor"], base["monitor"])
    BY <1>2, Names, Goes DEF IInv, At, SameCall
  <2>2. /\ pc["monitor"] = "m_decide"
        /\ attempts' \in 0..MaxRecoveries /\ failing' = FALSE /\ env.recovery
    BY <1>2, RecoveryAssumption DEF At, IInv, DataInv, CanRecover
  <2>3. Site("monitor")
    BY Sites, Names DEF IInv
  <2>4. DataInv'
    BY <1>2, <2>1, <2>2, <2>3, Names, Disciplines DEF IInv, PlaceInv, ApartInv, DataInv, States
  <2>5. PlaceInv'
    BY <1>2, <2>1, <2>2, Names DEF IInv, PlaceInv, LoopInv, TeardownInv, Owns, StrayInv,
           Destroying, Laying, FlagInv, ExecInv
  <2>6. ModeInv' /\ StateInv'
    BY <1>2, <2>1, <2>2, Names DEF IInv, ModeInv, Starting, EStopping, Does, StateInv, Is, Laying,
           Clearing
  <2>7. Apart => ApartInv'
    BY <1>2, <2>1, <2>2, Names DEF IInv, ApartInv, FatalInv, QuietInv, JoinedInv, LatchInv,
           EStopping, Apart, InReset, InInit, Laying, ResetDeep, InitDeep, MonitorJoined,
           BusJoined
  <2>8. Haltable => HaltInv'
    BY <1>2, <2>1, <2>2, Names DEF IInv, HaltInv, Haltable, Halted, MonitorHarmless, HaltsNext,
           Pending, Starting
  <2>9. Lively => AliveInv'
    BY <1>2, <2>1, <2>2, Names DEF IInv, AliveInv, Awake, MonitorRestarts, Lively
  <2>10. Orderly => broken' = {} /\ UseInv'
    BY <1>2, <2>1, Names DEF IInv, UseInv, Orderly, Dead, MonitorHarmless, MonitorRestarts,
           ResetDeep
  <2> QED
    BY <2>1, <2>4, <2>5, <2>6, <2>7, <2>8, <2>9, <2>10, EnvStays DEF IInv
<1>3. ASSUME At("monitor", "m_decide"), Goto("monitor", "loop"), failing' = FALSE,
           UNCHANGED <<state, latch, teardown, flag, loop, controller, tasks, paused, units,
                       attempts, exec, broken>>
    PROVE  IInv'
  <2>1. ControlInv' /\ Moved("monitor", "loop", top["monitor"], base["monitor"])
    BY <1>3, Names, Goes DEF IInv, At, SameCall
  <2>2. /\ pc["monitor"] = "m_decide"
        /\ failing' = FALSE
    BY <1>3 DEF At, IInv
  <2>3. Site("monitor")
    BY Sites, Names DEF IInv
  <2>4. DataInv'
    BY <1>3, <2>1, <2>2, <2>3, Names, Disciplines DEF IInv, PlaceInv, ApartInv, DataInv, States
  <2>5. PlaceInv'
    BY <1>3, <2>1, <2>2, Names DEF IInv, PlaceInv, LoopInv, TeardownInv, Owns, StrayInv,
           Destroying, Laying, FlagInv, ExecInv, DataInv
  <2>6. ModeInv' /\ StateInv'
    BY <1>3, <2>1, Names DEF IInv, ModeInv, Starting, EStopping, Does, StateInv, Is, Laying,
           Clearing
  <2>7. Apart => ApartInv'
    BY <1>3, <2>1, <2>2, Names DEF IInv, ApartInv, FatalInv, QuietInv, JoinedInv, LatchInv,
           EStopping, Apart, InReset, InInit, Laying, ResetDeep, InitDeep, MonitorJoined,
           BusJoined
  <2>8. Haltable => HaltInv'
    BY <1>3, <2>1, <2>2, Names DEF IInv, HaltInv, Haltable, Halted, MonitorHarmless, HaltsNext,
           Pending, Starting
  <2>9. Lively => AliveInv'
    BY <1>3, <2>1, <2>2, Names DEF IInv, AliveInv, Awake, MonitorRestarts, Lively
  <2>10. Orderly => broken' = {} /\ UseInv'
    BY <1>3, <2>1, Names DEF IInv, UseInv, Orderly, Dead, MonitorHarmless, MonitorRestarts,
           ResetDeep
  <2> QED
    BY <2>1, <2>4, <2>5, <2>6, <2>7, <2>8, <2>9, <2>10, EnvStays DEF IInv
<1>4. ASSUME At("monitor", "m_recover"), controller, Call("monitor", "t_halt", "m_start"),
           UNCHANGED <<state, latch, teardown, flag, loop, controller, tasks, paused, units,
                       attempts, failing, exec, broken>>
    PROVE  IInv'
  <2>0. "monitor" \in Threads /\ pc["monitor"] = "m_recover" /\ Call("monitor", "t_halt", "m_start")
    BY <1>4, Names DEF At
  <2>1. ControlInv' /\ Moved("monitor", "t_halt", "m_start", "m_start")
    BY <2>0, Backs, Enters DEF IInv
  <2>2. /\ pc["monitor"] = "m_recover"
        /\ controller
    BY <1>4 DEF At, IInv
  <2>3. Site("monitor")
    BY Sites, Names DEF IInv
  <2>4. DataInv'
    BY <1>4, <2>1 DEF IInv, DataInv, States
  <2>5. PlaceInv'
    BY <1>4, <2>1, <2>2, <2>3, Names DEF IInv, PlaceInv, LoopInv, TeardownInv, Owns, StrayInv,
           FlagInv, ExecInv
  <2>6. ModeInv' /\ StateInv'
    BY <1>4, <2>1, <2>2, Names DEF IInv, ModeInv, Starting, EStopping, Does, StateInv, Is, Laying,
           Clearing
  <2>7. Apart => ApartInv'
    BY <1>4, <2>1, Names DEF IInv, ApartInv, FatalInv, QuietInv, JoinedInv, LatchInv, EStopping,
           Apart, InReset, InInit, Laying, ResetDeep, InitDeep, MonitorJoined, BusJoined
  <2>8. Haltable => HaltInv'
    BY <1>4, <2>1, <2>2, <2>3, Names DEF IInv, HaltInv, Haltable, Halted, MonitorHarmless,
           HaltsNext, Pending, Starting
  <2>9. Lively => AliveInv'
    BY <1>4, <2>1, Names DEF IInv, AliveInv, Awake, MonitorRestarts, Lively
  <2>10. Orderly => broken' = {} /\ UseInv'
    BY <1>4, <2>1, Names DEF IInv, UseInv, Orderly, Dead, MonitorHarmless, ResetDeep
  <2> QED
    BY <2>1, <2>4, <2>5, <2>6, <2>7, <2>8, <2>9, <2>10, EnvStays DEF IInv
<1>5. ASSUME At("monitor", "m_recover"), ~controller, Goto("monitor", "loop"),
           UNCHANGED <<state, latch, teardown, flag, loop, controller, tasks, paused, units,
                       attempts, failing, exec, broken>>
    PROVE  IInv'
  <2>1. ControlInv' /\ Moved("monitor", "loop", top["monitor"], base["monitor"])
    BY <1>5, Names, Goes DEF IInv, At, SameCall
  <2>2. /\ pc["monitor"] = "m_recover"
        /\ ~controller
    BY <1>5 DEF At, IInv
  <2>4. DataInv'
    BY <1>5, <2>1 DEF IInv, DataInv, States
  <2>5. PlaceInv'
    BY <1>5, <2>1, <2>2, Names DEF IInv, PlaceInv, LoopInv, TeardownInv, Owns, StrayInv,
           Destroying, Laying, FlagInv, ExecInv
  <2>6. ModeInv' /\ StateInv'
    BY <1>5, <2>1, Names DEF IInv, ModeInv, Starting, EStopping, Does, StateInv, Is, Laying,
           Clearing
  <2>7. Apart => ApartInv'
    BY <1>5, <2>1, <2>2, Names DEF IInv, ApartInv, FatalInv, QuietInv, JoinedInv, LatchInv,
           EStopping, Apart, InReset, InInit, Laying, ResetDeep, InitDeep, MonitorJoined,
           BusJoined
  <2>8. Haltable => HaltInv'
    BY <1>5, <2>1, <2>2, Names DEF IInv, HaltInv, Haltable, Halted, MonitorHarmless, HaltsNext,
           Pending, Starting
  <2>9. Lively => AliveInv'
    BY <1>5, <2>1, Names DEF IInv, AliveInv, Awake, Lively
  <2>10. Orderly => broken' = {} /\ UseInv'
    BY <1>5, <2>1, Names DEF IInv, UseInv, Orderly, Dead, MonitorHarmless, MonitorRestarts,
           ResetDeep
  <2> QED
    BY <2>1, <2>4, <2>5, <2>6, <2>7, <2>8, <2>9, <2>10, EnvStays DEF IInv
<1>6. ASSUME At("monitor", "m_start"), SchedulerFree("monitor"), controller, StartWorker("scheduler"),
           paused' = (paused /\ flag["scheduler"]), Goto("monitor", "loop"),
           UNCHANGED <<state, latch, teardown, controller, tasks, units, attempts, failing, exec,
                       broken>>
    PROVE  IInv'
  <2>1. ControlInv' /\ Moved("monitor", "loop", top["monitor"], base["monitor"])
    BY <1>6, Names, Goes DEF IInv, At, SameCall
  <2>2. /\ pc["monitor"] = "m_start"
        /\ controller /\ paused' \in BOOLEAN
        /\ \A u \in Threads \ {"monitor"} : pc[u] # "t_join"
        /\ loop["scheduler"] # "running" /\ loop'["scheduler"] = "running" /\ flag'["scheduler"]
        /\ loop'["bus"] = loop["bus"] /\ flag'["bus"] = flag["bus"]
        /\ loop'["monitor"] = loop["monitor"] /\ flag'["monitor"] = flag["monitor"]
        /\ flag' \in [Workers -> BOOLEAN]
        /\ loop' \in [Workers -> {"none", "running", "ended"}]
    BY <1>6, Names DEF At, IInv, DataInv, StartWorker, SchedulerFree
  <2>3. Site("monitor")
    BY Sites, Names DEF IInv
  <2>4. DataInv'
    BY <1>6, <2>1, <2>2 DEF IInv, DataInv, States
  <2>5. PlaceInv'
    BY <1>6, <2>1, <2>2, Names DEF IInv, PlaceInv, LoopInv, TeardownInv, Owns, StrayInv, FlagInv,
           ExecInv
  <2>6. ModeInv' /\ StateInv'
    BY <1>6, <2>1, Names DEF IInv, ModeInv, Starting, EStopping, Does, StateInv, Is, Laying,
           Clearing
  <2>7. Apart => ApartInv'
    <3>1. Apart => FatalInv'
      BY <1>6, <2>1, <2>2 DEF IInv, ApartInv, FatalInv, EStopping, Apart
    <3>2. Apart => QuietInv'
      BY <1>6, <2>1, <2>2, Names DEF IInv, PlaceInv, ApartInv, QuietInv, LoopInv, JoinedInv,
             EStopping, Apart, InReset, InInit, Laying, InitDeep, MonitorJoined, BusJoined
    <3>3. Apart => JoinedInv'
      BY <1>6, <2>1, <2>2, Names DEF IInv, PlaceInv, ApartInv, JoinedInv, LoopInv, Apart
    <3>4. Apart => LatchInv'
      BY <1>6, <2>1 DEF IInv, ApartInv, LatchInv, Apart
    <3> QED
      BY <3>1, <3>2, <3>3, <3>4 DEF ApartInv
  <2>8. Haltable => HaltInv'
    BY <1>6, <2>1, <2>2, <2>3, Names DEF IInv, PlaceInv, HaltInv, Haltable, Halted,
           MonitorHarmless, HaltsNext, Pending, ModeInv, LoopInv
  <2>9. Lively => AliveInv'
    BY <1>6, <2>1, <2>2, Names DEF IInv, AliveInv, Awake, Lively, ModeInv
  <2>10. Orderly => broken' = {} /\ UseInv'
    BY <1>6, <2>1, <2>2, Names DEF IInv, PlaceInv, UseInv, Orderly, Dead, MonitorHarmless,
           ResetDeep, ModeInv, LoopInv
  <2> QED
    BY <2>1, <2>4, <2>5, <2>6, <2>7, <2>8, <2>9, <2>10, EnvStays DEF IInv
<1>7. ASSUME At("monitor", "m_start"), controller, flag["scheduler"],
           paused' = (paused /\ flag["scheduler"]), Goto("monitor", "loop"),
           UNCHANGED <<state, latch, teardown, flag, loop, controller, tasks, units, attempts,
                       failing, exec, broken>>
    PROVE  IInv'
  <2>1. ControlInv' /\ Moved("monitor", "loop", top["monitor"], base["monitor"])
    BY <1>7, Names, Goes DEF IInv, At, SameCall
  <2>2. /\ pc["monitor"] = "m_start"
        /\ controller /\ paused' = paused /\ flag["scheduler"]
    BY <1>7 DEF At, IInv, DataInv
  <2>3. Site("monitor")
    BY Sites, Names DEF IInv
  <2>4. DataInv'
    BY <1>7, <2>1 DEF IInv, DataInv, States
  <2>5. PlaceInv'
    BY <1>7, <2>1, <2>2, Names DEF IInv, PlaceInv, LoopInv, TeardownInv, Owns, StrayInv, FlagInv,
           ExecInv
  <2>6. ModeInv' /\ StateInv'
    BY <1>7, <2>1, Names DEF IInv, ModeInv, Starting, EStopping, Does, StateInv, Is, Laying,
           Clearing
  <2>7. Apart => ApartInv'
    BY <1>7, <2>1, <2>2, Names DEF IInv, ApartInv, FatalInv, QuietInv, JoinedInv, LatchInv,
           EStopping, Apart, InReset, InInit, Laying, ResetDeep, InitDeep, MonitorJoined,
           BusJoined
  <2>8. Haltable => HaltInv'
    BY <1>7, <2>1, <2>2, <2>3, Names DEF IInv, PlaceInv, ApartInv, HaltInv, Haltable, Halted,
           MonitorHarmless, HaltsNext, Pending, Starting, Apart, Does
  <2>9. Lively => AliveInv'
    BY <1>7, <2>1, <2>2, Names DEF IInv, AliveInv, Awake, Lively
  <2>10. Orderly => broken' = {} /\ UseInv'
    BY <1>7, <2>1, Names DEF IInv, UseInv, Orderly, Dead, MonitorHarmless, ResetDeep
  <2> QED
    BY <2>1, <2>4, <2>5, <2>6, <2>7, <2>8, <2>9, <2>10, EnvStays DEF IInv
<1>8. ASSUME At("monitor", "m_start"), ~controller, broken' = broken \cup {"null_controller"}, Goto("monitor", "loop"),
           UNCHANGED <<state, latch, teardown, flag, loop, controller, tasks, paused, units,
                       attempts, failing, exec>>
    PROVE  IInv'
  <2>1. ControlInv' /\ Moved("monitor", "loop", top["monitor"], base["monitor"])
    BY <1>8, Names, Goes DEF IInv, At, SameCall
  <2>2. /\ pc["monitor"] = "m_start"
        /\ ~controller /\ broken' = broken \cup {"null_controller"}
    BY <1>8 DEF At, IInv
  <2>4. DataInv'
    BY <1>8, <2>1 DEF IInv, DataInv, States
  <2>5. PlaceInv'
    BY <1>8, <2>1, <2>2, Names DEF IInv, PlaceInv, LoopInv, TeardownInv, Owns, StrayInv,
           Destroying, Laying, FlagInv, ExecInv
  <2>6. ModeInv' /\ StateInv'
    BY <1>8, <2>1, Names DEF IInv, ModeInv, Starting, EStopping, Does, StateInv, Is, Laying,
           Clearing
  <2>7. Apart => ApartInv'
    BY <1>8, <2>1, <2>2, Names DEF IInv, ApartInv, FatalInv, QuietInv, JoinedInv, LatchInv,
           EStopping, Apart, InReset, InInit, Laying, ResetDeep, InitDeep, MonitorJoined,
           BusJoined
  <2>8. Haltable => HaltInv'
    BY <1>8, <2>1, <2>2, Names DEF IInv, HaltInv, Haltable, Halted, MonitorHarmless, HaltsNext,
           Pending, Starting
  <2>9. Lively => AliveInv'
    BY <1>8, <2>1, Names DEF IInv, AliveInv, Awake, Lively
  <2>10. Orderly => broken' = {} /\ UseInv'
    BY <1>8, <2>1, <2>2 DEF IInv, UseInv, Orderly, Dead, MonitorRestarts
  <2> QED
    BY <2>1, <2>4, <2>5, <2>6, <2>7, <2>8, <2>9, <2>10, EnvStays DEF IInv
<1> QED
  BY <1>1, <1>2, <1>3, <1>4, <1>5, <1>6, <1>7, <1>8 DEF Recovery, AttemptRecovery, Restart, fsm,
         threads, timing, local

\* The scheduler runs a task.
LEMMA KeptByRunTask ==
  ASSUME IInv, Stays, RunTask
  PROVE  IInv'
<1>1. ASSUME NEW u \in tasks, At("scheduler", "loop"), loop["scheduler"] = "running", flag["scheduler"],
           exec' = u, Touch(u), Goto("scheduler", "x_unit"),
           UNCHANGED <<state, latch, teardown, flag, loop, controller, tasks, paused, units,
                       attempts, failing>>
    PROVE  IInv'
  <2>1. ControlInv' /\ Moved("scheduler", "x_unit", top["scheduler"], base["scheduler"])
    BY <1>1, Names, Goes DEF IInv, At, SameCall
  <2>2. /\ pc["scheduler"] = "loop"
        /\ exec' = u /\ u \in tasks /\ u \in Units
        /\ loop["scheduler"] = "running" /\ flag["scheduler"]
        /\ broken' = IF u \in units THEN broken ELSE broken \cup {"freed_unit"}
    BY <1>1 DEF At, IInv, DataInv, Touch
  <2>3. Site("scheduler")
    BY Sites, Names DEF IInv
  <2>4. DataInv'
    BY <1>1, <2>1, <2>2 DEF IInv, DataInv, States
  <2>5. PlaceInv'
    BY <1>1, <2>1, <2>2, Names, NoUnitAssumption DEF IInv, PlaceInv, LoopInv, TeardownInv, Owns,
           StrayInv, Destroying, Laying, FlagInv, ExecInv
  <2>6. ModeInv' /\ StateInv'
    <3>1. ModeInv'
      BY <1>1, <2>1, Names DEF IInv, ModeInv, Starting, EStopping, Does
    <3>2. StateInv'
      BY <1>1, <2>1, Names DEF IInv, StateInv, Is, Laying, Clearing
    <3> QED
      BY <3>1, <3>2
  <2>7. Apart => ApartInv'
    BY <1>1, <2>1, <2>2, <2>3, Names DEF IInv, ApartInv, FatalInv, QuietInv, JoinedInv, LatchInv,
           EStopping, Apart, InReset, InInit, Laying, InitDeep, MonitorJoined, BusJoined
  <2>8. Haltable => HaltInv'
    BY <1>1, <2>1, <2>2, Names DEF IInv, ApartInv, HaltInv, Haltable, Halted, MonitorHarmless,
           HaltsNext, Pending, Starting
  <2>9. Lively => AliveInv'
    BY <1>1, <2>1, Names DEF IInv, AliveInv, Awake, Lively
  <2>10. Orderly => broken' = {} /\ UseInv'
    BY <1>1, <2>1, <2>2, Names DEF IInv, UseInv, Orderly, Dead, ResetDeep
  <2> QED
    BY <2>1, <2>4, <2>5, <2>6, <2>7, <2>8, <2>9, <2>10, EnvStays DEF IInv
<1>2. ASSUME At("scheduler", "x_unit"), Goto("scheduler", "x_done"),
           UNCHANGED <<state, latch, teardown, flag, loop, controller, tasks, paused, units,
                       attempts, failing, exec, broken>>
    PROVE  IInv'
  <2>1. ControlInv' /\ Moved("scheduler", "x_done", top["scheduler"], base["scheduler"])
    BY <1>2, Names, Goes DEF IInv, At, SameCall
  <2>2. /\ pc["scheduler"] = "x_unit"
    BY <1>2 DEF At, IInv
  <2>3. Site("scheduler")
    BY Sites, Names DEF IInv
  <2>4. DataInv'
    BY <1>2, <2>1 DEF IInv, DataInv, States
  <2>5. PlaceInv'
    BY <1>2, <2>1, <2>2, Names DEF IInv, PlaceInv, LoopInv, TeardownInv, Owns, StrayInv,
           Destroying, Laying, FlagInv, ExecInv
  <2>6. ModeInv' /\ StateInv'
    BY <1>2, <2>1, Names DEF IInv, ModeInv, Starting, EStopping, Does, StateInv, Is, Laying,
           Clearing
  <2>7. Apart => ApartInv'
    BY <1>2, <2>1, <2>2, <2>3, Names DEF IInv, ApartInv, FatalInv, QuietInv, JoinedInv, LatchInv,
           EStopping, Apart, InReset, InInit, Laying, InitDeep, MonitorJoined, BusJoined
  <2>8. Haltable => HaltInv'
    BY <1>2, <2>1, <2>2, <2>3, Names DEF IInv, ApartInv, HaltInv, Haltable, Halted,
           MonitorHarmless, HaltsNext, Pending, Starting
  <2>9. Lively => AliveInv'
    BY <1>2, <2>1, Names DEF IInv, AliveInv, Awake, MonitorRestarts, Lively
  <2>10. Orderly => broken' = {} /\ UseInv'
    BY <1>2, <2>1, <2>2, Names DEF IInv, UseInv, Orderly, Dead, MonitorHarmless, MonitorRestarts,
           ResetDeep
  <2> QED
    BY <2>1, <2>4, <2>5, <2>6, <2>7, <2>8, <2>9, <2>10, EnvStays DEF IInv
<1>3. ASSUME At("scheduler", "x_done"), Touch(exec), exec' = NoUnit, Goto("scheduler", "loop"),
           UNCHANGED <<state, latch, teardown, flag, loop, controller, tasks, paused, units,
                       attempts, failing>>
    PROVE  IInv'
  <2>1. ControlInv' /\ Moved("scheduler", "loop", top["scheduler"], base["scheduler"])
    BY <1>3, Names, Goes DEF IInv, At, SameCall
  <2>2. /\ pc["scheduler"] = "x_done"
        /\ exec' = NoUnit
        /\ broken' = IF exec \in units THEN broken ELSE broken \cup {"freed_unit"}
    BY <1>3 DEF At, IInv, Touch
  <2>3. Site("scheduler")
    BY Sites, Names DEF IInv
  <2>4. DataInv'
    BY <1>3, <2>1, <2>2 DEF IInv, DataInv, States
  <2>5. PlaceInv'
    BY <1>3, <2>1, <2>2, Names DEF IInv, PlaceInv, LoopInv, TeardownInv, Owns, StrayInv,
           Destroying, Laying, FlagInv, ExecInv
  <2>6. ModeInv' /\ StateInv'
    BY <1>3, <2>1, Names DEF IInv, ModeInv, Starting, EStopping, Does, StateInv, Is, Laying,
           Clearing
  <2>7. Apart => ApartInv'
    <3>1. Apart => FatalInv'
      BY <1>3, <2>1, <2>2 DEF IInv, ApartInv, FatalInv, EStopping, Apart
    <3>2. Apart => QuietInv'
      BY <1>3, <2>1, <2>2, <2>3, Names DEF IInv, PlaceInv, ApartInv, QuietInv, LoopInv, StrayInv,
             Destroying, JoinedInv, EStopping, Apart, Does, InReset, InInit, Laying, ResetDeep,
             InitDeep, MonitorJoined, BusJoined
    <3>3. Apart => JoinedInv'
      BY <1>3, <2>1, Names DEF IInv, ApartInv, JoinedInv
    <3>4. Apart => LatchInv'
      BY <1>3, <2>1 DEF IInv, ApartInv, LatchInv, Apart
    <3> QED
      BY <3>1, <3>2, <3>3, <3>4 DEF ApartInv
  <2>8. Haltable => HaltInv'
    BY <1>3, <2>1, <2>2, Names DEF IInv, HaltInv, Haltable, Halted, MonitorHarmless, HaltsNext,
           Pending, Starting
  <2>9. Lively => AliveInv'
    BY <1>3, <2>1, Names DEF IInv, AliveInv, Awake, MonitorRestarts, Lively
  <2>10. Orderly => broken' = {} /\ UseInv'
    BY <1>3, <2>1, <2>2, Names DEF IInv, UseInv, Orderly, Dead, MonitorHarmless, MonitorRestarts,
           ResetDeep
  <2> QED
    BY <2>1, <2>4, <2>5, <2>6, <2>7, <2>8, <2>9, <2>10, EnvStays DEF IInv
<1> QED
  BY <1>1, <1>2, <1>3 DEF RunTask, fsm, threads, timing

HIDE DEF InitPC, StartPC, StopPC, ResetPC, EStopPC, Halts, Drops, Home, EStopBack,
         HaltBack, DropBack, Site, Moved, Op, Stays

-----------------------------------------------------------------------------
(* The invariant holds throughout.                                          *)

LEMMA Start == Init => IInv
<1> SUFFICES ASSUME Init PROVE IInv
  OBVIOUS
<1>1. \A t \in Threads : /\ stack[t] = << >> /\ top[t] = "none" /\ base[t] = "none"
                         /\ pc[t] = IF t \in Workers THEN "loop" ELSE "idle"
  BY DEF Init, top, base
<1>2. \A t \in Threads : /\ pc[t] \in Home(t) /\ ~EStopping(t)
                         /\ pc[t] \notin Halts /\ pc[t] \notin Drops
  BY <1>1, Names DEF Home, EStopping, EStopPC, Halts, Drops
<1>3. ControlInv
  <2>1. pc \in [Threads -> PCs]
    BY DEF Init, PCs
  <2>2. stack \in [Threads -> Seq(PCs)]
    <3>1. << >> \in Seq(PCs)
      OBVIOUS
    <3> QED
      BY <3>1 DEF Init
  <2> QED
    BY <1>1, <1>2, <2>1, <2>2 DEF ControlInv, CallsNest
<1>4. DataInv
  <2>1. flag \in [Workers -> BOOLEAN] /\ loop \in [Workers -> {"none", "running", "ended"}]
    BY DEF Init
  <2>2. attempts \in 0..MaxRecoveries
    BY RecoveryAssumption DEF Init
  <2> QED
    BY <2>1, <2>2 DEF Init, DataInv, States
<1>5. /\ pc[Op] = "idle" /\ top[Op] = "none" /\ base[Op] = "none"
      /\ \A w \in Workers : pc[w] = "loop" /\ base[w] = "none"
      /\ \A t \in Threads : t \notin Workers => pc[t] = "idle"
  BY <1>1, Names
<1>6. PlaceInv
  <2>1. LoopInv
    BY <1>5 DEF LoopInv
  <2>2. TeardownInv
    BY <1>1, Names DEF Init, TeardownInv, Owns
  <2>3. StrayInv
    BY <1>5 DEF Init, StrayInv, Laying, Workers
  <2>4. FlagInv
    BY <1>1 DEF Init, FlagInv, Workers
  <2>5. ExecInv
    BY <1>5 DEF Init, ExecInv, Workers
  <2> QED
    BY <2>1, <2>2, <2>3, <2>4, <2>5 DEF PlaceInv
<1>7. ModeInv
  BY <1>2, <1>5, Names DEF ModeInv
<1>8. StateInv
  BY <1>5 DEF Init, StateInv, Laying, Clearing, StopPC
<1>9. ApartInv
  <2>1. FatalInv
    BY <1>2 DEF FatalInv
  <2>2. QuietInv
    BY <1>2, <1>5 DEF QuietInv, MonitorJoined, BusJoined, ResetDeep, InitDeep, Laying, InReset,
           InInit, InitPC, ResetPC, DropBack, Workers
  <2>3. JoinedInv
    BY <1>1 DEF JoinedInv
  <2>4. LatchInv
    BY <1>1 DEF LatchInv, EStopPC, StopPC
  <2> QED
    BY <2>1, <2>2, <2>3, <2>4 DEF ApartInv
<1>10. HaltInv
  BY Names DEF Init, HaltInv
<1>11. AliveInv
  BY <1>5 DEF Init, AliveInv, Awake
<1>12. broken = {} /\ UseInv
  BY <1>1, <1>5 DEF Init, UseInv, MonitorRestarts, ResetDeep, ResetPC, Workers
<1> QED
  BY <1>3, <1>4, <1>6, <1>7, <1>8, <1>9, <1>10, <1>11, <1>12 DEF IInv

LEMMA Still ==
  ASSUME IInv, UNCHANGED vars
  PROVE  IInv'
<1>1. /\ UNCHANGED <<env, state, latch, teardown, flag, loop, controller, tasks, paused>>
      /\ UNCHANGED <<units, attempts, failing, exec, broken, pc, stack>>
  BY DEF vars, moving, fsm, threads, timing, local
<1>2. ControlInv' /\ UNCHANGED <<top, base>>
  BY <1>1, Stands DEF IInv
<1>3. DataInv'
  BY <1>1 DEF IInv, DataInv
<1>4. PlaceInv'
  BY <1>1, <1>2 DEF IInv, PlaceInv, LoopInv, TeardownInv, Owns, StrayInv, Destroying, Laying,
         FlagInv, ExecInv
<1>5. ModeInv'
  BY <1>1, <1>2 DEF IInv, ModeInv, EStopping, Starting, Does
<1>6. StateInv'
  BY <1>1, <1>2 DEF IInv, StateInv, Is, Laying, Clearing
<1>7. ApartInv => ApartInv'
  BY <1>1, <1>2 DEF ApartInv, FatalInv, QuietInv, JoinedInv, LatchInv, EStopping, InReset, InInit,
         ResetDeep, InitDeep, MonitorJoined, BusJoined, Laying
<1>8. HaltInv => HaltInv'
  BY <1>1, <1>2 DEF HaltInv, HaltsNext, Pending, Halted, MonitorHarmless, Starting
<1>9. AliveInv => AliveInv'
  BY <1>1, <1>2 DEF AliveInv, Awake, MonitorRestarts
<1>10. UseInv => UseInv'
  BY <1>1, <1>2 DEF UseInv, MonitorRestarts, Dead, MonitorHarmless, ResetDeep
<1>11. /\ (Apart' <=> Apart) /\ (Haltable' <=> Haltable) /\ (Lively' <=> Lively)
       /\ (Orderly' <=> Orderly)
  BY <1>1 DEF Apart, Haltable, Lively, Orderly, Does
<1> QED
  BY <1>1, <1>2, <1>3, <1>4, <1>5, <1>6, <1>7, <1>8, <1>9, <1>10, <1>11 DEF IInv

LEMMA Step == IInv /\ [Next]_vars => IInv'
<1> SUFFICES ASSUME IInv, [Next]_vars PROVE IInv'
  OBVIOUS
<1>1. CASE UNCHANGED vars
  BY <1>1, Still
<1> SUFFICES ASSUME Next PROVE IInv'
  BY <1>1
<1>2. Stays
  BY DEF Next, Stays
<1>3. CASE OperatorStep
  <2>1. CASE JoinStaleLoops \/ InitializeComponents \/ BeginInitialization \/ LoadConfiguration
    BY <1>2, <2>1, KeptByJoinStaleLoops, KeptByInitializeComponents, KeptByBeginInitialization,
       KeptByLoadConfiguration
  <2>2. CASE InitializeBlocksLayout \/ FailInitialization \/ StartLoops \/ FinishInitialization
    BY <1>2, <2>2, KeptByInitializeBlocksLayout, KeptByFailInitialization, KeptByStartLoops,
       KeptByFinishInitialization
  <2>3. CASE StartController \/ ScheduleUnits \/ FinishStart \/ PauseAndResume
    BY <1>2, <2>3, KeptByStartController, KeptByScheduleUnits, KeptByFinishStart,
       KeptByPauseAndResume
  <2>4. CASE StopSignals \/ StopTakesTeardown \/ StopJoins \/ FinishStop
    BY <1>2, <2>4, KeptByStopSignals, KeptByStopTakesTeardown, KeptByStopJoins, KeptByFinishStop
  <2>5. CASE ResetWaits \/ ResetTail \/ ReturnToUser \/ Drop(Op)
    BY <1>2, <2>5, KeptByResetWaits, KeptByResetTail, KeptByReturnToUser, KeptByDrop
  <2> QED
    BY <1>3, <2>1, <2>2, <2>3, <2>4, <2>5 DEF OperatorStep
<1>4. CASE OperatorCalls
  BY <1>2, <1>4, KeptByOperatorCalls
<1>5. CASE HealthCheck
  BY <1>2, <1>5, KeptByHealthCheck
<1>6. ASSUME NEW t \in Threads, AnyStep(t) \/ UserCodePullsEStop(t)
      PROVE  IInv'
  BY <1>2, <1>6, KeptByEStopSignals, KeptByEStopTakesTeardown, KeptByEStopJoins,
     KeptByEStopClears, KeptByTimingStop, KeptByUserCodePullsEStop DEF AnyStep, EmergencyShutdown
<1>7. ASSUME NEW w \in Workers, WorkerStep(w)
      PROVE  IInv'
  BY <1>2, <1>7, KeptByLoopEnds, KeptByRecovery, KeptByRunTask DEF WorkerStep
<1>8. ASSUME NEW u \in Units, RegisterProcessingUnit(u)
      PROVE  IInv'
  BY <1>2, <1>8, KeptByRegisterProcessingUnit
<1> QED
  BY <1>3, <1>4, <1>5, <1>6, <1>7, <1>8 DEF Next

LEMMA Always == Spec => []IInv
<1>1. Init => IInv
  BY Start
<1>2. IInv /\ [Next]_vars => IInv'
  BY Step
<1> QED
  BY <1>1, <1>2, PTL DEF Spec

-----------------------------------------------------------------------------
(* The theorems                                                             *)

\* Every field of AxonVexSystem and LifecycleController keeps its range, and no
\* thread nests deeper than emergencyShutdown() inside a step of its own and
\* TimingController::stop() inside that.
THEOREM TypeCorrect == Spec => []TypeOK
<1>1. IInv => TypeOK
  <2> SUFFICES ASSUME IInv PROVE TypeOK
    OBVIOUS
  <2>1. ASSUME NEW t \in Threads PROVE stack[t] \in Seq(PCs) /\ Len(stack[t]) <= 2
    <3>1. stack[t] \in Seq(PCs) /\ CallsNest(t)
      BY DEF IInv, ControlInv
    <3>2. ASSUME stack[t] = << >> PROVE Len(stack[t]) <= 2
      BY <3>2
    <3>3. ASSUME NEW r, stack[t] = <<r>> PROVE Len(stack[t]) <= 2
      BY <3>3
    <3>4. ASSUME NEW r, stack[t] = <<"e_clear", r>> PROVE Len(stack[t]) <= 2
      BY <3>4
    <3> QED
      BY <3>1, <3>2, <3>3, <3>4 DEF CallsNest
  <2> QED
    BY <2>1 DEF IInv, ControlInv, DataInv, TypeOK
<1> QED
  BY Always, <1>1, PTL

\* A thread that is inside a call is not settled.
LEMMA Busy ==
  ASSUME IInv, Settled
  PROVE  /\ \A t \in Threads : stack[t] = << >> /\ top[t] = "none" /\ base[t] = "none"
         /\ pc[Op] = "idle" /\ pc["bus"] = "loop" /\ pc["monitor"] = "loop"
         /\ pc["scheduler"] \in {"loop", "x_unit"}
<1>1. ASSUME NEW t \in Threads
      PROVE  /\ stack[t] = << >> /\ top[t] = "none" /\ base[t] = "none"
             /\ pc[t] \in Home(t) \cap {"idle", "loop", "x_unit"}
  <2>1. pc[t] \in {"idle", "loop", "x_unit"} /\ Site(t)
    BY Sites DEF IInv, Settled, InCall
  <2>2. pc[t] \notin EStopPC /\ pc[t] \notin Halts /\ pc[t] \notin Drops
    BY <2>1 DEF EStopPC, Halts, Drops
  <2> QED
    BY <2>1, <2>2 DEF Site
<1>2. pc[Op] = "idle"
  BY <1>1, Names DEF Home, InitPC, StartPC, StopPC, ResetPC
<1>3. pc["bus"] = "loop" /\ pc["monitor"] = "loop" /\ pc["scheduler"] \in {"loop", "x_unit"}
  BY <1>1, Names DEF Home
<1> QED
  BY <1>1, <1>2, <1>3

\* LifecycleController's latch, up from the signal of stop() or of
\* emergencyShutdown() until the call is over, on whatever thread: initialize()
\* clears it between no two steps of a shutdown, unless an e-stop overlaps
\* initialize() or reset().
THEOREM LatchIsKept == Spec => [](Does("overlap") \/ LatchHolds)
<1>1. IInv => Does("overlap") \/ LatchHolds
  BY Paths DEF IInv, Apart, ApartInv, LatchInv, LatchHolds
<1> QED
  BY Always, <1>1, PTL

\* timingController_ and the registered units: no thread calls through a null
\* pointer, is inside a controller that initialize(), stop() or reset()
\* destroys, or runs the task of a unit that an e-stop or reset() destroyed.
\* The property itself names the freedoms that break this.
THEOREM NothingIsFreedInUse == Spec => []NothingFreedInUse
<1>1. IInv => NothingFreedInUse
  BY DEF IInv, Orderly, NothingFreedInUse
<1> QED
  BY Always, <1>1, PTL

\* emergencyShutdown() is final: once it and the calls it raced have returned,
\* the scheduler's loop was told to stop and executes no unit, whoever pulled it
\* and whatever start(), stop() and the monitor's recovery did meanwhile. An
\* e-stop inside initialize() or reset() is excluded, and so is a health callback
\* that pulls it on the thread that then recovers: both leave the scheduler on.
THEOREM EStopIsFinal ==
  ASSUME \A e \in Environments : /\ "overlap" \notin e.does
                                 /\ ~(e.recovery /\ "monitor_estop" \in e.does)
  PROVE  Spec => []EStopHalts
<1>1. IInv => EStopHalts
  <2> SUFFICES ASSUME IInv, state = "FATAL_ERROR", Settled
               PROVE  ~flag["scheduler"] /\ exec = NoUnit
    BY DEF EStopHalts
  <2>1. HaltInv
    BY DEF IInv, DataInv, Haltable, Apart, Does
  <2>2. \A t \in Threads : ~Pending(t)
    BY Busy DEF Settled, InCall, Pending, HaltsNext
  <2>3. ~Starting
    BY Busy, Names DEF Starting
  <2>4. ~flag["scheduler"] /\ pc["scheduler"] # "x_unit"
    BY <2>1, <2>2, <2>3 DEF HaltInv, Halted
  <2>5. pc["scheduler"] = "loop"
    BY <2>4, Busy
  <2> QED
    BY <2>4, <2>5 DEF IInv, PlaceInv, ExecInv
<1> QED
  BY Always, <1>1, PTL

\* getState(): RUNNING says that a controller exists whose loop runs with a task
\* for every unit, next to a live event thread and no raised latch; PAUSED, that
\* the scheduler is paused; a shutdown in progress, that its latch is up. It
\* takes an operator who starts what was initialised and registers units when
\* the system is neither starting nor paused, and e-stops outside initialize().
THEOREM StatesAreKept ==
  ASSUME \A e \in Environments : e.does \cap {"overlap", "restart", "from_error", "late"} = {}
  PROVE  Spec => []StatesHold
<1>1. IInv => RunningIsAlive /\ PausedIsPaused
  <2> SUFFICES ASSUME IInv, Settled
               PROVE  /\ state = "RUNNING" => /\ controller /\ flag["scheduler"]
                                              /\ loop["scheduler"] = "running"
                                              /\ ~latch /\ flag["bus"] /\ loop["bus"] = "running"
                                              /\ units \subseteq tasks
                      /\ state = "PAUSED" => paused \/ env.recovery
    BY DEF RunningIsAlive, PausedIsPaused
  <2>1. AliveInv
    BY DEF IInv, DataInv, Lively
  <2>2. ~MonitorRestarts
    BY Busy, Names DEF MonitorRestarts
  <2>3. flag["scheduler"] => loop["scheduler"] = "running"
    BY DEF IInv, PlaceInv, FlagInv
  <2> QED
    BY <2>1, <2>2, <2>3 DEF AliveInv, Awake
<1>2. IInv => ~Does("overlap")
  BY DEF IInv, DataInv, Does
<1>3. TypeOK /\ RunningIsAlive /\ PausedIsPaused /\ LatchHolds => StatesHold
  BY DEF StatesHold
<1> QED
  BY Always, TypeCorrect, LatchIsKept, <1>1, <1>2, <1>3, PTL
=============================================================================
