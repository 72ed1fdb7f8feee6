------------------------------ MODULE EventBus ------------------------------
(***************************************************************************)
(* axonvex::core::EventBus under the life cycle AxonVexSystem gives it:    *)
(* publishers on any thread, the dispatch loop, and the operator thread    *)
(* that initializes, stops and resets the system.                          *)
(*                                                                         *)
(* MemoryPool and ThreadSafeQueue are seen through what they promise: a    *)
(* bounded set of blocks and a bounded queue, each operation in one step.  *)
(* The dispatch thread is seen through the contract of WorkerThread.       *)
(*                                                                         *)
(* A publish() that straddles a shutdown, having read the latch before it  *)
(* was raised and enqueuing after the drain, is allowed by Straddle.       *)
(***************************************************************************)
EXTENDS Naturals, Sequences, FiniteSets

CONSTANTS Publishers,  \* threads that publish
          Clients,     \* threads that register one callback each
          Nobody,      \* no event, no client
          PoolSize,    \* SystemConfiguration::eventPoolSize
          QueueSize,   \* capacity of the queue
          MaxEvents,   \* publish() calls per publisher
          MaxInits,    \* initialize() calls
          MaxIds,      \* callback ids between two resets
          Straddle,    \* see above
          SelfStop     \* a callback may call emergencyShutdown()

ASSUME SizesAssumption == /\ PoolSize \in Nat \ {0} /\ QueueSize \in Nat \ {0}
                          /\ MaxEvents \in Nat /\ MaxInits \in Nat /\ MaxIds \in Nat
ASSUME NamesAssumption == /\ {"operator", "bus"} \cap (Publishers \cup Clients) = {}
                          /\ Nobody \notin Clients
ASSUME FreedomAssumption == Straddle \in BOOLEAN /\ SelfStop \in BOOLEAN

Op      == "operator"
Bus     == "bus"
Threads == {Op, Bus} \cup Publishers

VARIABLES
  phase,     \* the part of currentState_ that the bus depends on
  latch,     \* isShuttingDown_
  teardown,  \* owner of shutdownMutex_
  running,   \* running_
  loop,      \* dispatchThread_: "none", "running", "ended" (still joinable)
  inits,     \* which pool eventPool_ points to: 0 before the first initialize()
  free,      \* free blocks of that pool
  queue,     \* eventQueue_
  held,      \* held[p]: the event p allocated and has not enqueued
  handling,  \* the event of the dispatch loop
  todo,      \* what is left of the snapshot the loop is calling
  registry,  \* callbacks_: the <<id, client>> that are not null
  nextId,    \* nextCallbackId_
  idOf,      \* idOf[c]: the id registerCallback() gave c, 0 when it holds none
  sent,      \* sent[p]: publish() calls of p
  lost,      \* events that were alive in a pool when it was replaced
  resetting, \* the shutdown in progress is reset()'s
  pc         \* where each thread is

pool   == <<inits, free>>
cbs    == <<registry, nextId, idOf>>
events == <<queue, held, handling>>
life   == <<phase, latch, teardown, running, loop>>
vars   == <<life, pool, events, todo, cbs, sent, lost, resetting, pc>>

Event == [by : Publishers, n : 1..MaxEvents, pool : 1..MaxInits]

ASSUME NobodyAssumption == Nobody \notin Event

OperatorPC == {"idle", "i_join", "i_pool", "i_clear", "i_start", "i_done", "i_cleanup",
               "h_latch", "h_lock", "h_join", "h_drain", "h_done",
               "z_wait", "z_join", "z_clear"}
BusPC      == {"none", "check", "take", "snapshot", "call", "fatal", "latch", "try", "drain"}

TypeOK ==
  /\ phase \in {"down", "up", "stopping", "stopped", "fatal"}
  /\ latch \in BOOLEAN /\ running \in BOOLEAN
  /\ teardown \in {"none", Op, Bus}
  /\ loop \in {"none", "running", "ended"}
  /\ inits \in 0..MaxInits /\ free \in 0..PoolSize
  /\ queue \in Seq(Event) /\ Len(queue) <= QueueSize
  /\ held \in [Publishers -> Event \cup {Nobody}]
  /\ handling \in Event \cup {Nobody}
  /\ todo \in Seq((1..MaxIds) \X Clients)
  /\ registry \subseteq (1..MaxIds) \X Clients
  /\ nextId \in 1..MaxIds + 1 /\ idOf \in [Clients -> 0..MaxIds]
  /\ sent \in [Publishers -> 0..MaxEvents]
  /\ lost \subseteq Event /\ resetting \in BOOLEAN
  /\ pc[Op] \in OperatorPC /\ pc[Bus] \in BusPC
  /\ \A p \in Publishers : pc[p] \in {"idle", "alloc", "enqueue"}

Init ==
  /\ phase = "down" /\ latch = FALSE /\ teardown = "none"
  /\ running = FALSE /\ loop = "none"
  /\ inits = 0 /\ free = 0 /\ queue = << >>
  /\ held = [p \in Publishers |-> Nobody] /\ handling = Nobody /\ todo = << >>
  /\ registry = {} /\ nextId = 1 /\ idOf = [c \in Clients |-> 0]
  /\ sent = [p \in Publishers |-> 0] /\ lost = {} /\ resetting = FALSE
  /\ pc = [t \in Threads |-> IF t = Bus THEN "none" ELSE "idle"]

At(t, l)   == pc[t] = l
Goto(t, l) == pc' = [pc EXCEPT ![t] = l]

\* The events that occupy a block.
Alive == ({queue[i] : i \in DOMAIN queue} \cup {held[p] : p \in Publishers} \cup {handling})
           \ {Nobody}

ShutdownRequested == latch \/ phase \in {"stopping", "stopped", "fatal"}

-----------------------------------------------------------------------------
(* publish()                                                                *)

\* Fault: C25 undone, publish() does not look at the latch.
checkNothing(p) ==
  /\ At(p, "idle") /\ sent[p] < MaxEvents
  /\ sent' = [sent EXCEPT ![p] = @ + 1]
  /\ IF inits = 0 THEN UNCHANGED pc ELSE Goto(p, "alloc")
  /\ UNCHANGED <<life, pool, events, todo, cbs, lost, resetting>>

checkLatch(p) ==
  /\ At(p, "idle") /\ sent[p] < MaxEvents
  /\ sent' = [sent EXCEPT ![p] = @ + 1]
  /\ IF inits = 0 \/ latch THEN UNCHANGED pc ELSE Goto(p, "alloc")
  /\ UNCHANGED <<life, pool, events, todo, cbs, lost, resetting>>

allocate(p) ==
  /\ At(p, "alloc")
  /\ \/ /\ free > 0
        /\ free' = free - 1
        /\ held' = [held EXCEPT ![p] = [by |-> p, n |-> sent[p], pool |-> inits]]
        /\ Goto(p, "enqueue")
     \/ /\ free = 0
        /\ Goto(p, "idle") /\ UNCHANGED <<free, held>>
  /\ UNCHANGED <<life, inits, queue, handling, todo, cbs, sent, lost, resetting>>

\* Fault: an event that finds the queue full is dropped, its block is not given back.
enqueueOrForget(p) ==
  /\ At(p, "enqueue")
  /\ IF Len(queue) < QueueSize THEN queue' = Append(queue, held[p]) ELSE UNCHANGED queue
  /\ held' = [held EXCEPT ![p] = Nobody]
  /\ Goto(p, "idle")
  /\ UNCHANGED <<life, pool, handling, todo, cbs, sent, lost, resetting>>

enqueue(p) ==
  /\ At(p, "enqueue")
  /\ \/ /\ Len(queue) < QueueSize
        /\ queue' = Append(queue, held[p]) /\ UNCHANGED free
     \/ /\ Len(queue) = QueueSize
        /\ free' = free + 1 /\ UNCHANGED queue
  /\ held' = [held EXCEPT ![p] = Nobody]
  /\ Goto(p, "idle")
  /\ UNCHANGED <<life, inits, handling, todo, cbs, sent, lost, resetting>>

Publish(p) == checkLatch(p) \/ allocate(p) \/ enqueue(p)

-----------------------------------------------------------------------------
(* The callback registry                                                    *)

registerCallback(c) ==
  /\ idOf[c] = 0 /\ nextId <= MaxIds
  /\ registry' = registry \cup {<<nextId, c>>}
  /\ idOf' = [idOf EXCEPT ![c] = nextId]
  /\ nextId' = nextId + 1
  /\ UNCHANGED <<life, pool, events, todo, sent, lost, resetting, pc>>

\* callbacks_[id] = nullptr, whoever registered that id.
unregisterCallback(c) ==
  /\ idOf[c] # 0
  /\ registry' = {r \in registry : r[1] # idOf[c]}
  /\ idOf' = [idOf EXCEPT ![c] = 0]
  /\ UNCHANGED <<life, pool, events, todo, nextId, sent, lost, resetting, pc>>

-----------------------------------------------------------------------------
(* dispatchLoop()                                                           *)

\* Fault: the loop does not look at what asks it to end.
checkForever ==
  /\ At(Bus, "check") /\ Goto(Bus, "take") /\ UNCHANGED loop
  /\ UNCHANGED <<phase, latch, teardown, running, pool, events, todo, cbs, sent, lost, resetting>>

checkRunning ==
  /\ At(Bus, "check")
  /\ IF running /\ ~ShutdownRequested
       THEN Goto(Bus, "take") /\ UNCHANGED loop
       ELSE Goto(Bus, "none") /\ loop' = "ended"
  /\ UNCHANGED <<phase, latch, teardown, running, pool, events, todo, cbs, sent, lost, resetting>>

\* Fault: the loop takes the newest event.
takeNewest ==
  /\ At(Bus, "take")
  /\ IF queue = << >>
       THEN Goto(Bus, "check") /\ UNCHANGED <<queue, handling>>
       ELSE /\ handling' = queue[Len(queue)]
            /\ queue' = SubSeq(queue, 1, Len(queue) - 1)
            /\ Goto(Bus, "snapshot")
  /\ UNCHANGED <<life, pool, held, todo, cbs, sent, lost, resetting>>

\* tryDequeue(100 ms)
take ==
  /\ At(Bus, "take")
  /\ \/ /\ queue = << >>
        /\ Goto(Bus, "check") /\ UNCHANGED <<queue, handling>>
     \/ /\ queue # << >>
        /\ handling' = Head(queue) /\ queue' = Tail(queue)
        /\ Goto(Bus, "snapshot")
  /\ UNCHANGED <<life, pool, held, todo, cbs, sent, lost, resetting>>

\* The callbacks in the order of their ids.
inIdOrder(rs) ==
  CHOOSE s \in [1..Cardinality(rs) -> rs] :
    \A i, j \in DOMAIN s : i < j => s[i][1] < s[j][1]

snapshot ==
  /\ At(Bus, "snapshot")
  /\ todo' = inIdOrder(registry)
  /\ Goto(Bus, "call")
  /\ UNCHANGED <<life, pool, events, cbs, sent, lost, resetting>>

\* A callback that returns or throws; the event is given back after the last one.
call ==
  /\ At(Bus, "call")
  /\ \/ /\ todo # << >>
        /\ todo' = Tail(todo)
        /\ \/ UNCHANGED pc
           \/ SelfStop /\ Goto(Bus, "fatal")
        /\ UNCHANGED <<free, handling>>
     \/ /\ todo = << >>
        /\ free' = free + 1 /\ handling' = Nobody
        /\ Goto(Bus, "check") /\ UNCHANGED todo
  /\ UNCHANGED <<life, inits, queue, held, cbs, sent, lost, resetting>>

-----------------------------------------------------------------------------
(* Draining, and emergencyShutdown() from a callback                        *)

\* Fault: what is queued when the dispatch thread ends stays there.
drainNothing(t, done) == done /\ UNCHANGED <<free, queue>>

\* One event per step, until the queue is empty.
drain(t, done) ==
  \/ queue = << >> /\ done /\ UNCHANGED <<free, queue>>
  \/ queue # << >> /\ queue' = Tail(queue) /\ free' = free + 1 /\ UNCHANGED <<pc, teardown>>

RaiseLatch == (Straddle \/ \A p \in Publishers : At(p, "idle")) /\ latch' = TRUE

Release(t, next) == teardown' = "none" /\ Goto(t, next)

\* stopAndJoin() refuses to join on the dispatch thread; drain() is unconditional.
emergencyShutdownInCallback ==
  \/ /\ At(Bus, "fatal")
     /\ phase' = "fatal" /\ Goto(Bus, "latch")
     /\ UNCHANGED <<latch, teardown, running, loop, free, queue>>
  \/ /\ At(Bus, "latch")
     /\ RaiseLatch /\ running' = FALSE /\ Goto(Bus, "try")
     /\ UNCHANGED <<phase, teardown, loop, free, queue>>
  \/ /\ At(Bus, "try")
     /\ IF teardown = "none" THEN teardown' = Bus /\ Goto(Bus, "drain")
                             ELSE UNCHANGED teardown /\ Goto(Bus, "call")
     /\ UNCHANGED <<phase, latch, running, loop, free, queue>>
  \/ /\ At(Bus, "drain")
     /\ drain(Bus, Release(Bus, "call"))
     /\ UNCHANGED <<phase, latch, running, loop>>

EStopInCallback ==
  emergencyShutdownInCallback /\ UNCHANGED <<inits, held, handling, todo, cbs, sent, lost, resetting>>

Dispatch == checkRunning \/ take \/ snapshot \/ call \/ EStopInCallback

-----------------------------------------------------------------------------
(* initialize(), stop() and reset()                                         *)

\* Fault: the pool is replaced without joining the dispatch thread first.
joinNothing(next) ==
  Goto(Op, next) /\ UNCHANGED loop

join(next) ==
  loop # "running" /\ loop' = "none" /\ Goto(Op, next)

\* What is still alive in the old pool is never destroyed.
reinitialize ==
  /\ At(Op, "i_pool") /\ inits < MaxInits
  /\ inits' = inits + 1
  /\ free' = PoolSize /\ queue' = << >>
  /\ lost' = lost \cup Alive
  /\ Goto(Op, "i_clear")
  /\ UNCHANGED <<life, held, handling, todo, cbs, sent, resetting>>

initialize ==
  \/ /\ At(Op, "idle") /\ phase = "down" /\ inits < MaxInits
     /\ Goto(Op, "i_join") /\ UNCHANGED <<phase, latch, running, loop, free, queue, teardown>>
  \/ /\ At(Op, "i_join")
     /\ join("i_pool") /\ UNCHANGED <<phase, latch, running, free, queue, teardown>>
  \/ /\ At(Op, "i_clear")
     /\ phase' = "up" /\ Goto(Op, "i_start") /\ UNCHANGED <<latch, running, loop, free, queue, teardown>>
  \/ /\ At(Op, "i_start")
     /\ latch' = FALSE /\ Goto(Op, "i_done") /\ UNCHANGED <<phase, running, loop, free, queue, teardown>>
  \/ /\ At(Op, "i_done") /\ pc[Bus] = "none" /\ loop # "running"
     /\ running' = TRUE /\ loop' = "running"
     /\ pc' = [pc EXCEPT ![Bus] = "check", ![Op] = "i_cleanup"]
     /\ UNCHANGED <<phase, latch, free, queue, teardown>>
  \/ /\ At(Op, "i_cleanup")
     /\ IF phase = "up" THEN Goto(Op, "idle") /\ UNCHANGED <<free, queue, teardown>>
        ELSE drain(Op, Goto(Op, "idle") /\ UNCHANGED teardown)
     /\ UNCHANGED <<phase, latch, running, loop>>

\* stop(), and reset() up to the return of its emergencyShutdown(): stop() waits for
\* shutdownMutex_, emergencyShutdown() skips the teardown when another thread owns it.
halt ==
  \/ /\ At(Op, "idle") /\ Goto(Op, "h_latch")
     /\ \/ phase = "up" /\ phase' = "stopping" /\ resetting' = FALSE
        \/ inits > 0 /\ phase' = "fatal" /\ resetting' = TRUE
     /\ UNCHANGED <<latch, running, loop, free, queue, teardown>>
  \/ /\ At(Op, "h_latch")
     /\ RaiseLatch /\ running' = FALSE /\ Goto(Op, "h_lock")
     /\ UNCHANGED <<phase, loop, free, queue, teardown, resetting>>
  \/ /\ At(Op, "h_lock")
     /\ \/ teardown = "none" /\ teardown' = Op /\ Goto(Op, "h_join")
        \/ teardown # "none" /\ resetting /\ UNCHANGED teardown /\ Goto(Op, "z_wait")
     /\ UNCHANGED <<phase, latch, running, loop, free, queue, resetting>>
  \/ /\ At(Op, "h_join")
     /\ join("h_drain") /\ UNCHANGED <<phase, latch, running, free, queue, teardown, resetting>>
  \/ /\ At(Op, "h_drain")
     /\ drain(Op, Release(Op, "h_done"))
     /\ UNCHANGED <<phase, latch, running, loop, resetting>>
  \/ /\ At(Op, "h_done")
     /\ Goto(Op, IF resetting THEN "z_wait" ELSE "idle")
     /\ phase' = IF phase = "stopping" THEN "stopped" ELSE phase
     /\ UNCHANGED <<latch, running, loop, free, queue, teardown, resetting>>

\* The second half of reset(): wait for a teardown in flight, join again, clear.
reset ==
  \/ /\ At(Op, "z_wait") /\ teardown = "none"
     /\ Goto(Op, "z_join") /\ UNCHANGED <<phase, loop, registry, nextId>>
  \/ /\ At(Op, "z_join")
     /\ join("z_clear") /\ UNCHANGED <<phase, registry, nextId>>
  \/ /\ At(Op, "z_clear")
     /\ phase' = "down" /\ Goto(Op, "idle")
     /\ registry' = {} /\ nextId' = 1 /\ UNCHANGED loop

Operate ==
  \/ reinitialize
  \/ ((initialize /\ UNCHANGED resetting) \/ halt) /\ UNCHANGED <<inits, held, handling, todo, cbs, sent, lost>>
  \/ reset /\ UNCHANGED <<latch, teardown, running, pool, events, todo, idOf, sent, lost, resetting>>

Next ==
  \/ Operate \/ Dispatch
  \/ \E p \in Publishers : Publish(p)
  \/ \E c \in Clients : registerCallback(c) \/ unregisterCallback(c)

Spec == Init /\ [][Next]_vars

\* A call in progress goes on: the operator is free not to begin another one.
Continue == pc[Op] # "idle" /\ Operate

FairSpec ==
  /\ Spec /\ WF_vars(Continue) /\ WF_vars(Dispatch)
  /\ \A p \in Publishers : WF_vars(allocate(p)) /\ WF_vars(enqueue(p))

-----------------------------------------------------------------------------
(* What the bus promises.                                                   *)

\* Every block of the pool is free or carries one event that is in somebody's hands:
\* an event dropped by a full queue, drained or dispatched gives its block back once.
PoolAccounts == inits > 0 => free + Cardinality(Alive) = PoolSize

\* C25: no event is alive in a pool when initialize() replaces it, and nobody holds an
\* event of a replaced pool, to read it or to give it back to a pool it does not come from.
NoForeignEvent == lost = {} /\ \A e \in Alive : e.pool = inits

\* C25: once stop() or reset() has returned, or the dispatch loop ended by an e-stop of its
\* own, every event is back in the pool and the loop cannot be revived by its flag.
DrainedWhenDown ==
  At(Op, "idle") /\ loop # "running" => Alive = {} /\ ~running

\* C25: events and the blocks that carry them, across overflows, drains and restarts.
BusIsSound == PoolAccounts /\ NoForeignEvent /\ DrainedWhenDown

\* The events of one publisher are dispatched in the order it published them, across
\* overflows, drains and restarts.
InOrder ==
  [][\A e \in {handling'} \ {Nobody} :
       handling = Nobody => \A f \in Alive : f.by = e.by => e.n <= f.n]_vars

\* An event that was accepted is dispatched or given back: none stays in the queue.
AcceptedIsSettled ==
  \A p \in Publishers, n \in 1..MaxEvents :
    LET queued == \E i \in DOMAIN queue : queue[i].by = p /\ queue[i].n = n
    IN  queued ~> ~queued

\* C33, C38: stop(), reset() and initialize() return, also when the dispatch thread is
\* pulling the e-stop they wait for.
OperatorReturns == ~At(Op, "idle") ~> At(Op, "idle")

\* Whoever waits is served: an event in the queue, the operator in a call.
BusSettles == AcceptedIsSettled /\ OperatorReturns
=============================================================================
