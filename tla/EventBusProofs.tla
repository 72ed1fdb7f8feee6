--------------------------- MODULE EventBusProofs ---------------------------
(***************************************************************************)
(* Events are dispatched in the order in which their publisher sent them;  *)
(* and as long as no publish() straddles a shutdown, every block of the    *)
(* pool is accounted for, nobody holds an event of a pool that was         *)
(* replaced, and a bus that is down is empty: for every number of          *)
(* publishers, callbacks, blocks, slots and restarts.                      *)
(***************************************************************************)
EXTENDS EventBus, FiniteSetTheorems, SequenceTheorems, TLAPS

PCs == OperatorPC \cup BusPC \cup {"alloc", "enqueue"}

\* Where the dispatch loop has an event in its hands.
Busy == {"snapshot", "call", "fatal", "latch", "try", "drain"}

\* The types, and who holds an event: a publisher between its two steps, the loop from the
\* moment it takes one until its last callback has returned.
ShapeInv ==
  /\ queue \in Seq(Event) /\ held \in [Publishers -> Event \cup {Nobody}]
  /\ handling \in Event \cup {Nobody}
  /\ sent \in [Publishers -> 0..MaxEvents] /\ inits \in 0..MaxInits /\ free \in Nat
  /\ pc \in [Threads -> PCs] /\ pc[Bus] \in BusPC /\ pc[Op] \in OperatorPC
  /\ \A p \in Publishers : pc[p] \in {"idle", "alloc", "enqueue"} /\ (pc[p] # "idle" => inits > 0)
  /\ \A p \in Publishers : held[p] # Nobody <=> pc[p] = "enqueue"
  /\ (handling # Nobody <=> pc[Bus] \in Busy)
  /\ (loop = "running" <=> pc[Bus] # "none")

\* What was enqueued and is not given back.
Placed == {queue[i] : i \in DOMAIN queue} \cup ({handling} \ {Nobody})

\* The events of a publisher are numbered as they were sent: the loop's before the queue's,
\* the queue's in its order, and all of them before the one still in the publisher's hands.
OrderInv ==
  /\ \A p \in Publishers : held[p] # Nobody => held[p].by = p /\ held[p].n = sent[p]
  /\ \A p \in Publishers : pc[p] # "idle" => sent[p] > 0
  /\ \A e \in Placed : e.n <= sent[e.by] /\ (pc[e.by] # "idle" => e.n < sent[e.by])
  /\ \A i, j \in DOMAIN queue : i < j /\ queue[i].by = queue[j].by => queue[i].n < queue[j].n
  /\ handling # Nobody =>
       \A i \in DOMAIN queue : queue[i].by = handling.by => handling.n < queue[i].n

PathInv == ShapeInv /\ OrderInv

\* The threads are pairwise different.
LEMMA Names == /\ Op \in Threads /\ Bus \in Threads /\ Op # Bus
               /\ \A p \in Publishers : p \in Threads /\ p # Op /\ p # Bus
  BY NamesAssumption DEF Op, Bus, Threads

\* A thread moves on, and no other.
LEMMA Moves ==
  ASSUME ShapeInv, NEW t \in Threads, NEW l \in PCs, Goto(t, l)
  PROVE  pc' \in [Threads -> PCs] /\ pc'[t] = l /\ \A u \in Threads : u # t => pc'[u] = pc[u]
  BY DEF ShapeInv, Goto

\* What is taken from the front of the queue, or put at its end.
LEMMA QueueFacts ==
  ASSUME ShapeInv
  PROVE  /\ Len(queue) \in Nat /\ DOMAIN queue = 1..Len(queue)
         /\ \A i \in DOMAIN queue : queue[i] \in Event /\ queue[i] # Nobody
         /\ queue # << >> =>
              /\ Head(queue) = queue[1] /\ 1 \in DOMAIN queue
              /\ Tail(queue) \in Seq(Event) /\ DOMAIN Tail(queue) = 1..(Len(queue) - 1)
              /\ \A i \in 1..(Len(queue) - 1) : i + 1 \in DOMAIN queue /\ Tail(queue)[i] = queue[i + 1]
         /\ \A e \in Event :
              /\ Append(queue, e) \in Seq(Event) /\ DOMAIN Append(queue, e) = 1..(Len(queue) + 1)
              /\ \A i \in DOMAIN queue : Append(queue, e)[i] = queue[i]
              /\ Append(queue, e)[Len(queue) + 1] = e
<1>1. queue \in Seq(Event) /\ Len(queue) \in Nat /\ DOMAIN queue = 1..Len(queue)
  BY LenProperties DEF ShapeInv
<1>2. \A i \in DOMAIN queue : queue[i] \in Event /\ queue[i] # Nobody
  BY <1>1, NobodyAssumption
<1>3. ASSUME queue # << >>
      PROVE  /\ Head(queue) = queue[1] /\ 1 \in DOMAIN queue
             /\ Tail(queue) \in Seq(Event) /\ DOMAIN Tail(queue) = 1..(Len(queue) - 1)
             /\ \A i \in 1..(Len(queue) - 1) : i + 1 \in DOMAIN queue /\ Tail(queue)[i] = queue[i + 1]
  <2>1. /\ Tail(queue) \in Seq(Event) /\ Len(Tail(queue)) = Len(queue) - 1
        /\ \A i \in 1..Len(Tail(queue)) : Tail(queue)[i] = queue[i + 1]
    BY <1>1, <1>3, HeadTailProperties
  <2>2. Len(queue) # 0
    BY <1>1, <1>3, EmptySeq
  <2>3. Head(queue) = queue[1] /\ 1 \in DOMAIN queue
    BY <1>1, <2>2
  <2>4. DOMAIN Tail(queue) = 1..(Len(queue) - 1)
    BY <2>1, LenProperties
  <2>5. \A i \in 1..(Len(queue) - 1) : i + 1 \in DOMAIN queue
    BY <1>1
  <2> QED
    BY <2>1, <2>3, <2>4, <2>5
<1>4. ASSUME NEW e \in Event
      PROVE  /\ Append(queue, e) \in Seq(Event) /\ DOMAIN Append(queue, e) = 1..(Len(queue) + 1)
             /\ \A i \in DOMAIN queue : Append(queue, e)[i] = queue[i]
             /\ Append(queue, e)[Len(queue) + 1] = e
  BY <1>1, AppendProperties, LenProperties
<1> QED
  BY <1>1, <1>2, <1>3, <1>4

LEMMA InitPath == Init => PathInv
<1> SUFFICES ASSUME Init PROVE PathInv
  OBVIOUS
<1>1. DOMAIN queue = {} /\ queue \in Seq(Event) /\ Placed = {}
  BY DEF Init, Placed
<1>2. \A t \in Threads : pc[t] = IF t = Bus THEN "none" ELSE "idle"
  BY DEF Init
<1>3. ShapeInv
  BY <1>1, <1>2, Names, SizesAssumption DEF Init, ShapeInv, PCs, OperatorPC, BusPC, Busy
<1>4. OrderInv
  BY <1>1, <1>2, Names DEF Init, OrderInv
<1> QED
  BY <1>3, <1>4 DEF PathInv

-----------------------------------------------------------------------------
(* The ways in which a step moves events.                                   *)

\* The operator or the loop goes on and no event moves.
LEMMA StillPath ==
  ASSUME PathInv, UNCHANGED <<events, sent, inits>>, free' = free, pc' \in [Threads -> PCs],
         \A p \in Publishers : pc'[p] = pc[p], pc'[Bus] \in BusPC, pc'[Op] \in OperatorPC,
         pc'[Bus] \in Busy <=> pc[Bus] \in Busy, loop' = "running" <=> pc'[Bus] # "none"
  PROVE  PathInv'
<1>1. queue' = queue /\ held' = held /\ handling' = handling /\ sent' = sent /\ Placed' = Placed
  BY DEF events, Placed
<1>2. ShapeInv'
  BY <1>1 DEF PathInv, ShapeInv
<1>3. \A e \in Placed : e.by \in Publishers
  BY QueueFacts DEF PathInv, ShapeInv, Placed, Event
<1>4. OrderInv'
  BY <1>1, <1>3 DEF PathInv, OrderInv
<1> QED
  BY <1>2, <1>4 DEF PathInv

\* An event leaves the queue and its block goes back.
LEMMA DrainPath ==
  ASSUME PathInv, queue # << >>, queue' = Tail(queue), free' = free + 1,
         UNCHANGED <<held, handling, sent, inits, pc, loop>>
  PROVE  PathInv'
<1> USE QueueFacts DEF PathInv
<1>1. ShapeInv'
  BY DEF ShapeInv
<1>2. Placed' \subseteq Placed
  BY DEF Placed
<1>3. \A i, j \in DOMAIN queue' :
        /\ i + 1 \in DOMAIN queue /\ j + 1 \in DOMAIN queue /\ queue'[i] = queue[i + 1]
        /\ queue'[j] = queue[j + 1] /\ (i < j <=> i + 1 < j + 1)
  OBVIOUS
<1>4. OrderInv'
  BY <1>2, <1>3 DEF OrderInv
<1> QED
  BY <1>1, <1>4

-----------------------------------------------------------------------------
(* publish()                                                                *)

\* The publishers of events, and their numbers, are of the right kinds.
LEMMA PlacedFacts ==
  ASSUME ShapeInv
  PROVE  /\ \A e \in Placed : e \in Event /\ e.by \in Publishers /\ e.n \in 1..MaxEvents
         /\ \A i \in DOMAIN queue : queue[i] \in Placed
         /\ (handling # Nobody => handling \in Placed)
  BY QueueFacts DEF ShapeInv, Placed, Event

LEMMA CheckPath ==
  ASSUME PathInv, NEW p \in Publishers, checkLatch(p)
  PROVE  PathInv'
<1> USE DEF PathInv
<1>1. /\ pc[p] = "idle" /\ sent[p] < MaxEvents /\ sent' = [sent EXCEPT ![p] = @ + 1]
      /\ UNCHANGED <<queue, held, handling, inits, free, loop>>
  BY DEF checkLatch, At, events, pool, life
<1>2. /\ pc' \in [Threads -> PCs] /\ pc'[p] \in {"idle", "alloc"} /\ (pc'[p] # "idle" => inits > 0)
      /\ \A u \in Threads : u # p => pc'[u] = pc[u]
  <2>1. CASE pc' = pc
    BY <1>1, <2>1 DEF ShapeInv
  <2>2. CASE inits # 0 /\ Goto(p, "alloc")
    BY <2>2, Moves, Names, SizesAssumption DEF PCs, ShapeInv
  <2> QED
    BY <2>1, <2>2 DEF checkLatch
<1>3. /\ sent' \in [Publishers -> 0..MaxEvents] /\ sent[p] \in 0..MaxEvents
      /\ sent'[p] = sent[p] + 1 /\ \A q \in Publishers : q # p => sent'[q] = sent[q]
  BY <1>1, SizesAssumption DEF ShapeInv
<1>4. held[p] = Nobody
  BY <1>1 DEF ShapeInv
<1>5. ShapeInv'
  BY <1>1, <1>2, <1>3, <1>4, Names DEF ShapeInv
<1>6. Placed' = Placed
  BY <1>1 DEF Placed
<1>7. \A e \in Placed : e.n <= sent'[e.by] /\ (pc'[e.by] # "idle" => e.n < sent'[e.by])
  <2> TAKE e \in Placed
  <2>1. e.by \in Publishers /\ e.n \in Nat /\ e.n <= sent[e.by] /\ (pc[e.by] # "idle" => e.n < sent[e.by])
    BY PlacedFacts, SizesAssumption DEF OrderInv
  <2>2. CASE e.by = p
    BY <1>3, <2>1, <2>2
  <2>3. CASE e.by # p
    BY <1>2, <1>3, <2>1, <2>3, Names
  <2> QED
    BY <2>2, <2>3
<1>8. \A q \in Publishers : held'[q] # Nobody => held'[q].by = q /\ held'[q].n = sent'[q]
  BY <1>1, <1>3, <1>4 DEF OrderInv
<1>9. \A q \in Publishers : pc'[q] # "idle" => sent'[q] > 0
  BY <1>2, <1>3, Names DEF OrderInv
<1>10. OrderInv'
  BY <1>1, <1>6, <1>7, <1>8, <1>9 DEF OrderInv
<1> QED
  BY <1>5, <1>10

\* A block is taken for the event that is being published, or the pool is exhausted.
LEMMA AllocatePath ==
  ASSUME PathInv, NEW p \in Publishers, allocate(p)
  PROVE  /\ PathInv'
         /\ \/ UNCHANGED <<free, events>>
            \/ /\ free > 0 /\ free' = free - 1 /\ UNCHANGED <<queue, handling>>
               /\ held[p] = Nobody /\ held'[p] \in Event /\ held'[p].pool = inits
               /\ held'[p].by = p /\ held'[p].n = sent[p]
               /\ \A q \in Publishers : q # p => held'[q] = held[q]
<1> USE DEF PathInv
<1>1. pc[p] = "alloc" /\ held[p] = Nobody /\ sent[p] > 0 /\ sent[p] \in 1..MaxEvents /\ inits > 0
  BY SizesAssumption DEF allocate, At, ShapeInv, OrderInv
<1>2. UNCHANGED <<queue, handling, sent, inits, loop>> /\ Placed' = Placed
  BY DEF allocate, life, Placed
<1>3. CASE free = 0 /\ Goto(p, "idle") /\ UNCHANGED <<free, held>>
  <2>1. /\ pc' \in [Threads -> PCs] /\ pc'[p] = "idle" /\ \A u \in Threads : u # p => pc'[u] = pc[u]
    BY <1>3, Moves, Names DEF PCs, OperatorPC
  <2>2. ShapeInv'
    BY <1>1, <1>2, <1>3, <2>1, Names DEF ShapeInv
  <2>3. \A e \in Placed : e.by \in Publishers /\ (pc'[e.by] # "idle" => pc[e.by] # "idle")
    BY <2>1, PlacedFacts, Names
  <2>4. OrderInv'
    BY <1>2, <1>3, <2>1, <2>3, Names DEF OrderInv
  <2> QED
    BY <1>2, <1>3, <2>2, <2>4 DEF events
<1>4. CASE /\ free > 0 /\ free' = free - 1 /\ Goto(p, "enqueue")
           /\ held' = [held EXCEPT ![p] = [by |-> p, n |-> sent[p], pool |-> inits]]
  <2>1. /\ pc' \in [Threads -> PCs] /\ pc'[p] = "enqueue" /\ \A u \in Threads : u # p => pc'[u] = pc[u]
    BY <1>4, Moves, Names DEF PCs
  <2>2. [by |-> p, n |-> sent[p], pool |-> inits] \in Event
    BY <1>1, SizesAssumption DEF Event, ShapeInv
  <2>3. /\ held' \in [Publishers -> Event \cup {Nobody}]
        /\ held'[p] = [by |-> p, n |-> sent[p], pool |-> inits]
        /\ held'[p] \in Event /\ held'[p] # Nobody
        /\ \A q \in Publishers : q # p => held'[q] = held[q]
    BY <1>4, <2>2, NobodyAssumption DEF ShapeInv
  <2>4. ShapeInv'
    BY <1>1, <1>2, <1>4, <2>1, <2>3, Names DEF ShapeInv
  <2>5. \A e \in Placed : e.by \in Publishers /\ (pc'[e.by] # "idle" => pc[e.by] # "idle")
    BY <1>1, <2>1, PlacedFacts, Names
  <2>6. OrderInv'
    BY <1>1, <1>2, <2>1, <2>3, <2>5, Names DEF OrderInv
  <2> QED
    BY <1>1, <1>2, <1>4, <2>3, <2>4, <2>6
<1> QED
  BY <1>3, <1>4 DEF allocate

\* The event is put behind everything its publisher sent before, or dropped.
LEMMA EnqueuePath ==
  ASSUME PathInv, NEW p \in Publishers, enqueue(p)
  PROVE  PathInv'
<1> USE DEF PathInv
<1>1. /\ pc[p] = "enqueue" /\ held[p] # Nobody /\ held[p] \in Event /\ held[p].by = p /\ held[p].n = sent[p]
      /\ UNCHANGED <<handling, sent, inits, loop>> /\ held' = [held EXCEPT ![p] = Nobody]
      /\ Goto(p, "idle") /\ free' \in Nat
  BY DEF enqueue, At, ShapeInv, OrderInv, life
<1>2. /\ pc' \in [Threads -> PCs] /\ pc'[p] = "idle" /\ \A u \in Threads : u # p => pc'[u] = pc[u]
  BY <1>1, Moves, Names DEF PCs, OperatorPC
<1>3. /\ held' \in [Publishers -> Event \cup {Nobody}] /\ held'[p] = Nobody
      /\ \A q \in Publishers : q # p => held'[q] = held[q]
  BY <1>1 DEF ShapeInv
<1>4. queue' \in Seq(Event)
  BY <1>1, QueueFacts DEF enqueue, ShapeInv
<1>5. ShapeInv'
  BY <1>1, <1>2, <1>3, <1>4, Names DEF ShapeInv
<1>6. /\ \A q \in Publishers : held'[q] # Nobody => held'[q].by = q /\ held'[q].n = sent'[q]
      /\ \A q \in Publishers : pc'[q] # "idle" => sent'[q] > 0
  BY <1>1, <1>2, <1>3, Names DEF OrderInv
<1>7. \A e \in Placed : e.by \in Publishers /\ e.n <= sent'[e.by] /\ (pc'[e.by] # "idle" => e.n < sent'[e.by])
  BY <1>1, <1>2, PlacedFacts, Names DEF OrderInv
<1>8. CASE queue' = queue
  <2>1. Placed' = Placed
    BY <1>1, <1>8 DEF Placed
  <2>2. OrderInv'
    BY <1>1, <1>6, <1>7, <1>8, <2>1 DEF OrderInv
  <2> QED
    BY <1>5, <2>2
<1>9. CASE queue' = Append(queue, held[p])
  <2> DEFINE n == Len(queue) + 1
  <2>1. /\ n \in Nat /\ n \notin DOMAIN queue /\ DOMAIN queue' = DOMAIN queue \cup {n}
        /\ \A i \in DOMAIN queue : queue'[i] = queue[i] /\ i < n /\ i \in Nat
        /\ queue'[n] = held[p]
    BY <1>1, <1>9, QueueFacts
  <2> HIDE DEF n
  <2>2. Placed' = Placed \cup {held[p]}
    BY <1>1, <2>1 DEF Placed
  <2>3. \A e \in Placed : e.by = p => e.n < held[p].n
    BY <1>1 DEF OrderInv
  <2>4. \A e \in Placed' : e.n <= sent'[e.by] /\ (pc'[e.by] # "idle" => e.n < sent'[e.by])
    <3>1. held[p].n \in Nat
      BY <1>1, SizesAssumption DEF ShapeInv
    <3> QED
      BY <1>1, <1>2, <1>7, <2>2, <3>1
  <2>5. \A i, j \in DOMAIN queue' : i < j /\ queue'[i].by = queue'[j].by => queue'[i].n < queue'[j].n
    <3> TAKE i, j \in DOMAIN queue'
    <3>1. CASE i \in DOMAIN queue /\ j \in DOMAIN queue
      BY <2>1, <3>1 DEF OrderInv
    <3>2. CASE i \in DOMAIN queue /\ j = n
      BY <1>1, <2>1, <2>3, <3>2, PlacedFacts
    <3>3. CASE i = n
      BY <2>1, <3>3
    <3> QED
      BY <2>1, <3>1, <3>2, <3>3
  <2>6. handling' # Nobody => \A i \in DOMAIN queue' : queue'[i].by = handling'.by => handling'.n < queue'[i].n
    BY <1>1, <2>1, <2>3, PlacedFacts DEF OrderInv
  <2>7. OrderInv'
    BY <1>6, <2>4, <2>5, <2>6 DEF OrderInv
  <2> QED
    BY <1>5, <2>7
<1> QED
  BY <1>8, <1>9 DEF enqueue

-----------------------------------------------------------------------------
(* The dispatch loop and the operator                                       *)

LEMMA TakePath ==
  ASSUME PathInv, take
  PROVE  PathInv'
<1> USE DEF PathInv
<1>1. pc[Bus] = "take" /\ handling = Nobody /\ UNCHANGED <<held, sent, inits, free, loop>>
  BY DEF take, At, ShapeInv, Busy, life, pool
<1>2. CASE Goto(Bus, "check") /\ UNCHANGED <<queue, handling>>
  <2>1. pc' \in [Threads -> PCs] /\ pc'[Bus] = "check" /\ \A u \in Threads : u # Bus => pc'[u] = pc[u]
    BY <1>2, Moves, Names DEF PCs, BusPC
  <2>2. pc'[Op] \in OperatorPC /\ \A p \in Publishers : pc'[p] = pc[p]
    BY <2>1, Names DEF ShapeInv
  <2>3. (loop' = "running" <=> pc'[Bus] # "none")
    BY <1>1, <2>1 DEF ShapeInv
  <2> QED
    BY <1>1, <1>2, <2>1, <2>2, <2>3, StillPath DEF events, BusPC, Busy
<1>3. CASE queue # << >> /\ handling' = Head(queue) /\ queue' = Tail(queue) /\ Goto(Bus, "snapshot")
  <2>1. pc' \in [Threads -> PCs] /\ pc'[Bus] = "snapshot" /\ \A u \in Threads : u # Bus => pc'[u] = pc[u]
    BY <1>3, Moves, Names DEF PCs, BusPC
  <2>2. pc'[Op] = pc[Op] /\ \A p \in Publishers : pc'[p] = pc[p]
    BY <2>1, Names
  <2>3. /\ handling' = queue[1] /\ handling' \in Event /\ handling' # Nobody /\ 1 \in DOMAIN queue
        /\ queue' \in Seq(Event)
    BY <1>3, QueueFacts
  <2>4. \A i \in DOMAIN queue' : i + 1 \in DOMAIN queue /\ i \in Nat /\ 1 < i + 1 /\ queue'[i] = queue[i + 1]
    BY <1>3, QueueFacts
  <2>5. ShapeInv'
    BY <1>1, <2>1, <2>2, <2>3 DEF ShapeInv, BusPC, Busy
  <2>6. \A e \in Placed' : e \in Placed /\ e.by \in Publishers
    <3>1. \A e \in Placed' : e \in Placed
      BY <2>3, <2>4, PlacedFacts DEF Placed
    <3> QED
      BY <3>1, PlacedFacts
  <2>7. \A i, j \in DOMAIN queue' : i < j /\ queue'[i].by = queue'[j].by => queue'[i].n < queue'[j].n
    <3>1. \A i, j \in DOMAIN queue' : i < j => i + 1 < j + 1
      BY <2>4
    <3> QED
      BY <2>4, <3>1 DEF OrderInv
  <2>8. \A i \in DOMAIN queue' : queue'[i].by = handling'.by => handling'.n < queue'[i].n
    BY <2>3, <2>4 DEF OrderInv
  <2>9. OrderInv'
    BY <1>1, <2>2, <2>6, <2>7, <2>8 DEF OrderInv
  <2> QED
    BY <2>5, <2>9
<1> QED
  BY <1>2, <1>3 DEF take

\* The loop is done with its event.
LEMMA SettlePath ==
  ASSUME PathInv, pc[Bus] = "call", free' = free + 1, handling' = Nobody, Goto(Bus, "check"),
         UNCHANGED <<queue, held, sent, inits, loop>>
  PROVE  PathInv'
<1> USE DEF PathInv
<1>1. pc' \in [Threads -> PCs] /\ pc'[Bus] = "check" /\ \A u \in Threads : u # Bus => pc'[u] = pc[u]
  BY Moves, Names DEF PCs, BusPC
<1>2. pc'[Op] = pc[Op] /\ \A p \in Publishers : pc'[p] = pc[p]
  BY <1>1, Names
<1>3. ShapeInv'
  BY <1>1, <1>2 DEF ShapeInv, BusPC, Busy
<1>4. Placed' \subseteq Placed
  BY DEF Placed
<1>5. \A e \in Placed' : e \in Placed /\ e.by \in Publishers
  BY <1>4, PlacedFacts
<1>6. OrderInv'
  BY <1>2, <1>5 DEF OrderInv
<1> QED
  BY <1>3, <1>6

\* The pool and the queue are replaced.
LEMMA ReplacePath ==
  ASSUME PathInv, reinitialize
  PROVE  PathInv'
<1> USE DEF PathInv
<1>1. /\ inits' = inits + 1 /\ inits < MaxInits /\ free' = PoolSize /\ queue' = << >> /\ DOMAIN queue' = {}
      /\ Goto(Op, "i_clear") /\ UNCHANGED <<held, handling, sent, loop>>
  BY DEF reinitialize, life
<1>2. pc' \in [Threads -> PCs] /\ pc'[Op] = "i_clear" /\ \A u \in Threads : u # Op => pc'[u] = pc[u]
  BY <1>1, Moves, Names DEF PCs, OperatorPC
<1>3. pc'[Bus] = pc[Bus] /\ \A p \in Publishers : pc'[p] = pc[p]
  BY <1>2, Names
<1>4. inits' \in 0..MaxInits /\ free' \in Nat /\ queue' \in Seq(Event)
  BY <1>1, SizesAssumption DEF ShapeInv
<1>5. ShapeInv'
  BY <1>1, <1>2, <1>3, <1>4 DEF ShapeInv, OperatorPC
<1>6. \A e \in Placed' : e \in Placed /\ e.by \in Publishers
  <2>1. Placed' \subseteq Placed
    BY <1>1 DEF Placed
  <2> QED
    BY <2>1, PlacedFacts
<1>7. OrderInv'
  BY <1>1, <1>3, <1>6 DEF OrderInv
<1> QED
  BY <1>5, <1>7

\* One step of a drain, by the operator or by the loop, or the step that ends it.
LEMMA DrainStep ==
  ASSUME PathInv, NEW t \in {Op, Bus}, NEW next, NEW done,
         next \in IF t = Op THEN OperatorPC ELSE Busy \cap BusPC, t = Bus => pc[Bus] \in Busy,
         done => Goto(t, next), drain(t, done),
         UNCHANGED <<held, handling, sent, inits, loop>>
  PROVE  PathInv'
<1>1. CASE queue # << >> /\ queue' = Tail(queue) /\ free' = free + 1 /\ pc' = pc
  BY <1>1, DrainPath
<1>2. CASE queue' = queue /\ free' = free /\ Goto(t, next)
  <2>1. next \in PCs /\ t \in Threads
    BY Names DEF PCs
  <2>2. pc' \in [Threads -> PCs] /\ pc'[t] = next /\ \A u \in Threads : u # t => pc'[u] = pc[u]
    BY <1>2, <2>1, Moves DEF PathInv
  <2>3. \A p \in Publishers : pc'[p] = pc[p]
    BY <2>2, Names
  <2>4. pc'[Op] \in OperatorPC /\ pc'[Bus] \in BusPC
    BY <2>2, Names DEF PathInv, ShapeInv
  <2>5. (pc'[Bus] \in Busy <=> pc[Bus] \in Busy) /\ (loop' = "running" <=> pc'[Bus] # "none")
    BY <2>2, Names DEF PathInv, ShapeInv, Busy
  <2> QED
    BY <1>2, <2>2, <2>3, <2>4, <2>5, StillPath DEF events
<1> QED
  BY <1>1, <1>2 DEF drain

\* A step of the operator that moves no event and does not start the loop.
LEMMA OperatorPath ==
  ASSUME PathInv, NEW l \in OperatorPC, Goto(Op, l), UNCHANGED <<events, sent, inits, free>>,
         loop' = "running" <=> loop = "running"
  PROVE  PathInv'
<1>1. pc' \in [Threads -> PCs] /\ pc'[Op] = l /\ \A u \in Threads : u # Op => pc'[u] = pc[u]
  BY Moves, Names DEF PCs, PathInv
<1>2. pc'[Bus] = pc[Bus] /\ pc[Bus] \in BusPC /\ \A p \in Publishers : pc'[p] = pc[p]
  BY <1>1, Names DEF PathInv, ShapeInv
<1>3. (loop' = "running" <=> pc'[Bus] # "none")
  BY <1>2 DEF PathInv, ShapeInv
<1> QED
  BY <1>1, <1>2, <1>3, StillPath

\* A step of the loop that moves no event.
LEMMA LoopPath ==
  ASSUME PathInv, NEW l \in BusPC, Goto(Bus, l), UNCHANGED <<events, sent, inits, free>>,
         l \in Busy <=> pc[Bus] \in Busy, loop' = "running" <=> l # "none"
  PROVE  PathInv'
<1>1. pc' \in [Threads -> PCs] /\ pc'[Bus] = l /\ \A u \in Threads : u # Bus => pc'[u] = pc[u]
  BY Moves, Names DEF PCs, PathInv
<1>2. pc'[Op] = pc[Op] /\ pc[Op] \in OperatorPC /\ \A p \in Publishers : pc'[p] = pc[p]
  BY <1>1, Names DEF PathInv, ShapeInv
<1> QED
  BY <1>1, <1>2, StillPath

LEMMA InitializePath ==
  ASSUME PathInv, initialize, UNCHANGED <<inits, held, handling, sent>>
  PROVE  PathInv'
<1> USE DEF At
<1>1. CASE UNCHANGED <<loop, free, queue>> /\ \E l \in OperatorPC : Goto(Op, l)
  BY <1>1, OperatorPath DEF events
<1>2. CASE join("i_pool") /\ UNCHANGED <<free, queue>>
  BY <1>2, OperatorPath DEF events, join, OperatorPC
<1>3. CASE /\ pc[Bus] = "none" /\ loop' = "running" /\ UNCHANGED <<free, queue>>
           /\ pc' = [pc EXCEPT ![Bus] = "check", ![Op] = "i_cleanup"]
  <2>1. /\ pc' \in [Threads -> PCs] /\ pc'[Bus] = "check" /\ pc'[Op] = "i_cleanup"
        /\ \A p \in Publishers : pc'[p] = pc[p]
    BY <1>3, Names DEF PathInv, ShapeInv, PCs, OperatorPC, BusPC
  <2> QED
    BY <1>3, <2>1, StillPath DEF events, Busy, BusPC, OperatorPC
<1>4. CASE drain(Op, Goto(Op, "idle") /\ UNCHANGED teardown) /\ UNCHANGED loop
  BY <1>4, DrainStep, Names DEF OperatorPC
<1>5. {"i_join", "i_start", "i_done", "idle"} \subseteq OperatorPC
  BY DEF OperatorPC
<1> QED
  BY <1>1, <1>2, <1>3, <1>4, <1>5 DEF initialize

LEMMA HaltPath ==
  ASSUME PathInv, halt, UNCHANGED <<inits, held, handling, sent>>
  PROVE  PathInv'
<1> USE DEF At
<1>1. CASE UNCHANGED <<loop, free, queue>> /\ \E l \in OperatorPC : Goto(Op, l)
  BY <1>1, OperatorPath DEF events
<1>2. CASE join("h_drain") /\ UNCHANGED <<free, queue>>
  BY <1>2, OperatorPath DEF events, join, OperatorPC
<1>3. CASE drain(Op, Release(Op, "h_done")) /\ UNCHANGED loop
  BY <1>3, DrainStep, Names DEF OperatorPC, Release
<1>4. {"h_latch", "h_lock", "h_join", "h_done", "z_wait", "idle"} \subseteq OperatorPC
  BY DEF OperatorPC
<1> QED
  BY <1>1, <1>2, <1>3, <1>4 DEF halt

LEMMA ResetPath ==
  ASSUME PathInv, reset, UNCHANGED <<pool, events, sent>>
  PROVE  PathInv'
<1>1. {"z_join", "z_clear", "idle"} \subseteq OperatorPC
  BY DEF OperatorPC
<1> QED
  BY <1>1, OperatorPath DEF reset, pool, join

LEMMA DispatchPath ==
  ASSUME PathInv, Dispatch
  PROVE  PathInv'
<1> USE DEF At
<1>0. BusPC \subseteq PCs
  BY DEF PCs
<1>1. CASE checkRunning
  <2>1. CASE Goto(Bus, "take") /\ UNCHANGED loop
    BY <1>1, <2>1, LoopPath DEF checkRunning, pool, BusPC, Busy, PathInv, ShapeInv
  <2>2. CASE Goto(Bus, "none") /\ loop' = "ended"
    BY <1>1, <2>2, LoopPath DEF checkRunning, pool, BusPC, Busy
  <2> QED
    BY <1>1, <2>1, <2>2 DEF checkRunning
<1>2. CASE take
  BY <1>2, TakePath
<1>3. CASE snapshot
  BY <1>3, LoopPath DEF snapshot, pool, life, BusPC, Busy, PathInv, ShapeInv
<1>4. CASE call
  <2>1. /\ pc[Bus] = "call" /\ UNCHANGED <<queue, held, sent, inits, loop>> /\ loop = "running"
    BY <1>4 DEF call, life, PathInv, ShapeInv
  <2>2. CASE handling' = Nobody /\ free' = free + 1 /\ Goto(Bus, "check")
    BY <2>1, <2>2, SettlePath
  <2>3. CASE UNCHANGED <<free, handling>> /\ Goto(Bus, "fatal")
    BY <2>1, <2>3, LoopPath DEF events, BusPC, Busy
  <2>4. CASE UNCHANGED <<free, handling, pc>>
    BY <2>1, <2>4, StillPath DEF events, PathInv, ShapeInv
  <2> QED
    BY <1>4, <2>2, <2>3, <2>4 DEF call
<1>5. CASE EStopInCallback
  <2>1. UNCHANGED <<inits, held, handling, sent, loop>> /\ pc[Bus] \in {"fatal", "latch", "try", "drain"}
    BY <1>5 DEF EStopInCallback, emergencyShutdownInCallback
  <2>2. loop = "running"
    BY <2>1 DEF PathInv, ShapeInv
  <2>3. CASE UNCHANGED <<free, queue>> /\ \E l \in {"latch", "try", "drain", "call"} : Goto(Bus, l)
    BY <2>1, <2>2, <2>3, LoopPath DEF events, BusPC, Busy
  <2>4. CASE drain(Bus, Release(Bus, "call"))
    <3>1. "call" \in Busy \cap BusPC /\ pc[Bus] \in Busy /\ Bus # Op
      BY <2>1, Names DEF Busy, BusPC
    <3> QED
      BY <2>1, <2>4, <3>1, DrainStep DEF Release
  <2> QED
    BY <1>5, <2>3, <2>4 DEF EStopInCallback, emergencyShutdownInCallback
<1> QED
  BY <1>1, <1>2, <1>3, <1>4, <1>5 DEF Dispatch

LEMMA NextPath ==
  ASSUME PathInv, [Next]_vars
  PROVE  PathInv'
<1>1. CASE Operate
  BY <1>1, ReplacePath, InitializePath, HaltPath, ResetPath DEF Operate
<1>2. CASE Dispatch
  BY <1>2, DispatchPath
<1>3. ASSUME NEW p \in Publishers, Publish(p) PROVE PathInv'
  BY <1>3, CheckPath, AllocatePath, EnqueuePath DEF Publish
<1>4. ASSUME UNCHANGED <<events, sent, inits, free, pc, loop>> PROVE PathInv'
  BY <1>4, StillPath DEF PathInv, ShapeInv
<1> QED
  BY <1>1, <1>2, <1>3, <1>4 DEF Next, vars, registerCallback, unregisterCallback, pool, life

\* A step takes an event only into empty hands, and from the front of the queue.
THEOREM OrderIsKept == Spec => InOrder
<1> DEFINE Ordered == \A e \in {handling'} \ {Nobody} :
                        handling = Nobody => \A f \in Alive : f.by = e.by => e.n <= f.n
<1>1. PathInv /\ [Next]_vars => PathInv'
  BY NextPath
<1>2. PathInv /\ [Next]_vars => [Ordered]_vars
  <2> SUFFICES ASSUME PathInv, [Next]_vars, handling' # Nobody, handling = Nobody,
                      NEW f \in Alive, f.by = handling'.by
               PROVE  handling'.n <= f.n
    OBVIOUS
  <2>1. take /\ queue # << >> /\ handling' = Head(queue)
    BY DEF Next, vars, Operate, Dispatch, Publish, checkLatch, allocate, enqueue, registerCallback,
           unregisterCallback, checkRunning, take, snapshot, call, EStopInCallback, reinitialize,
           reset, events
  <2>2. 1 \in DOMAIN queue /\ handling' = queue[1] /\ DOMAIN queue \subseteq Nat
    BY <2>1, QueueFacts DEF PathInv
  <2>3. handling' \in Placed /\ handling'.n \in Nat /\ handling'.by \in Publishers
    BY <2>2, PlacedFacts, SizesAssumption DEF PathInv
  <2>4. CASE \E i \in DOMAIN queue : f = queue[i]
    <3>1. PICK i \in DOMAIN queue : f = queue[i]
      BY <2>4
    <3>2. CASE i = 1
      BY <2>2, <2>3, <3>1, <3>2
    <3>3. CASE i # 1
      <4>1. 1 < i /\ f.n \in Nat
        BY <2>2, <3>1, <3>3, PlacedFacts, SizesAssumption, QueueFacts DEF PathInv
      <4>2. handling'.n < f.n
        BY <2>2, <3>1, <4>1 DEF PathInv, OrderInv
      <4> QED
        BY <2>3, <4>1, <4>2
    <3> QED
      BY <3>2, <3>3
  <2>5. CASE \E p \in Publishers : f = held[p] /\ f # Nobody
    <3>1. PICK p \in Publishers : f = held[p] /\ f # Nobody
      BY <2>5
    <3>2. f.by = p /\ f.n = sent[p] /\ f.n \in Nat
      BY <3>1, SizesAssumption DEF PathInv, ShapeInv, OrderInv
    <3>3. handling'.n <= sent[handling'.by]
      BY <2>3 DEF PathInv, OrderInv
    <3> QED
      BY <3>2, <3>3
  <2> QED
    BY <2>4, <2>5 DEF Alive
<1> QED
  BY <1>1, <1>2, InitPath, PTL DEF Spec, InOrder

-----------------------------------------------------------------------------
(* The blocks of the pool                                                   *)

\* Every block is free or carries one event, and the pool was empty when it was replaced.
BlockInv ==
  /\ IsFiniteSet(Alive) /\ PoolAccounts /\ NoForeignEvent

\* Whoever has an event in his hands.
LEMMA AliveFacts ==
  ASSUME NEW e
  PROVE  e \in Alive <=> /\ e # Nobody
                         /\ \/ \E i \in DOMAIN queue : queue[i] = e
                            \/ \E p \in Publishers : held[p] = e
                            \/ handling = e
  BY DEF Alive

\* The order of the events makes them pairwise different.
LEMMA Distinct ==
  ASSUME PathInv
  PROVE  /\ \A i, j \in DOMAIN queue : queue[i] = queue[j] => i = j
         /\ \A i \in DOMAIN queue : queue[i] # handling /\ queue[i] # Nobody
         /\ \A p \in Publishers, e \in Placed : held[p] # e
         /\ \A p, q \in Publishers : held[p] # Nobody /\ held[p] = held[q] => p = q
<1> USE DEF PathInv
<1>1. ASSUME NEW i \in DOMAIN queue, NEW j \in DOMAIN queue, queue[i] = queue[j] PROVE i = j
  <2>1. queue[i].n \in Nat /\ i \in Nat /\ j \in Nat
    BY PlacedFacts, QueueFacts, SizesAssumption
  <2>2. ~(i < j) /\ ~(j < i)
    BY <1>1, <2>1 DEF OrderInv
  <2> QED
    BY <2>1, <2>2
<1>2. ASSUME NEW i \in DOMAIN queue PROVE queue[i] # handling /\ queue[i] # Nobody
  <2>1. queue[i].n \in Nat /\ queue[i] # Nobody
    BY PlacedFacts, QueueFacts, SizesAssumption
  <2> QED
    BY <2>1 DEF OrderInv
<1>3. ASSUME NEW p \in Publishers, NEW e \in Placed, held[p] = e PROVE FALSE
  <2>1. e \in Event /\ e # Nobody /\ e.n \in Nat
    BY PlacedFacts, SizesAssumption, NobodyAssumption
  <2>2. e.by = p /\ e.n = sent[p] /\ pc[p] = "enqueue"
    BY <1>3, <2>1 DEF OrderInv, ShapeInv
  <2>3. e.n < sent[e.by]
    BY <2>2 DEF OrderInv
  <2> QED
    BY <2>1, <2>2, <2>3
<1>4. \A p, q \in Publishers : held[p] # Nobody /\ held[p] = held[q] => p = q
  BY DEF OrderInv
<1> QED
  BY <1>1, <1>2, <1>3, <1>4

\* The events stay where they are, or go from one pair of hands to the next.
LEMMA SameBlocks ==
  ASSUME BlockInv, Alive' = Alive, UNCHANGED <<free, inits, lost>>
  PROVE  BlockInv'
BY DEF BlockInv, PoolAccounts, NoForeignEvent

\* One event gives its block back.
LEMMA BlockBack ==
  ASSUME BlockInv, PathInv, NEW e \in Alive, Alive' = Alive \ {e}, free' = free + 1,
         UNCHANGED <<inits, lost>>
  PROVE  BlockInv'
<1>1. IsFiniteSet(Alive') /\ Cardinality(Alive') = Cardinality(Alive) - 1
  BY FS_RemoveElement DEF BlockInv
<1>2. Cardinality(Alive) \in Nat /\ free \in Nat /\ PoolSize \in Nat
  BY FS_CardinalityType, SizesAssumption DEF BlockInv, PathInv, ShapeInv
<1>3. PoolAccounts'
  BY <1>1, <1>2 DEF BlockInv, PoolAccounts
<1> QED
  BY <1>1, <1>3 DEF BlockInv, NoForeignEvent

LEMMA DrainBlocks ==
  ASSUME BlockInv, PathInv, queue # << >>, queue' = Tail(queue), free' = free + 1,
         UNCHANGED <<held, handling, inits, lost>>
  PROVE  BlockInv'
<1>1. /\ 1 \in DOMAIN queue /\ queue[1] \in Placed /\ queue[1] # Nobody
      /\ \A i \in DOMAIN queue' : i + 1 \in DOMAIN queue /\ i + 1 # 1 /\ queue'[i] = queue[i + 1]
  BY QueueFacts, PlacedFacts DEF PathInv
<1>2. \A i \in DOMAIN queue : i # 1 => i - 1 \in DOMAIN queue' /\ queue'[i - 1] = queue[i]
  BY QueueFacts DEF PathInv
<1>3. queue[1] \in Alive
  BY <1>1, AliveFacts
<1>4. ASSUME NEW e PROVE e \in Alive' <=> e \in Alive \ {queue[1]}
  <2>1. ASSUME e \in Alive' PROVE e \in Alive /\ e # queue[1]
    <3>1. e # Nobody
      BY <2>1 DEF Alive
    <3>2. CASE \E i \in DOMAIN queue' : queue'[i] = e
      BY <3>1, <3>2, <1>1, Distinct, AliveFacts
    <3>3. CASE \E p \in Publishers : held[p] = e
      BY <3>1, <3>3, <1>1, Distinct, AliveFacts
    <3>4. CASE handling = e
      BY <3>1, <3>4, <1>1, Distinct, AliveFacts
    <3> QED
      BY <2>1, <3>2, <3>3, <3>4 DEF Alive
  <2>2. ASSUME e \in Alive, e # queue[1] PROVE e \in Alive'
    <3>1. e # Nobody
      BY <2>2 DEF Alive
    <3>2. CASE \E i \in DOMAIN queue : queue[i] = e
      <4>1. PICK i \in DOMAIN queue : queue[i] = e
        BY <3>2
      <4>2. i - 1 \in DOMAIN queue' /\ queue'[i - 1] = e
        BY <2>2, <4>1, <1>2
      <4> QED
        BY <3>1, <4>2 DEF Alive
    <3>3. CASE (\E p \in Publishers : held[p] = e) \/ handling = e
      BY <3>1, <3>3 DEF Alive
    <3> QED
      BY <2>2, <3>2, <3>3, AliveFacts
  <2> QED
    BY <2>1, <2>2
<1>5. Alive' = Alive \ {queue[1]}
  BY <1>4
<1> QED
  BY <1>3, <1>5, BlockBack

LEMMA SettleBlocks ==
  ASSUME BlockInv, PathInv, handling # Nobody, handling' = Nobody, free' = free + 1,
         UNCHANGED <<queue, held, inits, lost>>
  PROVE  BlockInv'
<1>1. handling \in Alive /\ handling \in Placed
  BY AliveFacts, PlacedFacts DEF PathInv
<1>2. Alive' = Alive \ {handling}
  BY <1>1, Distinct DEF Alive
<1> QED
  BY <1>1, <1>2, BlockBack

LEMMA PublishBlocks ==
  ASSUME BlockInv, PathInv, NEW p \in Publishers, Publish(p)
  PROVE  BlockInv'
<1>1. CASE checkLatch(p)
  <2>1. UNCHANGED <<queue, held, handling, free, inits, lost>>
    BY <1>1 DEF checkLatch, events, pool
  <2>2. Alive' = Alive
    BY <2>1 DEF Alive
  <2> QED
    BY <2>1, <2>2, SameBlocks
<1>2. CASE allocate(p)
  <2>0. UNCHANGED <<inits, lost>> /\ pc[p] = "alloc"
    BY <1>2 DEF allocate, At
  <2>1. CASE UNCHANGED <<free, events>>
    <3>1. Alive' = Alive
      BY <2>1 DEF Alive, events
    <3> QED
      BY <2>0, <2>1, <3>1, SameBlocks
  <2>2. CASE /\ free > 0 /\ free' = free - 1 /\ UNCHANGED <<queue, handling>>
             /\ held[p] = Nobody /\ held'[p] \in Event /\ held'[p].pool = inits
             /\ held'[p].by = p /\ held'[p].n = sent[p]
             /\ \A q \in Publishers : q # p => held'[q] = held[q]
    <3>1. held'[p] # Nobody
      BY <2>2, NobodyAssumption
    <3>2. held'[p] \notin Alive
      <4>1. \A e \in Placed : e # held'[p]
        <5>1. \A e \in Placed : e.by = p => e.n < sent[p] /\ e.n \in Nat /\ sent[p] \in Nat
          BY <2>0, PlacedFacts, SizesAssumption DEF PathInv, ShapeInv, OrderInv
        <5> QED
          BY <2>2, <5>1
      <4>2. \A q \in Publishers : held[q] # Nobody => held[q].by = q
        BY DEF PathInv, OrderInv
      <4> QED
        BY <2>2, <3>1, <4>1, <4>2, PlacedFacts DEF Alive, PathInv
    <3>3. Alive' = Alive \cup {held'[p]}
      BY <2>2, <3>1 DEF Alive
    <3>4. IsFiniteSet(Alive') /\ Cardinality(Alive') = Cardinality(Alive) + 1
      BY <3>2, <3>3, FS_AddElement DEF BlockInv
    <3>5. PoolAccounts'
      <4>1. free \in Nat /\ Cardinality(Alive) \in Nat /\ PoolSize \in Nat
        BY FS_CardinalityType, SizesAssumption DEF BlockInv, PathInv, ShapeInv
      <4> QED
        BY <2>0, <2>2, <3>4, <4>1 DEF BlockInv, PoolAccounts
    <3>6. NoForeignEvent'
      BY <2>0, <2>2, <3>3 DEF BlockInv, NoForeignEvent
    <3> QED
      BY <3>4, <3>5, <3>6 DEF BlockInv
  <2> QED
    BY <1>2, <2>1, <2>2, AllocatePath
<1>3. CASE enqueue(p)
  <2>1. /\ pc[p] = "enqueue" /\ held[p] # Nobody /\ held[p] \in Event
        /\ UNCHANGED <<handling, inits, lost>> /\ held' = [held EXCEPT ![p] = Nobody]
    BY <1>3 DEF enqueue, At, PathInv, ShapeInv
  <2>2. held'[p] = Nobody /\ \A q \in Publishers : q # p => held'[q] = held[q]
    BY <2>1 DEF PathInv, ShapeInv
  <2>3. CASE queue' = Append(queue, held[p]) /\ free' = free
    <3>1. PICK n \in Nat : /\ DOMAIN queue' = DOMAIN queue \cup {n} /\ queue'[n] = held[p]
                           /\ \A i \in DOMAIN queue : queue'[i] = queue[i]
      <4>1. Len(queue) + 1 \in Nat /\ DOMAIN queue' = DOMAIN queue \cup {Len(queue) + 1}
        BY <2>1, <2>3, QueueFacts DEF PathInv
      <4>2. queue'[Len(queue) + 1] = held[p] /\ \A i \in DOMAIN queue : queue'[i] = queue[i]
        BY <2>1, <2>3, QueueFacts DEF PathInv
      <4> QED
        BY <4>1, <4>2
    <3>2. n \notin DOMAIN queue \/ queue[n] = held[p]
      BY <3>1
    <3>3. Alive' = Alive
      <4>1. ASSUME NEW e PROVE e \in Alive' <=> e \in Alive
        <5>1. e \in Alive' => e \in Alive
          BY <2>1, <2>2, <3>1 DEF Alive
        <5>2. e \in Alive => e \in Alive'
          BY <2>1, <2>2, <3>1 DEF Alive
        <5> QED
          BY <5>1, <5>2
      <4> QED
        BY <4>1
    <3> QED
      BY <2>1, <2>3, <3>3, SameBlocks
  <2>4. CASE queue' = queue /\ free' = free + 1
    <3>1. held[p] \in Alive
      BY <2>1, AliveFacts
    <3>2. Alive' = Alive \ {held[p]}
      <4>1. \A i \in DOMAIN queue : queue[i] # held[p]
        BY Distinct, PlacedFacts DEF PathInv
      <4>2. handling # held[p]
        BY <2>1, Distinct, PlacedFacts DEF PathInv
      <4>3. \A q \in Publishers : q # p => held[q] # held[p]
        BY <2>1, Distinct
      <4> QED
        BY <2>1, <2>2, <2>4, <4>1, <4>2, <4>3 DEF Alive
    <3> QED
      BY <2>1, <2>4, <3>1, <3>2, BlockBack
  <2> QED
    BY <1>3, <2>3, <2>4 DEF enqueue
<1> QED
  BY <1>1, <1>2, <1>3 DEF Publish

LEMMA TakeBlocks ==
  ASSUME BlockInv, PathInv, take
  PROVE  BlockInv'
<1>1. handling = Nobody /\ UNCHANGED <<held, inits, free, lost>>
  BY DEF take, At, PathInv, ShapeInv, Busy, pool
<1>2. CASE UNCHANGED <<queue, handling>>
  <2>1. Alive' = Alive
    BY <1>1, <1>2 DEF Alive
  <2> QED
    BY <1>1, <2>1, SameBlocks
<1>3. CASE queue # << >> /\ handling' = Head(queue) /\ queue' = Tail(queue)
  <2>1. /\ handling' = queue[1] /\ 1 \in DOMAIN queue /\ queue[1] # Nobody
        /\ \A i \in DOMAIN queue' : i + 1 \in DOMAIN queue /\ queue'[i] = queue[i + 1]
        /\ \A i \in DOMAIN queue : i # 1 => i - 1 \in DOMAIN queue' /\ queue'[i - 1] = queue[i]
    BY <1>3, QueueFacts DEF PathInv
  <2>2. ASSUME NEW e PROVE e \in Alive' <=> e \in Alive
    <3>1. e \in Alive' => e \in Alive
      BY <1>1, <2>1 DEF Alive
    <3>2. e \in Alive => e \in Alive'
      BY <1>1, <2>1 DEF Alive
    <3> QED
      BY <3>1, <3>2
  <2>3. Alive' = Alive
    BY <2>2
  <2> QED
    BY <1>1, <2>3, SameBlocks
<1> QED
  BY <1>2, <1>3 DEF take

\* A drain, by whoever does it, and steps that move no event.
LEMMA DrainStepBlocks ==
  ASSUME BlockInv, PathInv, NEW t, NEW done, drain(t, done), UNCHANGED <<held, handling, inits, lost>>
  PROVE  BlockInv'
<1>1. CASE queue # << >> /\ queue' = Tail(queue) /\ free' = free + 1
  BY <1>1, DrainBlocks
<1>2. CASE UNCHANGED <<free, queue>>
  <2>1. Alive' = Alive
    BY <1>2 DEF Alive
  <2> QED
    BY <1>2, <2>1, SameBlocks
<1> QED
  BY <1>1, <1>2 DEF drain

LEMMA StillBlocks ==
  ASSUME BlockInv, UNCHANGED <<queue, held, handling, free, inits, lost>>
  PROVE  BlockInv'
<1>1. Alive' = Alive
  BY DEF Alive
<1> QED
  BY <1>1, SameBlocks

\* The pool is replaced when nothing of it is in anybody's hands.
LEMMA ReplaceBlocks ==
  ASSUME BlockInv, PathInv, reinitialize, Alive = {}
  PROVE  BlockInv'
<1>1. /\ free' = PoolSize /\ lost' = lost /\ queue' = << >> /\ UNCHANGED <<held, handling>>
      /\ DOMAIN queue' = {}
  BY DEF reinitialize
<1>2. Alive' = {}
  BY <1>1 DEF Alive
<1>3. IsFiniteSet(Alive') /\ Cardinality(Alive') = 0
  BY <1>2, FS_EmptySet
<1>4. PoolAccounts'
  BY <1>1, <1>3, SizesAssumption DEF PoolAccounts
<1> QED
  BY <1>1, <1>2, <1>3, <1>4 DEF BlockInv, NoForeignEvent

LEMMA NextBlocks ==
  ASSUME BlockInv, PathInv, [Next]_vars, reinitialize => Alive = {}
  PROVE  BlockInv'
<1>1. CASE Operate
  <2>1. CASE reinitialize
    BY <2>1, ReplaceBlocks
  <2>2. CASE initialize \/ halt
    <3>1. UNCHANGED <<inits, held, handling, lost>>
      BY <1>1, <2>2 DEF Operate, reinitialize, reset, initialize, halt, At, events, pool
    <3>2. CASE UNCHANGED <<free, queue>>
      BY <3>1, <3>2, StillBlocks
    <3>3. CASE drain(Op, Goto(Op, "idle") /\ UNCHANGED teardown) \/ drain(Op, Release(Op, "h_done"))
      BY <3>1, <3>3, DrainStepBlocks
    <3> QED
      BY <2>2, <3>2, <3>3 DEF initialize, halt
  <2>3. CASE reset /\ UNCHANGED <<pool, events, lost>>
    BY <2>3, StillBlocks DEF pool, events
  <2> QED
    BY <1>1, <2>1, <2>2, <2>3 DEF Operate
<1>2. CASE Dispatch
  <2>1. CASE checkRunning \/ snapshot
    BY <2>1, StillBlocks DEF checkRunning, snapshot, pool, events
  <2>2. CASE call
    <3>1. UNCHANGED <<queue, held, inits, lost>> /\ handling # Nobody
      BY <2>2 DEF call, At, PathInv, ShapeInv, Busy
    <3>2. CASE free' = free + 1 /\ handling' = Nobody
      BY <3>1, <3>2, SettleBlocks
    <3>3. CASE UNCHANGED <<free, handling>>
      BY <3>1, <3>3, StillBlocks
    <3> QED
      BY <2>2, <3>2, <3>3 DEF call
  <2>3. CASE EStopInCallback
    <3>1. UNCHANGED <<inits, held, handling, lost>>
      BY <2>3 DEF EStopInCallback
    <3>2. CASE UNCHANGED <<free, queue>>
      BY <3>1, <3>2, StillBlocks
    <3>3. CASE drain(Bus, Release(Bus, "call"))
      BY <3>1, <3>3, DrainStepBlocks
    <3> QED
      BY <2>3, <3>2, <3>3 DEF EStopInCallback, emergencyShutdownInCallback
  <2> QED
    BY <1>2, <2>1, <2>2, <2>3, TakeBlocks DEF Dispatch
<1>3. ASSUME NEW p \in Publishers, Publish(p) PROVE BlockInv'
  BY <1>3, PublishBlocks
<1>4. ASSUME UNCHANGED <<pool, events, lost>> PROVE BlockInv'
  BY <1>4, StillBlocks DEF pool, events
<1> QED
  BY <1>1, <1>2, <1>3, <1>4 DEF Next, vars, registerCallback, unregisterCallback

-----------------------------------------------------------------------------
(* The life cycle, when no publish() straddles a shutdown                   *)

\* Nothing is queued, nothing runs and nobody is let in.
Quiet == queue = << >> /\ ~running /\ (latch \/ inits = 0)

\* What makes the loop end at its next look.
Ending == phase # "up" \/ latch \/ ~running

\* A publisher inside publish() was let in by a bus that is up.
GateInv == latch \/ inits = 0 => \A p \in Publishers : pc[p] = "idle"

\* Who owns the teardown: the operator between its lock and the end of its drain, the
\* dispatch loop while it drains.
TeardownInv ==
  /\ teardown \in {"none", Op, Bus}
  /\ (teardown = Op <=> pc[Op] \in {"h_join", "h_drain"})
  /\ (teardown = Bus <=> pc[Bus] = "drain")

\* stop() and reset(): nothing is let in from the latch on, the loop is joined before the
\* queue is drained, and nothing is cleared before it is drained.
HaltInv ==
  /\ pc[Op] \in {"h_lock", "h_join", "h_drain", "h_done", "z_wait", "z_join", "z_clear"} => latch /\ ~running
  /\ pc[Op] \in {"h_drain", "h_done", "z_clear"} => loop = "none"
  /\ pc[Op] \in {"h_done", "z_join", "z_clear"} => queue = << >>
  /\ pc[Op] = "z_wait" => teardown = Bus \/ queue = << >>

\* initialize(): the system that it brings up is down, and has nothing that runs.
UpInv ==
  /\ phase = "down" => /\ pc[Op] \in {"idle", "i_join", "i_pool", "i_clear"}
                       /\ loop = "none" /\ ~running
  /\ pc[Op] \in {"i_join", "i_pool", "i_clear"} => phase = "down"
  /\ pc[Op] \in {"i_join", "i_pool"} => queue = << >> /\ (latch \/ inits = 0)
  /\ pc[Op] \in {"i_start", "i_done"} => phase = "up" /\ loop = "none" /\ ~running
  /\ pc[Op] = "i_done" => ~latch

\* Between two calls of the operator: a bus that is asked to end is quiet, or its own
\* callback is about to make it so; and it does not end unless asked.
RestInv ==
  /\ pc[Bus] \in {"try", "drain"} => latch /\ ~running
  /\ pc[Op] \in {"idle", "i_cleanup"} =>
       /\ Ending => Quiet \/ pc[Bus] \in {"latch", "try", "drain"}
       /\ loop # "running" => Ending

LifeInv == GateInv /\ TeardownInv /\ HaltInv /\ UpInv /\ RestInv

\* A thread that moves and nothing else of the life cycle.
LEMMA PublishLife ==
  ASSUME Straddle = FALSE, PathInv, LifeInv, NEW p \in Publishers, Publish(p)
  PROVE  LifeInv'
<1> USE Names
<1>1. pc \in [Threads -> PCs] /\ UNCHANGED <<phase, latch, teardown, running, loop, inits>>
  BY DEF Publish, checkLatch, allocate, enqueue, life, pool, PathInv, ShapeInv
<1>2. pc'[Op] = pc[Op] /\ pc'[Bus] = pc[Bus] /\ \A q \in Publishers : q # p => pc'[q] = pc[q]
  BY <1>1 DEF Publish, checkLatch, allocate, enqueue, Goto
<1>3. latch \/ inits = 0 => pc'[p] = "idle" /\ queue' = queue
  <2>1. CASE checkLatch(p)
    BY <1>1, <2>1 DEF checkLatch, At, Goto, events
  <2>2. CASE allocate(p) \/ enqueue(p)
    BY <2>2 DEF allocate, enqueue, At, LifeInv, GateInv
  <2> QED
    BY <2>1, <2>2 DEF Publish
<1>4. ~latch /\ inits # 0 => /\ pc[Op] \notin {"h_lock", "h_join", "h_drain", "h_done", "z_wait", "z_join", "z_clear", "i_join", "i_pool"}
                             /\ ~(pc[Op] \in {"idle", "i_cleanup"} /\ Ending /\ Quiet)
  BY DEF LifeInv, HaltInv, UpInv, Quiet
<1>5. GateInv' /\ TeardownInv'
  BY <1>1, <1>2, <1>3 DEF LifeInv, GateInv, TeardownInv
<1>6. HaltInv' /\ UpInv'
  BY <1>1, <1>2, <1>3, <1>4 DEF LifeInv, HaltInv, UpInv
<1>7. RestInv'
  BY <1>1, <1>2, <1>3, <1>4 DEF LifeInv, RestInv, Quiet, Ending
<1> QED
  BY <1>5, <1>6, <1>7 DEF LifeInv

\* The loop goes on, or ends because it is asked to; and it takes nothing from a quiet bus.
LEMMA LoopLife ==
  ASSUME PathInv, LifeInv, checkRunning \/ take \/ snapshot \/ call
  PROVE  LifeInv'
<1> USE Names
<1>1. pc \in [Threads -> PCs] /\ UNCHANGED <<phase, latch, teardown, running, inits>>
  BY DEF checkRunning, take, snapshot, call, life, pool, PathInv, ShapeInv
<1>2. /\ pc'[Op] = pc[Op] /\ \A q \in Publishers : pc'[q] = pc[q]
      /\ pc[Bus] \notin {"none", "fatal", "latch", "try", "drain"}
      /\ pc'[Bus] \notin {"latch", "try", "drain"}
  BY <1>1 DEF checkRunning, take, snapshot, call, Goto, At
<1>3. queue = << >> => queue' = << >>
  BY DEF checkRunning, take, snapshot, call, events
<1>4. /\ loop = "running" /\ (loop' = loop \/ (loop' = "ended" /\ (~running \/ ShutdownRequested)))
  BY <1>2 DEF checkRunning, take, snapshot, call, life, PathInv, ShapeInv
<1>5. GateInv' /\ TeardownInv'
  BY <1>1, <1>2 DEF LifeInv, GateInv, TeardownInv
<1>6. HaltInv' /\ UpInv'
  BY <1>1, <1>2, <1>3, <1>4 DEF LifeInv, HaltInv, UpInv
<1>7. RestInv'
  BY <1>1, <1>2, <1>3, <1>4 DEF LifeInv, RestInv, Quiet, Ending, ShutdownRequested
<1> QED
  BY <1>5, <1>6, <1>7 DEF LifeInv

\* A callback that pulls the e-stop: fatal, latch, and the drain if nobody else tears down.
LEMMA EStopLife ==
  ASSUME Straddle = FALSE, PathInv, LifeInv, EStopInCallback
  PROVE  LifeInv'
<1> USE Names
<1>1. pc \in [Threads -> PCs] /\ UNCHANGED <<inits, loop>> /\ pc[Bus] \in {"fatal", "latch", "try", "drain"}
  BY DEF EStopInCallback, emergencyShutdownInCallback, PathInv, ShapeInv, At
<1>2. pc'[Op] = pc[Op] /\ \A q \in Publishers : pc'[q] = pc[q]
  BY <1>1 DEF EStopInCallback, emergencyShutdownInCallback, drain, Release, Goto
<1>3. loop = "running" /\ (queue = << >> => queue' = << >>)
  BY <1>1 DEF EStopInCallback, emergencyShutdownInCallback, drain, PathInv, ShapeInv
<1>4. phase # "down" /\ pc[Op] \notin {"i_start", "i_done", "h_drain", "h_done", "z_clear", "i_join", "i_pool", "i_clear"}
  BY <1>3 DEF LifeInv, UpInv, HaltInv
<1>5. phase' # "down" /\ (latch => latch') /\ (~running => ~running')
  BY <1>4 DEF EStopInCallback, emergencyShutdownInCallback, RaiseLatch
<1>6. GateInv'
  <2>1. latch' /\ ~latch => \A q \in Publishers : pc[q] = "idle"
    BY DEF EStopInCallback, emergencyShutdownInCallback, RaiseLatch, At
  <2> QED
    BY <1>1, <1>2, <2>1 DEF LifeInv, GateInv
<1>7. TeardownInv'
  <2>1. CASE pc[Bus] \in {"fatal", "latch"}
    <3>1. UNCHANGED teardown /\ pc'[Bus] \in {"latch", "try"}
      BY <1>1, <2>1 DEF EStopInCallback, emergencyShutdownInCallback, At, Goto
    <3> QED
      BY <1>2, <2>1, <3>1 DEF LifeInv, TeardownInv
  <2>2. CASE pc[Bus] = "try"
    <3>1. \/ teardown = "none" /\ teardown' = Bus /\ pc'[Bus] = "drain"
          \/ teardown # "none" /\ UNCHANGED teardown /\ pc'[Bus] = "call"
      BY <1>1, <2>2 DEF EStopInCallback, emergencyShutdownInCallback, At, Goto
    <3> QED
      BY <1>2, <2>2, <3>1 DEF LifeInv, TeardownInv, Op, Bus
  <2>3. CASE pc[Bus] = "drain"
    <3>1. \/ teardown' = "none" /\ pc'[Bus] = "call"
          \/ UNCHANGED <<teardown, pc>>
      BY <1>1, <2>3 DEF EStopInCallback, emergencyShutdownInCallback, At, Goto, drain, Release
    <3> QED
      BY <1>2, <2>3, <3>1 DEF LifeInv, TeardownInv, Op, Bus
  <2> QED
    BY <1>1, <2>1, <2>2, <2>3
<1>8. HaltInv'
  <2>1. pc[Op] = "z_wait" => teardown' = Bus \/ queue' = << >>
    BY <1>1, <1>3 DEF EStopInCallback, emergencyShutdownInCallback, At, drain, LifeInv, HaltInv, TeardownInv
  <2> QED
    BY <1>2, <1>3, <1>4, <1>5, <2>1, <1>1 DEF LifeInv, HaltInv
<1>9. UpInv'
  BY <1>2, <1>4, <1>5 DEF UpInv
<1>10. RestInv'
  <2>1. CASE pc[Bus] = "fatal"
    <3>1. pc'[Bus] = "latch"
      BY <1>1, <2>1 DEF EStopInCallback, emergencyShutdownInCallback, At, Goto
    <3> QED
      BY <1>1, <1>2, <1>3, <3>1 DEF RestInv
  <2>2. CASE pc[Bus] = "latch"
    <3>1. pc'[Bus] = "try" /\ latch' /\ ~running'
      BY <1>1, <2>2 DEF EStopInCallback, emergencyShutdownInCallback, At, Goto, RaiseLatch
    <3> QED
      BY <1>1, <1>2, <1>3, <3>1 DEF RestInv
  <2>3. CASE pc[Bus] = "try"
    <3>1. latch /\ ~running
      BY <2>3 DEF LifeInv, RestInv
    <3>2. \/ pc'[Bus] = "drain"
          \/ teardown # "none" /\ pc'[Bus] = "call"
      BY <1>1, <2>3 DEF EStopInCallback, emergencyShutdownInCallback, At, Goto
    <3>3. teardown # "none" => pc[Op] \notin {"idle", "i_cleanup"}
      BY <2>3 DEF LifeInv, TeardownInv
    <3> QED
      BY <1>1, <1>2, <1>3, <1>5, <3>1, <3>2, <3>3 DEF RestInv
  <2>4. CASE pc[Bus] = "drain"
    <3>1. latch /\ ~running
      BY <2>4 DEF LifeInv, RestInv
    <3>2. \/ UNCHANGED pc
          \/ queue' = << >> /\ pc'[Bus] = "call"
      BY <1>1, <2>4 DEF EStopInCallback, emergencyShutdownInCallback, At, Goto, drain, Release
    <3> QED
      BY <1>1, <1>2, <1>3, <1>5, <2>4, <3>1, <3>2 DEF RestInv, Quiet
  <2> QED
    BY <1>1, <2>1, <2>2, <2>3, <2>4
<1> QED
  BY <1>6, <1>7, <1>8, <1>9, <1>10 DEF LifeInv

\* The operator moves on and the dispatch loop does not.
LEMMA OperatorMoves ==
  ASSUME PathInv, NEW l \in PCs, Goto(Op, l)
  PROVE  pc'[Op] = l /\ pc'[Bus] = pc[Bus] /\ \A p \in Publishers : pc'[p] = pc[p]
BY Names, Moves DEF PathInv

\* initialize(): it joins and replaces what is down, lowers the latch, and starts the loop.
LEMMA InitializeLife ==
  ASSUME PathInv, LifeInv, initialize, UNCHANGED inits
  PROVE  LifeInv'
<1> USE Names
<1>1. pc \in [Threads -> PCs] /\ (loop = "running" <=> pc[Bus] # "none")
  BY DEF PathInv, ShapeInv
<1>2. CASE /\ pc[Op] = "idle" /\ phase = "down" /\ Goto(Op, "i_join")
           /\ UNCHANGED <<phase, latch, running, loop, free, queue, teardown>>
  <2>1. pc'[Op] = "i_join" /\ pc'[Bus] = pc[Bus] /\ \A p \in Publishers : pc'[p] = pc[p]
    BY <1>1, <1>2 DEF Goto
  <2>2. Quiet
    BY <1>1, <1>2 DEF LifeInv, UpInv, RestInv, Ending
  <2>3. GateInv' /\ TeardownInv'
    BY <1>2, <2>1 DEF LifeInv, GateInv, TeardownInv
  <2>4. HaltInv' /\ UpInv' /\ RestInv'
    BY <1>2, <2>1, <2>2 DEF LifeInv, HaltInv, UpInv, RestInv, Quiet
  <2> QED
    BY <2>3, <2>4 DEF LifeInv
<1>3. CASE /\ pc[Op] = "i_join" /\ join("i_pool")
           /\ UNCHANGED <<phase, latch, running, free, queue, teardown>>
  <2>1. /\ pc'[Op] = "i_pool" /\ pc'[Bus] = pc[Bus] /\ \A p \in Publishers : pc'[p] = pc[p]
        /\ loop' = "none"
    BY <1>1, <1>3 DEF Goto, join
  <2>2. GateInv' /\ TeardownInv'
    BY <1>3, <2>1 DEF LifeInv, GateInv, TeardownInv
  <2>3. HaltInv' /\ UpInv' /\ RestInv'
    BY <1>3, <2>1 DEF LifeInv, HaltInv, UpInv, RestInv
  <2> QED
    BY <2>2, <2>3 DEF LifeInv
<1>4. CASE /\ pc[Op] = "i_clear" /\ phase' = "up" /\ Goto(Op, "i_start")
           /\ UNCHANGED <<latch, running, loop, free, queue, teardown>>
  <2>1. pc'[Op] = "i_start" /\ pc'[Bus] = pc[Bus] /\ \A p \in Publishers : pc'[p] = pc[p]
    BY <1>1, <1>4 DEF Goto
  <2>2. GateInv' /\ TeardownInv'
    BY <1>4, <2>1 DEF LifeInv, GateInv, TeardownInv
  <2>3. HaltInv' /\ UpInv' /\ RestInv'
    BY <1>4, <2>1 DEF LifeInv, HaltInv, UpInv, RestInv
  <2> QED
    BY <2>2, <2>3 DEF LifeInv
<1>5. CASE /\ pc[Op] = "i_start" /\ ~latch' /\ Goto(Op, "i_done")
           /\ UNCHANGED <<phase, running, loop, free, queue, teardown>>
  <2>1. pc'[Op] = "i_done" /\ pc'[Bus] = pc[Bus] /\ \A p \in Publishers : pc'[p] = pc[p]
    BY <1>1, <1>5 DEF Goto
  <2>2. GateInv' /\ TeardownInv'
    BY <1>5, <2>1 DEF LifeInv, GateInv, TeardownInv
  <2>3. pc[Bus] = "none"
    BY <1>1, <1>5 DEF LifeInv, UpInv
  <2>4. HaltInv' /\ UpInv' /\ RestInv'
    BY <1>5, <2>1, <2>3 DEF LifeInv, HaltInv, UpInv, RestInv
  <2> QED
    BY <2>2, <2>4 DEF LifeInv
<1>6. CASE /\ pc[Op] = "i_done" /\ running' = TRUE /\ loop' = "running"
           /\ pc' = [pc EXCEPT ![Bus] = "check", ![Op] = "i_cleanup"]
           /\ UNCHANGED <<phase, latch, free, queue, teardown>>
  <2>1. pc'[Op] = "i_cleanup" /\ pc'[Bus] = "check" /\ \A p \in Publishers : pc'[p] = pc[p]
    BY <1>1, <1>6
  <2>2. phase = "up" /\ ~latch /\ pc[Bus] = "none"
    BY <1>1, <1>6 DEF LifeInv, UpInv
  <2>3. GateInv' /\ TeardownInv'
    BY <1>6, <2>1, <2>2 DEF LifeInv, GateInv, TeardownInv
  <2>4. HaltInv' /\ UpInv' /\ RestInv'
    BY <1>6, <2>1, <2>2 DEF HaltInv, UpInv, RestInv, Ending
  <2> QED
    BY <2>3, <2>4 DEF LifeInv
<1>7. CASE /\ pc[Op] = "i_cleanup" /\ UNCHANGED <<phase, latch, running, loop, teardown>>
           /\ (UNCHANGED pc \/ Goto(Op, "idle")) /\ (queue = << >> => queue' = << >>)
  <2>1. /\ pc'[Op] \in {"i_cleanup", "idle"} /\ pc'[Bus] = pc[Bus]
        /\ \A p \in Publishers : pc'[p] = pc[p]
    BY <1>1, <1>7 DEF Goto
  <2>2. GateInv' /\ TeardownInv'
    BY <1>7, <2>1 DEF LifeInv, GateInv, TeardownInv
  <2>3. HaltInv' /\ UpInv' /\ RestInv'
    BY <1>7, <2>1 DEF LifeInv, HaltInv, UpInv, RestInv, Quiet, Ending
  <2> QED
    BY <2>2, <2>3 DEF LifeInv
<1>8. ASSUME At(Op, "i_cleanup"),
             drain(Op, Goto(Op, "idle") /\ UNCHANGED teardown)
      PROVE  /\ (UNCHANGED pc \/ Goto(Op, "idle")) /\ UNCHANGED teardown
             /\ (queue = << >> => queue' = << >>)
  BY <1>8 DEF drain
<1> QED
  BY <1>2, <1>3, <1>4, <1>5, <1>6, <1>7, <1>8 DEF initialize, At

\* stop(), and the first half of reset(): latch, lock, join, drain, in this order.
LEMMA HaltLife ==
  ASSUME Straddle = FALSE, PathInv, LifeInv, halt, UNCHANGED inits
  PROVE  LifeInv'
<1> USE Names
<1>1. pc \in [Threads -> PCs] /\ (loop = "running" <=> pc[Bus] # "none")
  BY DEF PathInv, ShapeInv
<1>2. CASE /\ pc[Op] = "idle" /\ Goto(Op, "h_latch") /\ phase' \in {"stopping", "fatal"}
           /\ UNCHANGED <<latch, running, loop, free, queue, teardown>>
  <2>1. pc'[Op] = "h_latch" /\ pc'[Bus] = pc[Bus] /\ \A p \in Publishers : pc'[p] = pc[p]
    BY <1>1, <1>2 DEF Goto
  <2>2. GateInv' /\ TeardownInv'
    BY <1>2, <2>1 DEF LifeInv, GateInv, TeardownInv
  <2>3. HaltInv' /\ UpInv' /\ RestInv'
    BY <1>2, <2>1 DEF LifeInv, HaltInv, UpInv, RestInv
  <2> QED
    BY <2>2, <2>3 DEF LifeInv
<1>3. CASE /\ pc[Op] = "h_latch" /\ RaiseLatch /\ ~running' /\ Goto(Op, "h_lock")
           /\ UNCHANGED <<phase, loop, free, queue, teardown>>
  <2>1. pc'[Op] = "h_lock" /\ pc'[Bus] = pc[Bus] /\ \A p \in Publishers : pc'[p] = pc[p]
    BY <1>1, <1>3 DEF Goto
  <2>2. latch' /\ \A p \in Publishers : pc[p] = "idle"
    BY <1>3 DEF RaiseLatch, At
  <2>3. GateInv' /\ TeardownInv'
    BY <1>3, <2>1, <2>2 DEF LifeInv, GateInv, TeardownInv
  <2>4. HaltInv' /\ UpInv' /\ RestInv'
    BY <1>3, <2>1, <2>2 DEF LifeInv, HaltInv, UpInv, RestInv
  <2> QED
    BY <2>3, <2>4 DEF LifeInv
<1>4. CASE /\ pc[Op] = "h_lock" /\ UNCHANGED <<phase, latch, running, loop, free, queue>>
           /\ \/ teardown = "none" /\ teardown' = Op /\ Goto(Op, "h_join")
              \/ teardown # "none" /\ UNCHANGED teardown /\ Goto(Op, "z_wait")
  <2>1. /\ pc'[Op] = IF teardown = "none" THEN "h_join" ELSE "z_wait"
        /\ pc'[Bus] = pc[Bus] /\ \A p \in Publishers : pc'[p] = pc[p]
    BY <1>1, <1>4 DEF Goto
  <2>2. teardown # "none" => teardown = Bus
    BY <1>4 DEF LifeInv, TeardownInv
  <2>3. GateInv' /\ TeardownInv'
    BY <1>4, <2>1, <2>2 DEF LifeInv, GateInv, TeardownInv, Op, Bus
  <2>4. HaltInv' /\ UpInv' /\ RestInv'
    BY <1>4, <2>1, <2>2 DEF LifeInv, HaltInv, UpInv, RestInv
  <2> QED
    BY <2>3, <2>4 DEF LifeInv
<1>5. CASE /\ pc[Op] = "h_join" /\ join("h_drain")
           /\ UNCHANGED <<phase, latch, running, free, queue, teardown>>
  <2>1. /\ pc'[Op] = "h_drain" /\ pc'[Bus] = pc[Bus] /\ \A p \in Publishers : pc'[p] = pc[p]
        /\ loop' = "none" /\ pc[Bus] = "none"
    BY <1>1, <1>5 DEF Goto, join
  <2>2. GateInv' /\ TeardownInv'
    BY <1>5, <2>1 DEF LifeInv, GateInv, TeardownInv
  <2>3. HaltInv' /\ UpInv' /\ RestInv'
    BY <1>5, <2>1 DEF LifeInv, HaltInv, UpInv, RestInv
  <2> QED
    BY <2>2, <2>3 DEF LifeInv
<1>6. CASE /\ pc[Op] = "h_drain" /\ drain(Op, Release(Op, "h_done"))
           /\ UNCHANGED <<phase, latch, running, loop>>
  <2>1. CASE UNCHANGED <<pc, teardown>>
    <3>1. GateInv' /\ TeardownInv'
      BY <1>6, <2>1 DEF LifeInv, GateInv, TeardownInv
    <3>2. HaltInv' /\ UpInv' /\ RestInv'
      BY <1>6, <2>1 DEF LifeInv, HaltInv, UpInv, RestInv
    <3> QED
      BY <3>1, <3>2 DEF LifeInv
  <2>2. CASE queue' = << >> /\ Release(Op, "h_done")
    <3>1. /\ pc'[Op] = "h_done" /\ pc'[Bus] = pc[Bus] /\ teardown' = "none"
          /\ \A p \in Publishers : pc'[p] = pc[p]
      BY <1>1, <2>2 DEF Goto, Release
    <3>2. teardown = Op
      BY <1>6 DEF LifeInv, TeardownInv
    <3>3. GateInv' /\ TeardownInv'
      BY <1>6, <3>1, <3>2 DEF LifeInv, GateInv, TeardownInv, Op, Bus
    <3>4. HaltInv' /\ UpInv' /\ RestInv'
      BY <1>6, <2>2, <3>1 DEF LifeInv, HaltInv, UpInv, RestInv
    <3> QED
      BY <3>3, <3>4 DEF LifeInv
  <2> QED
    BY <1>6, <2>1, <2>2 DEF drain
<1>7. CASE /\ pc[Op] = "h_done" /\ phase' = (IF phase = "stopping" THEN "stopped" ELSE phase)
           /\ (Goto(Op, "z_wait") \/ Goto(Op, "idle"))
           /\ UNCHANGED <<latch, running, loop, free, queue, teardown>>
  <2>1. /\ pc'[Op] \in {"z_wait", "idle"} /\ pc'[Bus] = pc[Bus]
        /\ \A p \in Publishers : pc'[p] = pc[p]
    BY <1>1, <1>7 DEF Goto
  <2>2. GateInv' /\ TeardownInv'
    BY <1>7, <2>1 DEF LifeInv, GateInv, TeardownInv
  <2>3. Quiet /\ phase # "down" /\ phase' # "down" /\ latch
    BY <1>7 DEF LifeInv, HaltInv, UpInv, Quiet
  <2>4. HaltInv' /\ UpInv' /\ RestInv'
    BY <1>7, <2>1, <2>3 DEF LifeInv, HaltInv, UpInv, RestInv, Quiet, Ending
  <2> QED
    BY <2>2, <2>4 DEF LifeInv
<1> QED
  BY <1>2, <1>3, <1>4, <1>5, <1>6, <1>7 DEF halt, At

\* The second half of reset(): nothing is in flight when it joins again and clears.
LEMMA ResetLife ==
  ASSUME PathInv, LifeInv, reset, UNCHANGED <<latch, teardown, running, inits, queue>>
  PROVE  LifeInv'
<1> USE Names
<1>1. pc \in [Threads -> PCs] /\ (loop = "running" <=> pc[Bus] # "none")
  BY DEF PathInv, ShapeInv
<1>2. CASE pc[Op] = "z_wait" /\ teardown = "none" /\ Goto(Op, "z_join") /\ UNCHANGED <<phase, loop>>
  <2>1. pc'[Op] = "z_join" /\ pc'[Bus] = pc[Bus] /\ \A p \in Publishers : pc'[p] = pc[p]
    BY <1>1, <1>2 DEF Goto
  <2>2. GateInv' /\ TeardownInv'
    BY <1>2, <2>1 DEF LifeInv, GateInv, TeardownInv
  <2>3. HaltInv' /\ UpInv' /\ RestInv'
    BY <1>2, <2>1 DEF LifeInv, HaltInv, UpInv, RestInv, Bus
  <2> QED
    BY <2>2, <2>3 DEF LifeInv
<1>3. CASE pc[Op] = "z_join" /\ join("z_clear") /\ UNCHANGED phase
  <2>1. /\ pc'[Op] = "z_clear" /\ pc'[Bus] = pc[Bus] /\ \A p \in Publishers : pc'[p] = pc[p]
        /\ loop' = "none"
    BY <1>1, <1>3 DEF Goto, join
  <2>2. GateInv' /\ TeardownInv'
    BY <1>3, <2>1 DEF LifeInv, GateInv, TeardownInv
  <2>3. HaltInv' /\ UpInv' /\ RestInv'
    BY <1>3, <2>1 DEF LifeInv, HaltInv, UpInv, RestInv
  <2> QED
    BY <2>2, <2>3 DEF LifeInv
<1>4. CASE pc[Op] = "z_clear" /\ phase' = "down" /\ Goto(Op, "idle") /\ UNCHANGED loop
  <2>1. pc'[Op] = "idle" /\ pc'[Bus] = pc[Bus] /\ \A p \in Publishers : pc'[p] = pc[p]
    BY <1>1, <1>4 DEF Goto
  <2>2. GateInv' /\ TeardownInv'
    BY <1>4, <2>1 DEF LifeInv, GateInv, TeardownInv
  <2>3. HaltInv' /\ UpInv' /\ RestInv'
    BY <1>4, <2>1 DEF LifeInv, HaltInv, UpInv, RestInv, Quiet, Ending
  <2> QED
    BY <2>2, <2>3 DEF LifeInv
<1> QED
  BY <1>2, <1>3, <1>4 DEF reset, At

\* The pool is replaced while the system is down and nobody is inside publish().
LEMMA ReplaceLife ==
  ASSUME PathInv, LifeInv, reinitialize
  PROVE  LifeInv' /\ Alive = {}
<1> USE Names
<1>1. /\ pc[Op] = "i_pool" /\ pc'[Op] = "i_clear" /\ pc'[Bus] = pc[Bus]
      /\ \A p \in Publishers : pc'[p] = pc[p]
      /\ UNCHANGED <<phase, latch, teardown, running, loop>> /\ queue' = << >>
  BY DEF reinitialize, At, Goto, life, PathInv, ShapeInv
<1>2. phase = "down" /\ queue = << >> /\ loop = "none" /\ \A p \in Publishers : pc[p] = "idle"
  BY <1>1 DEF LifeInv, UpInv, GateInv
<1>3. Alive = {}
  <2>1. handling = Nobody /\ \A p \in Publishers : held[p] = Nobody
    BY <1>2 DEF PathInv, ShapeInv, Busy
  <2>2. DOMAIN queue = {}
    BY <1>2
  <2> QED
    BY <2>1, <2>2 DEF Alive
<1>4. GateInv' /\ TeardownInv'
  BY <1>1, <1>2 DEF LifeInv, GateInv, TeardownInv
<1>5. HaltInv' /\ UpInv' /\ RestInv'
  BY <1>1, <1>2 DEF LifeInv, HaltInv, UpInv, RestInv
<1> QED
  BY <1>3, <1>4, <1>5 DEF LifeInv

LEMMA NextLife ==
  ASSUME Straddle = FALSE, PathInv, LifeInv, [Next]_vars
  PROVE  LifeInv' /\ (reinitialize => Alive = {})
<1>1. ASSUME Operate PROVE LifeInv'
  BY <1>1, ReplaceLife, InitializeLife, HaltLife, ResetLife DEF Operate, pool, events
<1>2. ASSUME Dispatch PROVE LifeInv'
  BY <1>2, LoopLife, EStopLife DEF Dispatch
<1>3. ASSUME NEW p \in Publishers, Publish(p) PROVE LifeInv'
  BY <1>3, PublishLife
<1>4. ASSUME UNCHANGED <<life, inits, queue, pc>> PROVE LifeInv'
  BY <1>4 DEF life, LifeInv, GateInv, TeardownInv, HaltInv, UpInv, RestInv, Quiet, Ending
<1>5. reinitialize => Alive = {}
  BY ReplaceLife
<1>6. ASSUME NEW c \in Clients, registerCallback(c) \/ unregisterCallback(c) PROVE LifeInv'
  BY <1>4, <1>6 DEF registerCallback, unregisterCallback, pool, events
<1>7. ASSUME UNCHANGED vars PROVE LifeInv'
  BY <1>4, <1>7 DEF vars, pool, events
<1>8. LifeInv'
  BY <1>1, <1>2, <1>3, <1>6, <1>7 DEF Next
<1> QED
  BY <1>5, <1>8

\* A bus at rest whose loop has ended was asked to end, and so it is quiet.
LEMMA DownIsDrained ==
  ASSUME PathInv, LifeInv
  PROVE  DrainedWhenDown
<1> SUFFICES ASSUME pc[Op] = "idle", loop # "running" PROVE Alive = {} /\ ~running
  BY DEF DrainedWhenDown, At
<1>1. Quiet /\ handling = Nobody
  BY DEF PathInv, ShapeInv, Busy, LifeInv, RestInv
<1>2. \A p \in Publishers : held[p] = Nobody
  BY <1>1 DEF Quiet, PathInv, ShapeInv, LifeInv, GateInv
<1>3. DOMAIN queue = {}
  BY <1>1 DEF Quiet
<1> QED
  BY <1>1, <1>2, <1>3 DEF Alive, Quiet

\* C25: as long as no publish() straddles a shutdown, every block of the pool is free or in
\* exactly one pair of hands, initialize() replaces a pool nobody holds an event of, and
\* once stop(), reset() or an e-stop of a callback is done, every event is back.
THEOREM BusIsKept ==
  ASSUME Straddle = FALSE
  PROVE  Spec => []BusIsSound
<1>1. Init => PathInv /\ LifeInv /\ BlockInv
  <2> SUFFICES ASSUME Init PROVE PathInv /\ LifeInv /\ BlockInv
    OBVIOUS
  <2>1. pc[Op] = "idle" /\ pc[Bus] = "none" /\ \A p \in Publishers : pc[p] = "idle"
    BY Names DEF Init
  <2>2. LifeInv
    BY <2>1 DEF Init, LifeInv, GateInv, TeardownInv, HaltInv, UpInv, RestInv, Quiet, Ending, Op, Bus
  <2>3. Alive = {}
    BY DEF Init, Alive
  <2>4. BlockInv
    BY <2>3, FS_EmptySet DEF Init, BlockInv, PoolAccounts, NoForeignEvent
  <2> QED
    BY <2>2, <2>4, InitPath
<1>2. PathInv /\ LifeInv /\ BlockInv /\ [Next]_vars => (PathInv /\ LifeInv /\ BlockInv)'
  BY NextPath, NextLife, NextBlocks
<1>3. PathInv /\ LifeInv /\ BlockInv => BusIsSound
  BY DownIsDrained DEF BusIsSound, BlockInv
<1> QED
  BY <1>1, <1>2, <1>3, PTL DEF Spec
=============================================================================
