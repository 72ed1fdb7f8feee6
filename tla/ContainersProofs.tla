-------------------------- MODULE ContainersProofs --------------------------
(***************************************************************************)
(* For any capacity, any pool and any number of threads: the ring is a     *)
(* bounded queue, the lock-free queue uses each slot in turn, the pool     *)
(* loses and doubles no block.                                             *)
(***************************************************************************)
EXTENDS Containers, SequenceTheorems, FiniteSetTheorems, TLAPS

(* The ring buffer: between its two threads, a queue of its capacity less one slot. *)

\* What each side knows while it is inside a call: a writer past its check is refused by no
\* step of the reader, a reader past its check finds its slot untouched by the writer.
ringFits ==
  /\ writeIndex \in 0..RingCapacity-1 /\ readIndex \in 0..RingCapacity-1
  /\ buffer \in [0..RingCapacity-1 -> RingItems \cup {NoItem}]
  /\ writerPc \in {"idle", "store", "publish"} /\ readerPc \in {"idle", "move", "release"}
  /\ writerPc # "idle" => writing \in RingItems /\ ~isFull
  /\ writerPc = "publish" => buffer[writeIndex] = writing
  /\ readerPc # "idle" => ~isEmpty
  /\ readerPc = "release" => reading = buffer[readIndex]

\* The next index, the size and the slot of the i-th item, without the remainder.
LEMMA Wraps ==
  ASSUME NEW c \in Nat, c > 1, NEW w \in 0..c-1, NEW r \in 0..c-1
  PROVE  /\ (w + 1) % c = IF w = c - 1 THEN 0 ELSE w + 1
         /\ (w - r) % c = IF w >= r THEN w - r ELSE w - r + c
         /\ \A i \in 1..c : (r + i - 1) % c = IF r + i - 1 < c THEN r + i - 1 ELSE r + i - 1 - c
<1>1. \A a \in 0..c-1 : a % c = a
  OBVIOUS
<1>2. \A a \in c..2*c-1 : a % c = a - c
  OBVIOUS
<1>3. \A a \in 1-c..-1 : a % c = a + c
  OBVIOUS
<1>4. (w + 1) % c = IF w = c - 1 THEN 0 ELSE w + 1
  BY <1>1, <1>2
<1>5. (w - r) % c = IF w >= r THEN w - r ELSE w - r + c
  <2>1. CASE w >= r
    BY <2>1, <1>1
  <2>2. CASE w < r
    BY <2>2, <1>3
  <2> QED
    BY <2>1, <2>2
<1>6. ASSUME NEW i \in 1..c
      PROVE  (r + i - 1) % c = IF r + i - 1 < c THEN r + i - 1 ELSE r + i - 1 - c
  <2>1. CASE r + i - 1 < c
    BY <2>1, <1>1
  <2>2. CASE r + i - 1 >= c
    BY <2>2, <1>2
  <2> QED
    BY <2>1, <2>2
<1> QED
  BY <1>4, <1>5, <1>6

\* The invariant holds at first.
LEMMA RingInitFits == RingInit => ringFits
BY RingAssumption DEF RingInit, ringFits, isFull, isEmpty, after

\* No step of the writer or of the reader takes from the other what it knows.
LEMMA RingNextFits ==
  ASSUME ringFits, [RingNext]_ringVars
  PROVE  ringFits'
<1> USE RingAssumption
<1>0. \A w \in 0..RingCapacity-1 : (w + 1) % RingCapacity = IF w = RingCapacity - 1 THEN 0 ELSE w + 1
  BY Wraps
<1>1. CASE write
  <2>1. CASE writerPc = "idle"
    BY <1>1, <2>1 DEF ringFits, write, isFull, isEmpty, after, readerVars
  <2>2. CASE writerPc = "store"
    BY <1>1, <2>2 DEF ringFits, write, isFull, isEmpty, after, readerVars
  <2>3. CASE writerPc = "publish"
    BY <1>0, <1>1, <2>3 DEF ringFits, write, isFull, isEmpty, after, readerVars
  <2> QED
    BY <2>1, <2>2, <2>3 DEF ringFits
<1>2. CASE read
  <2>1. CASE readerPc = "idle"
    BY <1>2, <2>1 DEF ringFits, read, isFull, isEmpty, after, writerVars
  <2>2. CASE readerPc = "move"
    BY <1>2, <2>2 DEF ringFits, read, isFull, isEmpty, after, writerVars
  <2>3. CASE readerPc = "release"
    BY <1>0, <1>2, <2>3 DEF ringFits, read, isFull, isEmpty, after, writerVars
  <2> QED
    BY <2>1, <2>2, <2>3 DEF ringFits
<1>3. CASE peek
  BY <1>3 DEF ringFits, peek, isFull, isEmpty, after, writerVars
<1>4. CASE clearRing
  BY <1>4 DEF ringFits, clearRing, isFull, isEmpty, after
<1>5. CASE UNCHANGED ringVars
  BY <1>5 DEF ringFits, ringVars, writerVars, readerVars, isFull, isEmpty, after
<1> QED
  BY <1>1, <1>2, <1>3, <1>4, <1>5 DEF RingNext

\* The values of an index and of buffer_.
ringIndex == 0..RingCapacity-1
ringSlots == [ringIndex -> RingItems \cup {NoItem}]

\* How many items lie between two indices, and where the i-th of them lies.
distance(w, r) == IF w >= r THEN w - r ELSE w - r + RingCapacity
slot(r, i)     == IF r + i - 1 < RingCapacity THEN r + i - 1 ELSE r + i - 1 - RingCapacity

\* The items between two indices are a sequence, found in the slots from the reader's on.
LEMMA ItemsAreASequence ==
  ASSUME NEW w \in ringIndex, NEW r \in ringIndex, NEW b \in ringSlots
  PROVE  /\ distance(w, r) \in ringIndex /\ distance(w, r) \in Nat
         /\ items(w, r, b) \in Seq(RingItems \cup {NoItem})
         /\ Len(items(w, r, b)) = distance(w, r)
         /\ \A i \in 1..distance(w, r) : items(w, r, b)[i] = b[slot(r, i)]
<1> USE RingAssumption DEF ringIndex, distance, slot
<1>1. (w - r) % RingCapacity = distance(w, r)
  BY Wraps
<1>2. distance(w, r) \in ringIndex /\ distance(w, r) \in Nat
  OBVIOUS
<1>3. \A i \in 1..RingCapacity : (r + i - 1) % RingCapacity = slot(r, i) /\ slot(r, i) \in ringIndex
  <2>1. \A i \in 1..RingCapacity : slot(r, i) \in ringIndex
    OBVIOUS
  <2> QED
    BY <2>1, Wraps
<1> HIDE DEF distance, slot
<1>4. items(w, r, b) = [i \in 1..distance(w, r) |-> b[slot(r, i)]]
  <2>1. \A i \in 1..distance(w, r) : (r + i - 1) % RingCapacity = slot(r, i)
    BY <1>2, <1>3
  <2>2. items(w, r, b) = [i \in 1..distance(w, r) |-> b[(r + i - 1) % RingCapacity]]
    BY <1>1 DEF items
  <2> QED
    BY <2>1, <2>2
<1>5. items(w, r, b) \in [1..distance(w, r) -> RingItems \cup {NoItem}]
  BY <1>2, <1>3, <1>4 DEF ringSlots
<1>6. items(w, r, b) \in Seq(RingItems \cup {NoItem})
  BY <1>2, <1>5, SeqDef
<1> QED
  BY <1>2, <1>4, <1>5, <1>6, LenProperties

\* Publishing puts the item in the free slot at the end.
LEMMA PublishAppends ==
  ASSUME NEW w \in ringIndex, NEW r \in ringIndex, NEW b \in ringSlots, after(w) # r
  PROVE  items(after(w), r, b) = Append(items(w, r, b), b[w])
<1> DEFINE S == RingItems \cup {NoItem}
<1>1. /\ after(w) \in ringIndex /\ distance(after(w), r) = distance(w, r) + 1
      /\ distance(w, r) + 1 < RingCapacity /\ slot(r, distance(w, r) + 1) = w
  BY Wraps, RingAssumption DEF ringIndex, after, distance, slot
<1>2. b[w] \in S
  BY DEF ringSlots
<1> HIDE DEF S
<1> QED
  <2> DEFINE n == distance(w, r)
             s == items(w, r, b)
             t == items(after(w), r, b)
             a == Append(s, b[w])
  <2>1. n \in Nat /\ s \in Seq(S) /\ Len(s) = n /\ \A i \in 1..n : s[i] = b[slot(r, i)]
    BY ItemsAreASequence DEF S
  <2>2. /\ t \in Seq(S) /\ Len(t) = n + 1
        /\ \A i \in 1..(n + 1) : t[i] = b[slot(r, i)]
    BY <1>1, ItemsAreASequence DEF S
  <2> HIDE DEF n, s, t
  <2>3. a \in Seq(S) /\ Len(a) = n + 1 /\ (\A i \in 1..n : a[i] = s[i]) /\ a[n + 1] = b[w]
    BY <1>2, <2>1, AppendProperties
  <2> HIDE DEF a
  <2>4. slot(r, n + 1) = w
    BY <1>1 DEF n
  <2>5. \A i \in 1..(n + 1) : t[i] = a[i]
    BY <2>1, <2>2, <2>3, <2>4
  <2>6. t = a
    BY <2>2, <2>3, <2>5, SeqEqual
  <2> QED
    BY <2>6 DEF t, a, s

\* Releasing takes the item in the reader's slot.
LEMMA ReleaseTakes ==
  ASSUME NEW w \in ringIndex, NEW r \in ringIndex, NEW b \in ringSlots, w # r
  PROVE  /\ items(w, r, b) # << >>
         /\ items(w, after(r), b) = Tail(items(w, r, b))
         /\ Head(items(w, r, b)) = b[r]
<1>1. /\ after(r) \in ringIndex /\ distance(w, after(r)) = distance(w, r) - 1
      /\ distance(w, r) \in 1..RingCapacity-1 /\ slot(r, 1) = r
      /\ \A i \in 1..distance(w, r)-1 : slot(after(r), i) = slot(r, i + 1)
  BY Wraps, RingAssumption DEF ringIndex, after, distance, slot
<1>2. items(w, r, b) # << >>
  BY <1>1, ItemsAreASequence, EmptySeq
<1>3. items(w, after(r), b) = Tail(items(w, r, b))
  <2> DEFINE S == RingItems \cup {NoItem}
             n == distance(w, r)
             s == items(w, r, b)
             t == items(w, after(r), b)
             u == Tail(s)
  <2>1. n \in Nat /\ s \in Seq(S) /\ Len(s) = n /\ \A i \in 1..n : s[i] = b[slot(r, i)]
    BY ItemsAreASequence
  <2>2. /\ t \in Seq(S) /\ Len(t) = n - 1
        /\ \A i \in 1..(n - 1) : t[i] = b[slot(r, i + 1)]
    <3>1. t \in Seq(S) /\ Len(t) = n - 1
      BY <1>1, ItemsAreASequence
    <3>2. \A i \in 1..(n - 1) : t[i] = b[slot(after(r), i)]
      BY <1>1, ItemsAreASequence
    <3> QED
      BY <1>1, <3>1, <3>2
  <2> HIDE DEF S, n, s, t
  <2>3. u \in Seq(S) /\ Len(u) = n - 1 /\ \A i \in 1..(n - 1) : u[i] = s[i + 1]
    BY <1>2, <2>1, HeadTailProperties DEF s
  <2> HIDE DEF u
  <2>4. ASSUME NEW i \in 1..(n - 1) PROVE t[i] = u[i]
    <3>1. i + 1 \in 1..n
      BY <2>1
    <3>2. u[i] = b[slot(r, i + 1)]
      BY <2>1, <2>3, <3>1
    <3> QED
      BY <2>2, <3>2
  <2>5. t = u
    BY <2>2, <2>3, <2>4, SeqEqual
  <2> QED
    BY <2>5 DEF t, u, s
<1> QED
  BY <1>1, <1>2, <1>3, ItemsAreASequence

\* A slot that holds no waiting item may be written.
LEMMA FreeSlot ==
  ASSUME NEW w \in ringIndex, NEW r \in ringIndex, NEW b \in ringSlots, NEW x \in RingItems,
         after(w) # r
  PROVE  items(w, r, [b EXCEPT ![w] = x]) = items(w, r, b)
<1> DEFINE c == [b EXCEPT ![w] = x]
<1>1. c \in ringSlots
  BY DEF ringSlots
<1>2. \A i \in 1..distance(w, r) : slot(r, i) \in ringIndex /\ slot(r, i) # w
  BY RingAssumption DEF ringIndex, distance, slot
<1>3. \A i \in 1..distance(w, r) : c[slot(r, i)] = b[slot(r, i)]
  BY <1>2 DEF ringSlots
<1> HIDE DEF c
<1>4. \A i \in 1..distance(w, r) : items(w, r, c)[i] = items(w, r, b)[i]
  BY <1>1, <1>3, ItemsAreASequence
<1>5. items(w, r, c) = items(w, r, b)
  BY <1>1, <1>4, ItemsAreASequence, SeqEqual
<1> QED
  BY <1>5 DEF c

\* Every step is one of the bounded queue, or changes nothing visible.
LEMMA RingStep ==
  ASSUME ringFits, [RingNext]_ringVars
  PROVE  [Fifo!FifoNext]_contents
<1>1. writeIndex \in ringIndex /\ readIndex \in ringIndex /\ buffer \in ringSlots
  BY DEF ringFits, ringIndex, ringSlots
<1>2. CASE write
  <2>1. CASE writerPc = "idle"
    BY <1>2, <2>1 DEF write, readerVars, contents
  <2>2. CASE writerPc = "store"
    <3>1. /\ buffer' = [buffer EXCEPT ![writeIndex] = writing]
          /\ writeIndex' = writeIndex /\ readIndex' = readIndex
          /\ writing \in RingItems /\ after(writeIndex) # readIndex
      BY <1>2, <2>2 DEF write, readerVars, ringFits, isFull
    <3>2. items(writeIndex, readIndex, buffer') = items(writeIndex, readIndex, buffer)
      BY <1>1, <3>1, FreeSlot
    <3> QED
      BY <3>1, <3>2 DEF contents
  <2>3. CASE writerPc = "publish"
    <3>0. /\ writeIndex' = after(writeIndex) /\ readIndex' = readIndex /\ buffer' = buffer
          /\ buffer[writeIndex] = writing /\ writing \in RingItems /\ after(writeIndex) # readIndex
      BY <1>2, <2>3 DEF write, readerVars, ringFits, isFull
    <3>1. contents' = Append(contents, writing) /\ writing \in RingItems
      BY <1>1, <3>0, PublishAppends DEF contents
    <3>2. Len(contents) = distance(writeIndex, readIndex)
      BY <1>1, ItemsAreASequence DEF contents
    <3>3. distance(writeIndex, readIndex) < RingCapacity - 1
      BY <1>1, <2>3, Wraps, RingAssumption DEF ringFits, isFull, after, distance, ringIndex
    <3> QED
      BY <3>1, <3>2, <3>3 DEF Fifo!FifoNext, Fifo!Put
  <2> QED
    BY <2>1, <2>2, <2>3 DEF ringFits
<1>3. CASE read
  <2>1. CASE readerPc # "release"
    BY <1>3, <2>1 DEF read, writerVars, contents
  <2>2. CASE readerPc = "release"
    <3>1. /\ readIndex' = after(readIndex) /\ writeIndex' = writeIndex /\ buffer' = buffer
          /\ writeIndex # readIndex
      BY <1>3, <2>2 DEF read, writerVars, ringFits, isEmpty
    <3>2. contents # << >> /\ contents' = Tail(contents)
      BY <1>1, <3>1, ReleaseTakes DEF contents
    <3> QED
      BY <3>2 DEF Fifo!FifoNext, Fifo!Take
  <2> QED
    BY <2>1, <2>2
<1>4. CASE peek
  BY <1>4 DEF peek, writerVars, contents
<1>5. CASE clearRing
  <2>1. writeIndex' = 0 /\ readIndex' = 0 /\ buffer' = buffer /\ 0 \in ringIndex /\ distance(0, 0) = 0
    BY <1>5, RingAssumption DEF clearRing, ringIndex, distance
  <2>2. contents' = << >>
    BY <1>1, <2>1, ItemsAreASequence, EmptySeq DEF contents
  <2> QED
    BY <2>2 DEF Fifo!FifoNext, Fifo!Drop
<1>6. CASE UNCHANGED ringVars
  BY <1>6 DEF ringVars, writerVars, readerVars, contents
<1> QED
  BY <1>2, <1>3, <1>4, <1>5, <1>6 DEF RingNext

\* The ring starts as an empty queue.
LEMMA RingStart == RingInit => Fifo!FifoInit
<1> SUFFICES ASSUME RingInit PROVE Fifo!FifoInit
  OBVIOUS
<1>1. writeIndex = 0 /\ readIndex = 0 /\ buffer \in ringSlots /\ 0 \in ringIndex /\ distance(0, 0) = 0
  BY RingAssumption DEF RingInit, ringIndex, ringSlots, distance
<1>2. contents = << >>
  BY <1>1, ItemsAreASequence, EmptySeq DEF contents
<1> QED
  BY <1>2 DEF Fifo!FifoInit

\* What the writer and the reader know holds in every state.
LEMMA RingInvariance == RingSpec => []ringFits
<1>1. ringFits /\ [RingNext]_ringVars => ringFits'
  BY RingNextFits
<1> QED
  BY <1>1, RingInitFits, PTL DEF RingSpec

\* A ring of any capacity with one writer and one reader is a queue of that capacity less one
\* slot: whatever either is in the middle of, write() appends, read() takes the oldest.
THEOREM RingImplementsFifo == RingSpec => ringIsFifo
<1>1. ringFits /\ [RingNext]_ringVars => [Fifo!FifoNext]_contents
  BY RingStep
<1> QED
  BY <1>1, RingStart, RingInvariance, PTL DEF RingSpec, ringIsFifo

\* read() returns the oldest item: no write() reuses its slot before the index moves on.
THEOREM OldestIsRead == RingSpec => []ReaderHasOldest
<1>1. ringFits => ReaderHasOldest
  BY ReleaseTakes DEF ringFits, ReaderHasOldest, contents, isEmpty, ringIndex, ringSlots
<1> QED
  BY <1>1, RingInvariance, PTL

-----------------------------------------------------------------------------
(* The lock-free queue: a slot is a promise about one position, lap by lap. *)

\* Division with remainder.
LEMMA Division ==
  ASSUME NEW c \in Nat, c > 0, NEW p \in Nat
  PROVE  p \div c \in Nat /\ p % c \in 0..c-1 /\ p = (c * (p \div c)) + (p % c)
BY SMTT(20)

LEMMA Remainder ==
  ASSUME NEW c \in Nat, c > 0, NEW q \in Nat, NEW s \in 0..c-1
  PROVE  (c * q + s) % c = s
BY SMTT(20)

\* A lap later a position is in the same slot.
LEMMA SameSlot ==
  ASSUME NEW c \in Nat, c > 0, NEW p \in Nat
  PROVE  (p + c) % c = p % c
<1>1. PICK q \in Nat, s \in 0..c-1 : p = c * q + s /\ s = p % c
  BY Division
<1>2. p + c = c * (q + 1) + s
  BY <1>1
<1> QED
  BY <1>1, <1>2, Remainder

\* Positions of one lap are in different slots.
LEMMA OtherSlot ==
  ASSUME NEW c \in Nat, c > 0, NEW p \in Nat, NEW q \in Nat, p < q, q < p + c
  PROVE  p % c # q % c
<1> SUFFICES ASSUME p % c = q % c PROVE FALSE
  OBVIOUS
<1>1. PICK a \in Nat, s \in 0..c-1 : p = c * a + s /\ s = p % c
  BY Division
<1>2. PICK b \in Nat, t \in 0..c-1 : q = c * b + t /\ t = q % c
  BY Division
<1>3. c * (b - a) = q - p
  BY <1>1, <1>2
<1>4. CASE b - a >= 1
  <2>1. c * (b - a) >= c
    BY <1>4
  <2> QED
    BY <2>1, <1>3
<1>5. CASE b - a <= 0
  <2>1. c * (b - a) <= 0
    BY <1>5
  <2> QED
    BY <2>1, <1>3
<1> QED
  BY <1>4, <1>5

\* Every slot is that of a position of the lap from d on.
LEMMA LapCoversSlots ==
  ASSUME NEW c \in Nat, c > 0, NEW d \in Nat, NEW s \in 0..c-1
  PROVE  \E p \in d..d+c-1 : p % c = s
<1>1. PICK a \in Nat, r \in 0..c-1 : d = c * a + r
  BY Division
<1>2. CASE r <= s
  <2>1. c * a + s \in d..d+c-1
    BY <1>1, <1>2
  <2> QED
    BY <2>1, Remainder
<1>3. CASE s < r
  <2>1. c * (a + 1) + s \in d..d+c-1 /\ a + 1 \in Nat
    BY <1>1, <1>3
  <2> QED
    BY <2>1, Remainder
<1> QED
  BY <1>2, <1>3

-----------------------------------------------------------------------------

Claiming == {"construct", "publish"}    \* has claimed a position to enqueue at
Taking   == {"move", "release"}         \* has claimed a position to dequeue from

QueueType ==
  /\ enqueuePos \in Nat /\ dequeuePos \in Nat
  /\ dequeuePos <= enqueuePos /\ enqueuePos <= dequeuePos + Capacity
  /\ sequence \in [Slots -> Int]
  /\ storage \in [Slots -> Nat \cup {Unbuilt}]
  /\ queuePc \in [Users -> {"idle", "enqueue", "dequeue"} \cup Claiming \cup Taking]
  /\ pos \in [Users -> Nat]

slotAt(p)   == p % Capacity
numberOf(p) == sequence[slotAt(p)]
itemAt(p)   == storage[slotAt(p)]

\* A position that waits to be dequeued is published, or claimed; one that waits to be enqueued
\* at is free, or still that of the item a lap before, whose taker is not through with it.
LapInv ==
  \A p \in dequeuePos..dequeuePos+Capacity-1 :
    /\ p < enqueuePos =>
         \/ numberOf(p) = p + 1 /\ itemAt(p) = p
         \/ numberOf(p) = p /\ itemAt(p) \in {Unbuilt, p}
    /\ p >= enqueuePos =>
         \/ numberOf(p) = p /\ itemAt(p) = Unbuilt
         \/ /\ numberOf(p) = p - Capacity + 1
            /\ \/ itemAt(p) = Unbuilt
               \/ \E u \in Users : queuePc[u] = "move" /\ pos[u] = p - Capacity

\* What a thread knows of the position it claimed.
ClaimInv ==
  \A u \in Users :
    /\ queuePc[u] \in Claiming =>
         /\ dequeuePos <= pos[u] /\ pos[u] < enqueuePos /\ numberOf(pos[u]) = pos[u]
         /\ itemAt(pos[u]) = IF queuePc[u] = "construct" THEN Unbuilt ELSE pos[u]
    /\ queuePc[u] \in Taking =>
         /\ pos[u] < dequeuePos /\ enqueuePos <= pos[u] + Capacity
         /\ numberOf(pos[u]) = pos[u] + 1
         /\ itemAt(pos[u]) = IF queuePc[u] = "move" THEN pos[u] ELSE Unbuilt

\* A position is claimed by one thread to enqueue and by one to dequeue.
OneClaim ==
  \A u, v \in Users :
    u # v /\ pos[u] = pos[v] =>
      /\ ~(queuePc[u] \in Claiming /\ queuePc[v] \in Claiming)
      /\ ~(queuePc[u] \in Taking /\ queuePc[v] \in Taking)

QueueInv == QueueType /\ LapInv /\ ClaimInv /\ OneClaim

-----------------------------------------------------------------------------

\* All that the proof uses of the remainder.
LEMMA SlotFacts ==
  /\ Capacity \in Nat /\ Capacity > 1 /\ Unbuilt \notin Nat
  /\ \A p \in Nat : slotAt(p) \in Slots /\ slotAt(p + Capacity) = slotAt(p)
  /\ \A p, q \in Nat : p < q /\ q < p + Capacity => slotAt(p) # slotAt(q)
  /\ \A d \in Nat, s \in Slots : \E p \in d..d+Capacity-1 : slotAt(p) = s
  /\ \A p \in 0..Capacity-1 : slotAt(p) = p
<1>1. Capacity \in Nat /\ Capacity > 0
  BY QueueAssumption
<1>2. \A p \in 0..Capacity-1 : slotAt(p) = p
  BY <1>1 DEF slotAt
<1> QED
  BY <1>1, <1>2, QueueAssumption, Division, SameSlot, OtherSlot, LapCoversSlots DEF slotAt, Slots

\* The slots of two positions that are claimed at once, or of one lap, differ.
LEMMA ClaimsApart ==
  ASSUME QueueInv
  PROVE  /\ \A u \in Users : pos[u] \in Nat /\ slotOf(u) = slotAt(pos[u]) /\ slotOf(u) \in Slots
         /\ \A p, q \in dequeuePos..dequeuePos+Capacity-1 : p # q => slotAt(p) # slotAt(q)
         /\ \A u \in Users, p \in dequeuePos..dequeuePos+Capacity-1 :
              /\ queuePc[u] \in Claiming /\ p # pos[u] => slotAt(p) # slotOf(u)
              /\ queuePc[u] \in Taking /\ p # pos[u] + Capacity => slotAt(p) # slotOf(u)
         /\ \A u, v \in Users :
              u # v /\ {queuePc[u], queuePc[v]} \subseteq Claiming \cup Taking => slotOf(u) # slotOf(v)
<1>1. \A u \in Users : pos[u] \in Nat /\ slotOf(u) = slotAt(pos[u]) /\ slotOf(u) \in Slots
  BY SlotFacts DEF QueueInv, QueueType, slotOf, slotAt
<1>2. \A p, q \in dequeuePos..dequeuePos+Capacity-1 : p # q => slotAt(p) # slotAt(q)
  BY SlotFacts DEF QueueInv, QueueType
<1>3. ASSUME NEW u \in Users, queuePc[u] \in Claiming
      PROVE  pos[u] \in dequeuePos..dequeuePos+Capacity-1
  BY <1>1, <1>3, SlotFacts DEF QueueInv, QueueType, ClaimInv
<1>4. ASSUME NEW u \in Users, queuePc[u] \in Taking
      PROVE  /\ pos[u] + Capacity \in dequeuePos..dequeuePos+Capacity-1
             /\ pos[u] + Capacity >= enqueuePos
             /\ slotAt(pos[u] + Capacity) = slotOf(u)
  BY <1>1, <1>4, SlotFacts DEF QueueInv, QueueType, ClaimInv
<1>5. ASSUME NEW u \in Users, NEW p \in dequeuePos..dequeuePos+Capacity-1
      PROVE  /\ queuePc[u] \in Claiming /\ p # pos[u] => slotAt(p) # slotOf(u)
             /\ queuePc[u] \in Taking /\ p # pos[u] + Capacity => slotAt(p) # slotOf(u)
  <2>1. CASE queuePc[u] \in Claiming /\ p # pos[u]
    <3>1. pos[u] \in dequeuePos..dequeuePos+Capacity-1
      BY <1>3, <2>1
    <3>2. slotAt(p) # slotAt(pos[u]) /\ queuePc[u] \notin Taking
      BY <1>2, <2>1, <3>1 DEF Claiming, Taking
    <3> QED
      BY <1>1, <3>2
  <2>2. CASE queuePc[u] \in Taking /\ p # pos[u] + Capacity
    <3> DEFINE q == pos[u] + Capacity
    <3>1. q \in dequeuePos..dequeuePos+Capacity-1 /\ p # q /\ slotAt(q) = slotOf(u)
      BY <1>4, <2>2
    <3> HIDE DEF q
    <3>2. slotAt(p) # slotAt(q)
      BY <1>2, <3>1
    <3> QED
      BY <2>2, <3>1, <3>2 DEF Claiming, Taking
  <2> QED
    BY <2>1, <2>2
<1>6. ASSUME NEW u \in Users, NEW v \in Users, u # v,
             queuePc[u] \in Claiming \cup Taking, queuePc[v] \in Claiming \cup Taking
      PROVE  slotOf(u) # slotOf(v)
  <2>1. CASE queuePc[u] \in Claiming /\ queuePc[v] \in Claiming
    <3>1. pos[u] # pos[v] /\ pos[v] \in dequeuePos..dequeuePos+Capacity-1
      BY <1>3, <1>6, <2>1 DEF QueueInv, OneClaim
    <3> QED
      BY <1>1, <1>5, <2>1, <3>1
  <2>2. CASE queuePc[u] \in Taking /\ queuePc[v] \in Taking
    <3>1. pos[u] # pos[v]
      BY <1>6, <2>2 DEF QueueInv, OneClaim
    <3>2. pos[v] + Capacity \in dequeuePos..dequeuePos+Capacity-1 /\ pos[v] + Capacity # pos[u] + Capacity
      BY <1>1, <1>4, <2>2, <3>1, QueueAssumption
    <3>3. slotAt(pos[v] + Capacity) # slotOf(u) /\ slotAt(pos[v] + Capacity) = slotOf(v)
      BY <1>4, <1>5, <2>2, <3>2
    <3> QED
      BY <3>3
  <2>3. CASE queuePc[u] \in Claiming /\ queuePc[v] \in Taking
    <3>1. pos[u] # pos[v] + Capacity
      BY <1>1, <1>4, <2>3, QueueAssumption DEF QueueInv, QueueType, ClaimInv
    <3> QED
      BY <1>1, <1>3, <1>4, <1>5, <2>3, <3>1
  <2>4. CASE queuePc[u] \in Taking /\ queuePc[v] \in Claiming
    <3>1. pos[v] # pos[u] + Capacity
      BY <1>1, <1>4, <2>4, QueueAssumption DEF QueueInv, QueueType, ClaimInv
    <3> QED
      BY <1>1, <1>3, <1>4, <1>5, <2>4, <3>1
  <2> QED
    BY <1>6, <2>1, <2>2, <2>3, <2>4
<1> QED
  BY <1>1, <1>2, <1>5, <1>6

\* A thread that has claimed nothing and claims nothing may load a position or leave.
LEMMA RoamKeeps ==
  ASSUME QueueInv, NEW u \in Users, NEW l \in {"idle", "enqueue", "dequeue"}, NEW p \in Nat,
         queuePc[u] \notin Claiming \cup Taking, QueueGoto(u, l), Reload(u, p),
         UNCHANGED queueShared
  PROVE  QueueInv'
<1> USE DEF QueueGoto, Reload, queueShared, Claiming, Taking
<1>1. QueueType'
  BY DEF QueueInv, QueueType
<1>2. \A v \in Users : v # u => pos'[v] = pos[v] /\ queuePc'[v] = queuePc[v]
  BY DEF QueueInv, QueueType
<1>3. queuePc'[u] \notin Claiming \cup Taking
  BY DEF QueueInv, QueueType
<1>4. LapInv'
  BY <1>2 DEF QueueInv, LapInv, numberOf, itemAt, slotAt
<1>5. ClaimInv'
  BY <1>2, <1>3 DEF QueueInv, ClaimInv, numberOf, itemAt, slotAt
<1>6. OneClaim'
  BY <1>2, <1>3 DEF QueueInv, OneClaim
<1> QED
  BY <1>1, <1>4, <1>5, <1>6 DEF QueueInv

\* Whoever wins the position of the next enqueue finds its slot free.
LEMMA EnqueueClaims ==
  ASSUME QueueInv, NEW u \in Users, queuePc[u] = "enqueue",
         sequence[slotOf(u)] = pos[u], enqueuePos = pos[u],
         enqueuePos' = pos[u] + 1, QueueGoto(u, "construct"),
         UNCHANGED <<dequeuePos, sequence, storage, pos>>
  PROVE  QueueInv'
<1> USE QueueAssumption
<1>0. pos[u] \in Nat /\ numberOf(pos[u]) = pos[u] /\ dequeuePos \in Nat
  BY ClaimsApart DEF numberOf, QueueInv, QueueType
<1>1. enqueuePos < dequeuePos + Capacity
  <2> SUFFICES ASSUME enqueuePos = dequeuePos + Capacity PROVE FALSE
    BY <1>0 DEF QueueInv, QueueType
  <2>1. slotAt(dequeuePos) = slotAt(pos[u])
    BY <1>0, SlotFacts
  <2>2. numberOf(dequeuePos) \in {dequeuePos, dequeuePos + 1}
    BY <1>0 DEF QueueInv, LapInv
  <2>3. numberOf(dequeuePos) = numberOf(pos[u])
    BY <2>1 DEF numberOf
  <2>4. pos[u] = dequeuePos + Capacity
    OBVIOUS
  <2>5. numberOf(dequeuePos) = dequeuePos + Capacity
    BY <1>0, <2>3, <2>4
  <2>6. Capacity \in Nat /\ Capacity > 1
    BY QueueAssumption
  <2>7. dequeuePos \in Nat
    BY <1>0
  <2> QED
    BY <2>2, <2>5, <2>6, <2>7
<1>2. itemAt(pos[u]) = Unbuilt
  BY <1>0, <1>1 DEF QueueInv, QueueType, LapInv
<1>3. queuePc' = [queuePc EXCEPT ![u] = "construct"]
  BY DEF QueueGoto
<1>4. QueueType'
  BY <1>0, <1>1, <1>3 DEF QueueInv, QueueType, Claiming, Taking
<1>5. \A v \in Users : v # u => queuePc'[v] = queuePc[v]
  BY <1>3 DEF QueueInv, QueueType
<1>6. queuePc'[u] = "construct"
  BY <1>3 DEF QueueInv, QueueType
<1>7. \A p : numberOf(p)' = numberOf(p) /\ itemAt(p)' = itemAt(p)
  BY DEF numberOf, itemAt, slotAt
<1>8. LapInv'
  <2> SUFFICES ASSUME NEW p \in dequeuePos..dequeuePos+Capacity-1
               PROVE  /\ p < pos[u] + 1 =>
                           \/ numberOf(p) = p + 1 /\ itemAt(p) = p
                           \/ numberOf(p) = p /\ itemAt(p) \in {Unbuilt, p}
                      /\ p >= pos[u] + 1 =>
                           \/ numberOf(p) = p /\ itemAt(p) = Unbuilt
                           \/ /\ numberOf(p) = p - Capacity + 1
                              /\ \/ itemAt(p) = Unbuilt
                                 \/ \E v \in Users : queuePc'[v] = "move" /\ pos[v] = p - Capacity
    BY <1>7 DEF LapInv
  <2>1. CASE p = pos[u]
    BY <1>0, <1>2, <2>1
  <2>2. CASE p < pos[u]
    BY <1>0, <2>2 DEF QueueInv, LapInv
  <2>3. CASE p > pos[u]
    BY <1>0, <1>5, <2>3 DEF QueueInv, LapInv
  <2> QED
    BY <1>0, <2>1, <2>2, <2>3
<1>9. ClaimInv'
  <2>1. \A v \in Users : queuePc[v] \in Taking => pos[v] + Capacity # pos[u]
    BY <1>0, SlotFacts DEF QueueInv, QueueType, ClaimInv, numberOf
  <2>2. \A v \in Users : pos[v] \in Nat
    BY DEF QueueInv, QueueType
  <2> QED
    BY <1>0, <1>1, <1>2, <1>5, <1>6, <1>7, <2>1, <2>2 DEF QueueInv, QueueType, ClaimInv, Claiming, Taking
<1>10. OneClaim'
  <2>1. \A v \in Users : queuePc[v] \in Claiming => pos[v] # pos[u]
    BY <1>0 DEF QueueInv, QueueType, ClaimInv
  <2> QED
    BY <1>5, <1>6, <2>1 DEF QueueInv, OneClaim, Claiming, Taking
<1> QED
  BY <1>4, <1>8, <1>9, <1>10 DEF QueueInv

\* Whoever wins the position of the next dequeue finds the item of that position.
LEMMA DequeueClaims ==
  ASSUME QueueInv, NEW u \in Users, queuePc[u] = "dequeue",
         sequence[slotOf(u)] = pos[u] + 1, dequeuePos = pos[u],
         dequeuePos' = pos[u] + 1, QueueGoto(u, "move"),
         UNCHANGED <<enqueuePos, sequence, storage, pos>>
  PROVE  QueueInv'
<1> USE QueueAssumption
<1>0. pos[u] \in Nat /\ numberOf(pos[u]) = pos[u] + 1 /\ enqueuePos \in Nat
  BY ClaimsApart DEF numberOf, QueueInv, QueueType
<1>1. dequeuePos < enqueuePos
  BY <1>0 DEF QueueInv, QueueType, LapInv
<1>2. itemAt(pos[u]) = pos[u]
  BY <1>0, <1>1 DEF QueueInv, LapInv
<1>3. queuePc' = [queuePc EXCEPT ![u] = "move"]
  BY DEF QueueGoto
<1>4. QueueType'
  BY <1>0, <1>1, <1>3 DEF QueueInv, QueueType, Claiming, Taking
<1>5. \A v \in Users : v # u => queuePc'[v] = queuePc[v]
  BY <1>3 DEF QueueInv, QueueType
<1>6. queuePc'[u] = "move"
  BY <1>3 DEF QueueInv, QueueType
<1>7. \A p : numberOf(p)' = numberOf(p) /\ itemAt(p)' = itemAt(p)
  BY DEF numberOf, itemAt, slotAt
<1>8. LapInv'
  <2> SUFFICES ASSUME NEW p \in pos[u]+1..pos[u]+Capacity
               PROVE  /\ p < enqueuePos =>
                           \/ numberOf(p) = p + 1 /\ itemAt(p) = p
                           \/ numberOf(p) = p /\ itemAt(p) \in {Unbuilt, p}
                      /\ p >= enqueuePos =>
                           \/ numberOf(p) = p /\ itemAt(p) = Unbuilt
                           \/ /\ numberOf(p) = p - Capacity + 1
                              /\ \/ itemAt(p) = Unbuilt
                                 \/ \E v \in Users : queuePc'[v] = "move" /\ pos[v] = p - Capacity
    <3>1. enqueuePos' = enqueuePos /\ pos' = pos /\ dequeuePos' + Capacity - 1 = pos[u] + Capacity
      BY <1>0
    <3> QED
      BY <3>1, <1>7 DEF LapInv
  <2>1. CASE p = pos[u] + Capacity
    <3>1. slotAt(p) = slotAt(pos[u]) /\ p >= enqueuePos
      BY <1>0, <2>1, SlotFacts DEF QueueInv, QueueType
    <3>2. numberOf(p) = p - Capacity + 1 /\ pos[u] = p - Capacity
      BY <1>0, <2>1, <3>1 DEF numberOf
    <3>3. itemAt(p) = Unbuilt \/ \E v \in Users : queuePc'[v] = "move" /\ pos[v] = p - Capacity
      BY <1>6, <3>2
    <3> QED
      BY <1>0, <2>1, <3>1, <3>2, <3>3
  <2>2. CASE p < pos[u] + Capacity
    BY <1>0, <1>5, <2>2 DEF QueueInv, LapInv
  <2> QED
    BY <1>0, <2>1, <2>2
<1>9. ClaimInv'
  <2>1. \A v \in Users : queuePc[v] \in Claiming => pos[v] # pos[u]
    BY <1>0 DEF QueueInv, QueueType, ClaimInv
  <2>2. enqueuePos <= pos[u] + Capacity
    BY <1>0 DEF QueueInv, QueueType
  <2> QED
    BY <1>0, <1>1, <1>2, <1>4, <1>5, <1>6, <1>7, <2>1, <2>2 DEF QueueInv, QueueType, ClaimInv, Claiming, Taking
<1>10. OneClaim'
  <2>1. \A v \in Users : queuePc[v] \in Taking => pos[v] # pos[u]
    BY <1>0 DEF QueueInv, QueueType, ClaimInv
  <2> QED
    BY <1>5, <1>6, <2>1 DEF QueueInv, OneClaim, Claiming, Taking
<1> QED
  BY <1>4, <1>8, <1>9, <1>10 DEF QueueInv

\* The object is built in the slot that the position owns, or its constructor throws.
LEMMA ConstructKeeps ==
  ASSUME QueueInv, NEW u \in Users, queuePc[u] = "construct",
         \/ storage' = [storage EXCEPT ![slotOf(u)] = pos[u]] /\ QueueGoto(u, "publish")
         \/ QueueGoto(u, "idle") /\ UNCHANGED storage,
         UNCHANGED <<enqueuePos, dequeuePos, sequence, pos>>
  PROVE  QueueInv'
<1> USE QueueAssumption DEF Claiming, Taking
<1>0. /\ dequeuePos <= pos[u] /\ pos[u] < enqueuePos /\ numberOf(pos[u]) = pos[u]
      /\ itemAt(pos[u]) = Unbuilt /\ pos[u] \in Nat /\ dequeuePos \in Nat /\ enqueuePos \in Nat
      /\ enqueuePos <= dequeuePos + Capacity
  BY DEF QueueInv, QueueType, ClaimInv
<1>1. /\ \A v \in Users : v # u => queuePc'[v] = queuePc[v]
      /\ queuePc'[u] = "publish" \/ queuePc'[u] = "idle"
  BY DEF QueueInv, QueueType, QueueGoto
<1>2. QueueType'
  BY <1>0, ClaimsApart DEF QueueInv, QueueType, QueueGoto
<1>3. \A p : numberOf(p)' = numberOf(p)
  BY DEF numberOf, slotAt
<1>4. /\ \A p : slotAt(p) # slotOf(u) => itemAt(p)' = itemAt(p)
      /\ itemAt(pos[u])' = IF queuePc'[u] = "publish" THEN pos[u] ELSE Unbuilt
  <2>1. slotAt(pos[u]) = slotOf(u) /\ slotOf(u) \in Slots
    BY ClaimsApart
  <2>2. CASE storage' = [storage EXCEPT ![slotOf(u)] = pos[u]] /\ QueueGoto(u, "publish")
    <3>1. queuePc'[u] = "publish"
      BY <2>2 DEF QueueGoto, QueueInv, QueueType
    <3> QED
      BY <2>1, <2>2, <3>1 DEF itemAt, slotAt, QueueInv, QueueType
  <2>3. CASE QueueGoto(u, "idle") /\ UNCHANGED storage
    <3>1. queuePc'[u] = "idle"
      BY <2>3 DEF QueueGoto, QueueInv, QueueType
    <3> QED
      BY <1>0, <2>1, <2>3, <3>1 DEF itemAt, slotAt
  <2> QED
    BY <2>2, <2>3
<1>5. LapInv'
  <2> SUFFICES ASSUME NEW p \in dequeuePos..dequeuePos+Capacity-1
               PROVE  /\ p < enqueuePos =>
                           \/ numberOf(p) = p + 1 /\ itemAt(p)' = p
                           \/ numberOf(p) = p /\ itemAt(p)' \in {Unbuilt, p}
                      /\ p >= enqueuePos =>
                           \/ numberOf(p) = p /\ itemAt(p)' = Unbuilt
                           \/ /\ numberOf(p) = p - Capacity + 1
                              /\ \/ itemAt(p)' = Unbuilt
                                 \/ \E v \in Users : queuePc'[v] = "move" /\ pos[v] = p - Capacity
    BY <1>3 DEF LapInv
  <2>1. CASE p = pos[u]
    BY <1>0, <1>4, <2>1
  <2>2. CASE p # pos[u]
    <3>1. itemAt(p)' = itemAt(p)
      BY <1>4, <2>2, ClaimsApart
    <3> QED
      BY <1>1, <3>1 DEF QueueInv, LapInv
  <2> QED
    BY <2>1, <2>2
<1>6. ClaimInv'
  <2> SUFFICES ASSUME NEW v \in Users PROVE ClaimInv!(v)'
    BY DEF ClaimInv
  <2>1. CASE v = u
    BY <1>0, <1>1, <1>3, <1>4, <2>1
  <2>2. CASE v # u /\ queuePc[v] \in Claiming \cup Taking
    <3>1. itemAt(pos[v])' = itemAt(pos[v])
      BY <1>4, <2>2, ClaimsApart
    <3> QED
      BY <1>1, <1>3, <2>2, <3>1 DEF QueueInv, ClaimInv
  <2>3. CASE v # u /\ queuePc[v] \notin Claiming \cup Taking
    BY <1>1, <2>3
  <2> QED
    BY <2>1, <2>2, <2>3
<1>7. OneClaim'
  BY <1>1 DEF QueueInv, OneClaim
<1> QED
  BY <1>2, <1>5, <1>6, <1>7 DEF QueueInv

\* The number is published behind the object.
LEMMA PublishKeeps ==
  ASSUME QueueInv, NEW u \in Users, queuePc[u] = "publish",
         sequence' = [sequence EXCEPT ![slotOf(u)] = pos[u] + 1], QueueGoto(u, "idle"),
         UNCHANGED <<enqueuePos, dequeuePos, storage, pos>>
  PROVE  QueueInv'
<1> USE QueueAssumption DEF Claiming, Taking
<1>0. /\ dequeuePos <= pos[u] /\ pos[u] < enqueuePos
      /\ itemAt(pos[u]) = pos[u] /\ pos[u] \in Nat /\ dequeuePos \in Nat /\ enqueuePos \in Nat
      /\ enqueuePos <= dequeuePos + Capacity
  BY DEF QueueInv, QueueType, ClaimInv
<1>1. (\A v \in Users : v # u => queuePc'[v] = queuePc[v]) /\ queuePc'[u] = "idle"
  BY DEF QueueInv, QueueType, QueueGoto
<1>2. QueueType'
  BY <1>0, ClaimsApart DEF QueueInv, QueueType, QueueGoto
<1>3. \A p : itemAt(p)' = itemAt(p)
  BY DEF itemAt, slotAt
<1>4. /\ \A p : slotAt(p) # slotOf(u) => numberOf(p)' = numberOf(p)
      /\ numberOf(pos[u])' = pos[u] + 1
  BY <1>0, ClaimsApart DEF numberOf, slotAt, QueueInv, QueueType
<1>5. LapInv'
  <2> SUFFICES ASSUME NEW p \in dequeuePos..dequeuePos+Capacity-1
               PROVE  /\ p < enqueuePos =>
                           \/ numberOf(p)' = p + 1 /\ itemAt(p) = p
                           \/ numberOf(p)' = p /\ itemAt(p) \in {Unbuilt, p}
                      /\ p >= enqueuePos =>
                           \/ numberOf(p)' = p /\ itemAt(p) = Unbuilt
                           \/ /\ numberOf(p)' = p - Capacity + 1
                              /\ \/ itemAt(p) = Unbuilt
                                 \/ \E v \in Users : queuePc'[v] = "move" /\ pos[v] = p - Capacity
    BY <1>3 DEF LapInv
  <2>1. CASE p = pos[u]
    BY <1>0, <1>4, <2>1
  <2>2. CASE p # pos[u]
    <3>1. numberOf(p)' = numberOf(p)
      BY <1>4, <2>2, ClaimsApart
    <3> QED
      BY <1>1, <3>1 DEF QueueInv, LapInv
  <2> QED
    BY <2>1, <2>2
<1>6. ClaimInv'
  <2> SUFFICES ASSUME NEW v \in Users, v # u PROVE ClaimInv!(v)'
    BY <1>1 DEF ClaimInv
  <2>2. CASE queuePc[v] \in Claiming \cup Taking
    <3>1. numberOf(pos[v])' = numberOf(pos[v])
      BY <1>4, <2>2, ClaimsApart
    <3> QED
      BY <1>1, <1>3, <2>2, <3>1 DEF QueueInv, ClaimInv
  <2>3. CASE queuePc[v] \notin Claiming \cup Taking
    BY <1>1, <2>3
  <2> QED
    BY <2>2, <2>3
<1>7. OneClaim'
  BY <1>1 DEF QueueInv, OneClaim
<1> QED
  BY <1>2, <1>5, <1>6, <1>7 DEF QueueInv

\* The item is moved out of its slot, whether its constructor throws or not.
LEMMA MoveKeeps ==
  ASSUME QueueInv, NEW u \in Users, queuePc[u] = "move",
         storage' = [storage EXCEPT ![slotOf(u)] = Unbuilt],
         QueueGoto(u, "release") \/ QueueGoto(u, "idle"),
         UNCHANGED <<enqueuePos, dequeuePos, sequence, pos>>
  PROVE  QueueInv'
<1> USE QueueAssumption DEF Claiming, Taking
<1>0. /\ pos[u] < dequeuePos /\ enqueuePos <= pos[u] + Capacity /\ numberOf(pos[u]) = pos[u] + 1
      /\ pos[u] \in Nat /\ dequeuePos \in Nat /\ enqueuePos \in Nat /\ dequeuePos <= enqueuePos
  BY DEF QueueInv, QueueType, ClaimInv
<1>1. /\ \A v \in Users : v # u => queuePc'[v] = queuePc[v]
      /\ queuePc'[u] = "release" \/ queuePc'[u] = "idle"
  BY DEF QueueInv, QueueType, QueueGoto
<1>2. QueueType'
  BY <1>0, ClaimsApart DEF QueueInv, QueueType, QueueGoto
<1>3. \A p : numberOf(p)' = numberOf(p)
  BY DEF numberOf, slotAt
<1>4. /\ \A p : slotAt(p) # slotOf(u) => itemAt(p)' = itemAt(p)
      /\ itemAt(pos[u])' = Unbuilt
      /\ numberOf(pos[u] + Capacity) = pos[u] + 1 /\ itemAt(pos[u] + Capacity)' = Unbuilt
  <2>1. slotAt(pos[u]) = slotOf(u) /\ slotAt(pos[u] + Capacity) = slotOf(u) /\ slotOf(u) \in Slots
    BY <1>0, ClaimsApart, SlotFacts
  <2> QED
    BY <1>0, <2>1 DEF itemAt, numberOf, slotAt, QueueInv, QueueType
<1>5. LapInv'
  <2> SUFFICES ASSUME NEW p \in dequeuePos..dequeuePos+Capacity-1
               PROVE  /\ p < enqueuePos =>
                           \/ numberOf(p) = p + 1 /\ itemAt(p)' = p
                           \/ numberOf(p) = p /\ itemAt(p)' \in {Unbuilt, p}
                      /\ p >= enqueuePos =>
                           \/ numberOf(p) = p /\ itemAt(p)' = Unbuilt
                           \/ /\ numberOf(p) = p - Capacity + 1
                              /\ \/ itemAt(p)' = Unbuilt
                                 \/ \E v \in Users : queuePc'[v] = "move" /\ pos[v] = p - Capacity
    BY <1>3 DEF LapInv
  <2>1. CASE p = pos[u] + Capacity
    BY <1>0, <1>4, <2>1
  <2>2. CASE p # pos[u] + Capacity
    <3>1. itemAt(p)' = itemAt(p)
      BY <1>4, <2>2, ClaimsApart
    <3>2. \A v \in Users : pos[v] = p - Capacity => v # u
      BY <1>0, <2>2
    <3> QED
      BY <1>1, <3>1, <3>2 DEF QueueInv, LapInv
  <2> QED
    BY <2>1, <2>2
<1>6. ClaimInv'
  <2> SUFFICES ASSUME NEW v \in Users PROVE ClaimInv!(v)'
    BY DEF ClaimInv
  <2>1. CASE v = u
    BY <1>0, <1>1, <1>3, <1>4, <2>1
  <2>2. CASE v # u /\ queuePc[v] \in Claiming \cup Taking
    <3>1. itemAt(pos[v])' = itemAt(pos[v])
      BY <1>4, <2>2, ClaimsApart
    <3> QED
      BY <1>1, <1>3, <2>2, <3>1 DEF QueueInv, ClaimInv
  <2>3. CASE v # u /\ queuePc[v] \notin Claiming \cup Taking
    BY <1>1, <2>3
  <2> QED
    BY <2>1, <2>2, <2>3
<1>7. OneClaim'
  BY <1>1 DEF QueueInv, OneClaim
<1> QED
  BY <1>2, <1>5, <1>6, <1>7 DEF QueueInv

\* The slot is released for the next lap.
LEMMA ReleaseKeeps ==
  ASSUME QueueInv, NEW u \in Users, queuePc[u] = "release",
         sequence' = [sequence EXCEPT ![slotOf(u)] = pos[u] + Capacity], QueueGoto(u, "idle"),
         UNCHANGED <<enqueuePos, dequeuePos, storage, pos>>
  PROVE  QueueInv'
<1> USE QueueAssumption DEF Claiming, Taking
<1>0. /\ pos[u] < dequeuePos /\ enqueuePos <= pos[u] + Capacity /\ itemAt(pos[u]) = Unbuilt
      /\ pos[u] \in Nat /\ dequeuePos \in Nat /\ enqueuePos \in Nat /\ dequeuePos <= enqueuePos
  BY DEF QueueInv, QueueType, ClaimInv
<1>1. (\A v \in Users : v # u => queuePc'[v] = queuePc[v]) /\ queuePc'[u] = "idle"
  BY DEF QueueInv, QueueType, QueueGoto
<1>2. QueueType'
  BY <1>0, ClaimsApart DEF QueueInv, QueueType, QueueGoto
<1>3. \A p : itemAt(p)' = itemAt(p)
  BY DEF itemAt, slotAt
<1>4. /\ \A p : slotAt(p) # slotOf(u) => numberOf(p)' = numberOf(p)
      /\ numberOf(pos[u] + Capacity)' = pos[u] + Capacity /\ itemAt(pos[u] + Capacity) = Unbuilt
  <2>1. slotAt(pos[u]) = slotOf(u) /\ slotAt(pos[u] + Capacity) = slotOf(u) /\ slotOf(u) \in Slots
    BY <1>0, ClaimsApart, SlotFacts
  <2> QED
    BY <1>0, <2>1 DEF itemAt, numberOf, slotAt, QueueInv, QueueType
<1>5. LapInv'
  <2> SUFFICES ASSUME NEW p \in dequeuePos..dequeuePos+Capacity-1
               PROVE  /\ p < enqueuePos =>
                           \/ numberOf(p)' = p + 1 /\ itemAt(p) = p
                           \/ numberOf(p)' = p /\ itemAt(p) \in {Unbuilt, p}
                      /\ p >= enqueuePos =>
                           \/ numberOf(p)' = p /\ itemAt(p) = Unbuilt
                           \/ /\ numberOf(p)' = p - Capacity + 1
                              /\ \/ itemAt(p) = Unbuilt
                                 \/ \E v \in Users : queuePc'[v] = "move" /\ pos[v] = p - Capacity
    BY <1>3 DEF LapInv
  <2>1. CASE p = pos[u] + Capacity
    BY <1>0, <1>4, <2>1
  <2>2. CASE p # pos[u] + Capacity
    <3>1. numberOf(p)' = numberOf(p)
      BY <1>4, <2>2, ClaimsApart
    <3> QED
      BY <1>1, <3>1 DEF QueueInv, LapInv
  <2> QED
    BY <2>1, <2>2
<1>6. ClaimInv'
  <2> SUFFICES ASSUME NEW v \in Users, v # u PROVE ClaimInv!(v)'
    BY <1>1 DEF ClaimInv
  <2>2. CASE queuePc[v] \in Claiming \cup Taking
    <3>1. numberOf(pos[v])' = numberOf(pos[v])
      BY <1>4, <2>2, ClaimsApart
    <3> QED
      BY <1>1, <1>3, <2>2, <3>1 DEF QueueInv, ClaimInv
  <2>3. CASE queuePc[v] \notin Claiming \cup Taking
    BY <1>1, <2>3
  <2> QED
    BY <2>2, <2>3
<1>7. OneClaim'
  BY <1>1 DEF QueueInv, OneClaim
<1> QED
  BY <1>2, <1>5, <1>6, <1>7 DEF QueueInv

\* clear() leaves no object behind, whatever threw before.
LEMMA ClearQueueKeeps ==
  ASSUME QueueInv, clearQueue
  PROVE  QueueInv'
<1> USE QueueAssumption DEF Claiming, Taking
<1>1. \A u \in Users : queuePc[u] = "idle" /\ queuePc'[u] = "idle"
  BY DEF clearQueue, QueueQuiet
<1>2. \A s \in Slots : storage'[s] = Unbuilt
  <2> SUFFICES ASSUME NEW s \in Slots, \A i \in dequeuePos..enqueuePos-1 : slotAt(i) # s
               PROVE  storage[s] = Unbuilt
    BY DEF clearQueue, slotAt
  <2>1. PICK p \in dequeuePos..dequeuePos+Capacity-1 : slotAt(p) = s
    BY SlotFacts DEF QueueInv, QueueType
  <2>2. p >= enqueuePos
    BY <2>1 DEF QueueInv, QueueType
  <2> QED
    BY <1>1, <2>1, <2>2 DEF QueueInv, LapInv, itemAt
<1>3. QueueType'
  BY <1>2 DEF QueueInv, QueueType, clearQueue, Slots
<1>4. LapInv'
  <2>1. \A p \in 0..Capacity-1 : slotAt(p) = p /\ p \in Slots
    BY SlotFacts DEF Slots
  <2>2. \A p \in 0..Capacity-1 : numberOf(p)' = p /\ itemAt(p)' = Unbuilt
    BY <1>2, <2>1 DEF numberOf, itemAt, slotAt, clearQueue
  <2>3. dequeuePos' = 0 /\ enqueuePos' = 0 /\ 0 + Capacity - 1 = Capacity - 1
    BY DEF clearQueue
  <2> QED
    BY <2>2, <2>3 DEF LapInv
<1> QED
  BY <1>1, <1>3, <1>4 DEF QueueInv, ClaimInv, OneClaim

LEMMA QueueStart == QueueInit => QueueInv
<1> SUFFICES ASSUME QueueInit PROVE QueueInv
  OBVIOUS
<1> USE QueueAssumption
<1>1. \A p \in 0..Capacity-1 : slotAt(p) = p /\ p \in Slots
  BY SlotFacts DEF Slots
<1>2. \A p \in 0..Capacity-1 : numberOf(p) = p /\ itemAt(p) = Unbuilt
  BY <1>1 DEF numberOf, itemAt, QueueInit
<1>3. dequeuePos = 0 /\ enqueuePos = 0 /\ 0 + Capacity - 1 = Capacity - 1
  BY DEF QueueInit
<1> QED
  BY <1>2, <1>3 DEF QueueInit, QueueInv, QueueType, LapInv, ClaimInv, OneClaim, Claiming, Taking, Slots

\* Every step of the queue keeps its invariant.
LEMMA QueueStep ==
  ASSUME QueueInv, [QueueNext]_queueVars
  PROVE  QueueInv'
<1> USE DEF Claiming, Taking
<1>0. \A u \in Users : pos[u] \in Nat /\ pos = [pos EXCEPT ![u] = pos[u]]
  BY DEF QueueInv, QueueType
<1>1. ASSUME NEW u \in Users, enqueue(u) PROVE QueueInv'
  <2>1. enqueuePos \in Nat
    BY DEF QueueInv, QueueType
  <2>2. CASE queuePc[u] = "idle"
    BY <1>1, <2>1, <2>2, RoamKeeps DEF enqueue
  <2>3. CASE queuePc[u] = "enqueue"
    <3>1. CASE enqueuePos' # enqueuePos
      BY <1>1, <2>3, <3>1, EnqueueClaims DEF enqueue, queueShared
    <3>2. CASE UNCHANGED queueShared
      <4>1. \E l \in {"idle", "enqueue"}, p \in Nat : QueueGoto(u, l) /\ Reload(u, p)
        BY <1>0, <1>1, <2>1, <2>3, <3>2 DEF enqueue, QueueGoto, Reload, queueShared, QueueInv, QueueType
      <4> QED
        BY <2>3, <3>2, <4>1, RoamKeeps
    <3> QED
      BY <1>1, <2>3, <3>1, <3>2 DEF enqueue, queueShared
  <2>4. CASE queuePc[u] = "construct"
    BY <1>1, <2>4, ConstructKeeps DEF enqueue
  <2>5. CASE queuePc[u] = "publish"
    BY <1>1, <2>5, PublishKeeps DEF enqueue
  <2> QED
    BY <1>1, <2>2, <2>3, <2>4, <2>5 DEF enqueue
<1>2. ASSUME NEW u \in Users, dequeue(u) PROVE QueueInv'
  <2>1. dequeuePos \in Nat
    BY DEF QueueInv, QueueType
  <2>2. CASE queuePc[u] = "idle"
    BY <1>2, <2>1, <2>2, RoamKeeps DEF dequeue
  <2>3. CASE queuePc[u] = "dequeue"
    <3>1. CASE dequeuePos' # dequeuePos
      BY <1>2, <2>3, <3>1, DequeueClaims DEF dequeue, queueShared
    <3>2. CASE UNCHANGED queueShared
      <4>1. \E l \in {"idle", "dequeue"}, p \in Nat : QueueGoto(u, l) /\ Reload(u, p)
        BY <1>0, <1>2, <2>1, <2>3, <3>2 DEF dequeue, QueueGoto, Reload, queueShared, QueueInv, QueueType
      <4> QED
        BY <2>3, <3>2, <4>1, RoamKeeps
    <3> QED
      BY <1>2, <2>3, <3>1, <3>2 DEF dequeue, queueShared
  <2>4. CASE queuePc[u] = "move"
    BY <1>2, <2>4, MoveKeeps DEF dequeue
  <2>5. CASE queuePc[u] = "release"
    BY <1>2, <2>5, ReleaseKeeps DEF dequeue
  <2> QED
    BY <1>2, <2>2, <2>3, <2>4, <2>5 DEF dequeue
<1>3. CASE UNCHANGED queueVars
  BY <1>3 DEF queueVars, queueShared, QueueInv, QueueType, LapInv, ClaimInv, OneClaim, numberOf, itemAt, slotAt
<1> QED
  BY <1>1, <1>2, <1>3, ClearQueueKeeps DEF QueueNext

\* The promise follows.
LEMMA QueueIsSound == QueueInv => SlotsSound
<1> SUFFICES ASSUME QueueInv PROVE SlotsSound
  OBVIOUS
<1>1. \A u \in Users : slotAt(pos[u]) = slotOf(u)
  BY DEF slotAt, slotOf
<1> QED
  BY <1>1 DEF SlotsSound, QueueInv, QueueType, ClaimInv, itemAt, Claiming, Taking

-----------------------------------------------------------------------------
(* The lock-free pool: the free list, who owns the rest, and the counts.    *)

Heads == [tag : Nat, index : Links]

\* A thread that compares the head with what it loaded; that has a block which is flagged as
\* allocated; that is counted in allocated_count_ for a block that is not, or no longer, its own.
Comparing == {"examine", "pop", "link", "push"}
Flagged   == {"raise_peak", "construct", "release"}
Carrying  == {"mark", "raise_peak", "construct", "release", "load", "link", "push"}
Counted   == {"raise_peak", "construct", "release", "load", "link", "push", "uncount"}

PoolType ==
  /\ freeHead \in Heads /\ next \in [Blocks -> Links] /\ isAllocated \in [Blocks -> BOOLEAN]
  /\ count \in Int /\ peak \in Int
  /\ poolPc \in [Threads -> PoolPCs] /\ seen \in [Threads -> Heads \cup Nat]
  /\ link \in [Threads -> Links] /\ mine \in [Threads -> SUBSET Blocks]

\* Who compares with an old head has an older tag: while the tag is the same, neither the head
\* nor the link behind it has changed.
HeadOf(t) ==
  /\ poolPc[t] \in Comparing =>
       /\ seen[t] \in Heads /\ seen[t].tag <= freeHead.tag
       /\ seen[t].tag = freeHead.tag => seen[t] = freeHead
  /\ poolPc[t] = "pop" =>
       /\ seen[t].index # NullIndex
       /\ seen[t] = freeHead => link[t] = next[freeHead.index]
  /\ poolPc[t] = "push" => next[link[t]] = seen[t].index
  /\ poolPc[t] = "raise_peak" => seen[t] \in Nat

HeadInv == \A t \in Threads : HeadOf(t)

\* What a thread was given, or carries as if it were given, is flagged.
FlagOf(t) ==
  /\ poolPc[t] \in Carrying => link[t] \in Blocks /\ link[t] \notin mine[t]
  /\ poolPc[t] \in Flagged => isAllocated[link[t]]
  /\ \A b \in mine[t] : isAllocated[b]

FlagInv == \A t \in Threads : FlagOf(t)

Held == UNION {mine[t] : t \in Threads}
Debt == {t \in Threads : poolPc[t] \in Counted}

CountInv == count = Cardinality(Held) + Cardinality(Debt)
PeakInv  == count <= peak \/ \E t \in Threads : poolPc[t] = "raise_peak" /\ count <= seen[t]

\* No two threads own a block.
OwnInv == \A t, u \in Threads : t # u => Owned(t) \cap Owned(u) = {}

\* The free list from its end: s[1] is the last block, s[n] the first; every other block is
\* somebody's.
FreeList(s, n) ==
  /\ freeHead.index = IF n = 0 THEN NullIndex ELSE s[n]
  /\ \A i \in 1..n : next[s[i]] = IF i = 1 THEN NullIndex ELSE s[i - 1]
  /\ \A i, j \in 1..n : i # j => s[i] # s[j]
  /\ \A b \in Blocks : (\E i \in 1..n : s[i] = b) <=> (\A t \in Threads : b \notin Owned(t))

ListInv == \E s \in [Nat -> Blocks], n \in Nat : FreeList(s, n)

PoolInv == PoolType /\ HeadInv /\ FlagInv /\ CountInv /\ PeakInv /\ OwnInv /\ ListInv

-----------------------------------------------------------------------------

LEMMA Walk ==
  ASSUME PoolType, NEW s \in [Nat -> Blocks], NEW n \in Nat, FreeList(s, n)
  PROVE  walk = [k \in 0..Size |-> IF k = 0 THEN freeHead.index
                                   ELSE IF walk[k - 1] = NullIndex THEN NullIndex ELSE next[walk[k - 1]]]
<1> DEFINE w == [k \in 0..Size |-> IF k < n THEN s[n - k] ELSE NullIndex]
<1>0. Size \in Nat /\ Size > 0 /\ NullIndex \notin Blocks
  BY PoolAssumption
<1>1. w = [k \in 0..Size |-> IF k = 0 THEN freeHead.index
                             ELSE IF w[k - 1] = NullIndex THEN NullIndex ELSE next[w[k - 1]]]
  <2> SUFFICES ASSUME NEW k \in 0..Size
               PROVE w[k] = IF k = 0 THEN freeHead.index
                             ELSE IF w[k - 1] = NullIndex THEN NullIndex ELSE next[w[k - 1]]
    OBVIOUS
  <2>1. CASE k = 0
    BY <2>1, <1>0 DEF FreeList
  <2>2. CASE k > 0 /\ k < n
    <3>1. w[k - 1] = s[n - (k - 1)] /\ n - (k - 1) \in 1..n /\ n - (k - 1) # 1 /\ w[k] = s[n - k]
      BY <2>2, <1>0
    <3>2. s[n - (k-1)] # NullIndex
      BY <3>1, <1>0
    <3>3. next[s[n - (k - 1)]] = s[n - (k - 1) - 1]
      BY <3>1 DEF FreeList
    <3>4. n - (k - 1) - 1 = n - k
      OBVIOUS
    <3> QED BY <3>1, <3>2, <3>3, <3>4, <2>2
  <2>3. CASE k > 0 /\ k = n
    <3>1. w[k - 1] = s[1] /\ w[k] = NullIndex
      BY <2>3, <1>0
    <3>2. s[1] # NullIndex /\ next[s[1]] = NullIndex
      BY <2>3, <1>0 DEF FreeList
    <3> QED BY <3>1, <3>2, <2>3
  <2>4. CASE k > 0 /\ k > n
    <3>1. w[k - 1] = NullIndex /\ w[k] = NullIndex
      BY <2>4, <1>0
    <3> QED BY <3>1, <2>4
  <2> QED BY <2>1, <2>2, <2>3, <2>4
<1> HIDE DEF w
<1>2. \E v : v = [k \in 0..Size |-> IF k = 0 THEN freeHead.index
                             ELSE IF v[k - 1] = NullIndex THEN NullIndex ELSE next[v[k - 1]]]
  BY <1>1
<1> QED
  BY <1>2, Zenon DEF walk
\* Every set of numbers that is not empty has a least one.
LEMMA Least ==
  ASSUME NEW T \in SUBSET Nat, T # {}
  PROVE  \E x \in T : \A y \in T : x <= y
<1> DEFINE R == OpToRel(<, Nat)
<1>1. IsWellFoundedOn(R, Nat)
  BY NatLessThanWellFounded
<1>2. \A x, y \in Nat : y < x => <<y, x>> \in R
  BY DEF OpToRel
<1> HIDE DEF R
<1>3. \E x \in T : \A y \in T : ~(<<y, x>> \in R)
  BY <1>1, WFMin
<1>4. PICK x \in T : \A y \in T : ~(<<y, x>> \in R)
  BY <1>3
<1>5. \A y \in T : ~(y < x)
  BY <1>2, <1>4
<1>6. \A y \in T : x <= y
  BY <1>5
<1> QED
  BY <1>6

\* The k-th step of the walk is at the k-th block of the list, until it ends.
LEMMA WalkFollowsList ==
  ASSUME PoolType, NEW s \in [Nat -> Blocks], NEW n \in Nat, FreeList(s, n)
  PROVE  \A k \in 0..Size : walk[k] = IF k < n THEN s[n - k] ELSE NullIndex
<1> DEFINE w(k) == IF k < n THEN s[n - k] ELSE NullIndex
           T == {k \in 0..Size : walk[k] # w(k)}
<1>0. Size \in Nat /\ Size > 0 /\ NullIndex \notin Blocks
  BY PoolAssumption
<1>1. walk[0] = freeHead.index
  BY <1>0, Walk
<1>2. \A k \in 1..Size : walk[k] = IF walk[k - 1] = NullIndex THEN NullIndex ELSE next[walk[k - 1]]
  BY <1>0, Walk
<1>3. w(0) = freeHead.index
  BY DEF FreeList
<1>4. ASSUME NEW k \in 1..Size, walk[k - 1] = w(k - 1)
      PROVE  walk[k] = w(k)
  <2>1. CASE k < n
    <3>1. w(k - 1) = s[n - (k - 1)] /\ n - (k - 1) \in 1..n /\ n - (k - 1) # 1
      BY <2>1, <1>0
    <3>2. w(k - 1) # NullIndex
      BY <3>1, <1>0
    <3>3. next[s[n - (k - 1)]] = s[n - (k - 1) - 1]
      BY <3>1 DEF FreeList
    <3>4. n - (k - 1) - 1 = n - k
      OBVIOUS
    <3> QED
      BY <1>2, <1>4, <2>1, <3>1, <3>2, <3>3, <3>4
  <2>2. CASE k = n
    <3>1. w(k - 1) = s[1] /\ w(k) = NullIndex /\ 1 \in 1..n
      BY <2>2, <1>0
    <3>2. s[1] # NullIndex /\ next[s[1]] = NullIndex
      BY <3>1, <1>0 DEF FreeList
    <3> QED
      BY <1>2, <1>4, <3>1, <3>2
  <2>3. CASE k > n
    <3>1. w(k - 1) = NullIndex /\ w(k) = NullIndex
      BY <2>3, <1>0
    <3> QED
      BY <1>2, <1>4, <3>1
  <2> QED
    BY <2>1, <2>2, <2>3
<1>5. T = {}
  <2> SUFFICES ASSUME T # {} PROVE FALSE
    OBVIOUS
  <2>1. T \in SUBSET Nat
    BY <1>0
  <2>2. PICK k \in T : \A j \in T : k <= j
    BY <2>1, Least
  <2>3. k \in 1..Size /\ walk[k] # w(k)
    BY <1>0, <1>1, <1>3
  <2>4. k - 1 \notin T /\ k - 1 \in 0..Size
    BY <2>2, <2>3, <1>0
  <2> QED
    BY <1>4, <2>3, <2>4
<1> QED
  BY <1>5

\* A free list is no longer than the pool, and validate() meets each of its blocks.
LEMMA WalkMeetsList ==
  ASSUME PoolType, NEW s \in [Nat -> Blocks], NEW n \in Nat, FreeList(s, n)
  PROVE  /\ walk[Size] = NullIndex
         /\ \A b : b \in FreeBlocks <=> \E i \in 1..n : s[i] = b
<1>0. Size \in Nat /\ Size > 0 /\ NullIndex \notin Blocks
  BY PoolAssumption
<1>1. n <= Size
  <2> DEFINE f == [i \in 1..n |-> s[i]]
  <2>1. f \in Injection(1..n, Blocks)
    BY DEF Injection, IsInjective, FreeList
  <2>2. IsFiniteSet(Blocks) /\ Cardinality(Blocks) = Size
    BY <1>0, FS_Interval DEF Blocks
  <2>3. Cardinality(1..n) = n
    BY FS_Interval
  <2>4. Cardinality(1..n) <= Cardinality(Blocks)
    BY <2>1, <2>2, FS_Injection
  <2> QED
    BY <2>2, <2>3, <2>4
<1>2. \A k \in 0..Size : walk[k] = IF k < n THEN s[n - k] ELSE NullIndex
  BY WalkFollowsList
<1>3. ASSUME NEW b, b \in FreeBlocks PROVE \E i \in 1..n : s[i] = b
  <2>1. PICK k \in 0..Size : b = walk[k] /\ b # NullIndex
    BY <1>3 DEF FreeBlocks
  <2>2. k < n /\ b = s[n - k] /\ n - k \in 1..n
    BY <1>0, <1>2, <2>1
  <2> QED
    BY <2>2
<1>4. ASSUME NEW i \in 1..n PROVE s[i] \in FreeBlocks
  <2>1. n - i \in 0..Size /\ n - i < n /\ n - (n - i) = i
    BY <1>0, <1>1
  <2>2. walk[n - i] = s[i] /\ s[i] # NullIndex
    BY <1>0, <1>2, <2>1
  <2> QED
    BY <2>1, <2>2 DEF FreeBlocks
<1> QED
  BY <1>0, <1>1, <1>2, <1>3, <1>4

-----------------------------------------------------------------------------

\* The finite sets that are counted.
LEMMA PoolFinite ==
  ASSUME PoolType
  PROVE  /\ IsFiniteSet(Blocks) /\ Cardinality(Blocks) = Size
         /\ Held \in SUBSET Blocks /\ IsFiniteSet(Held) /\ Cardinality(Held) \in Nat
         /\ Debt \in SUBSET Threads /\ IsFiniteSet(Debt) /\ Cardinality(Debt) \in Nat
<1>1. IsFiniteSet(Blocks) /\ Cardinality(Blocks) = Size
  BY PoolAssumption, FS_Interval DEF Blocks
<1>2. Held \in SUBSET Blocks
  BY DEF PoolType, Held
<1>3. Debt \in SUBSET Threads
  BY DEF Debt
<1>4. IsFiniteSet(Held) /\ IsFiniteSet(Debt)
  BY <1>1, <1>2, <1>3, PoolAssumption, FS_Subset
<1> QED
  BY <1>1, <1>2, <1>3, <1>4, FS_CardinalityType

\* What a step changes for the others when it moves one thread only.
LEMMA Moved ==
  ASSUME PoolType, NEW t \in Threads, NEW l \in PoolPCs, PoolGoto(t, l)
  PROVE  /\ poolPc'[t] = l /\ poolPc' \in [Threads -> PoolPCs]
         /\ \A u \in Threads : u # t => poolPc'[u] = poolPc[u]
BY DEF PoolType, PoolGoto

\* A thread that pays no debt off and takes none on.
LEMMA SameDebt ==
  ASSUME PoolType, NEW t \in Threads, NEW l \in PoolPCs, PoolGoto(t, l),
         poolPc[t] \in Counted <=> l \in Counted
  PROVE  Debt' = Debt
BY Moved DEF Debt

\* A thread takes a debt on, or pays it off.
LEMMA MoreDebt ==
  ASSUME PoolType, NEW t \in Threads, NEW l \in Counted, PoolGoto(t, l), poolPc[t] \notin Counted
  PROVE  Cardinality(Debt') = Cardinality(Debt) + 1
<1>1. Debt' = Debt \cup {t} /\ t \notin Debt
  BY Moved DEF Debt, Counted, PoolPCs
<1> QED
  BY <1>1, PoolFinite, FS_AddElement

LEMMA LessDebt ==
  ASSUME PoolType, NEW t \in Threads, NEW l \in PoolPCs, PoolGoto(t, l),
         poolPc[t] \in Counted, l \notin Counted
  PROVE  Cardinality(Debt') = Cardinality(Debt) - 1
<1>1. Debt' = Debt \ {t} /\ t \in Debt
  BY Moved DEF Debt
<1> QED
  BY <1>1, PoolFinite, FS_RemoveElement

\* As long as nobody gains or loses a block and the list is not touched, the list stays.
LEMMA SameList ==
  ASSUME PoolInv, freeHead' = freeHead,
         \A b \in Blocks : (\A t \in Threads : b \notin Owned(t)) => next'[b] = next[b],
         \A t \in Threads : Owned(t)' = Owned(t)
  PROVE  OwnInv' /\ ListInv'
<1>1. OwnInv'
  BY DEF PoolInv, OwnInv
<1>2. PICK s \in [Nat -> Blocks], n \in Nat : FreeList(s, n)
  BY DEF PoolInv, ListInv
<1>3. \A i \in 1..n : next'[s[i]] = next[s[i]]
  BY <1>2 DEF FreeList
<1>4. FreeList(s, n)'
  BY <1>2, <1>3 DEF FreeList
<1> QED
  BY <1>1, <1>4 DEF ListInv

\* What a thread owns depends on where it is, what it carries and what it holds.
LEMMA SameOwned ==
  ASSUME PoolType, NEW t \in Threads, NEW l \in PoolPCs, PoolGoto(t, l),
         \A u \in Threads : u # t => link'[u] = link[u] /\ mine'[u] = mine[u],
         mine'[t] \cup (IF l \in Carrying THEN {link'[t]} ELSE {}) = Owned(t)
  PROVE  \A u \in Threads : Owned(u)' = Owned(u)
BY Moved DEF Owned, InFlight, Carrying

-----------------------------------------------------------------------------

\* A step of one thread that writes nothing the others read.
LEMMA LocalMove ==
  ASSUME PoolInv, NEW t \in Threads, NEW l \in PoolPCs, PoolGoto(t, l), UNCHANGED poolShared,
         poolPc[t] # "raise_peak",
         seen' \in [Threads -> Heads \cup Nat], link' \in [Threads -> Links],
         mine' \in [Threads -> SUBSET Blocks],
         \A u \in Threads : u # t => seen'[u] = seen[u] /\ link'[u] = link[u] /\ mine'[u] = mine[u],
         mine'[t] \cup (IF l \in Carrying THEN {link'[t]} ELSE {}) = Owned(t),
         HeadOf(t)', FlagOf(t)',
         Cardinality(Held') + Cardinality(Debt') = Cardinality(Held) + Cardinality(Debt)
  PROVE  PoolInv'
<1> USE DEF PoolInv
<1>1. PoolType'
  BY Moved DEF PoolType, poolShared
<1>2. HeadInv'
  <2> SUFFICES ASSUME NEW u \in Threads, u # t PROVE HeadOf(u)'
    BY DEF HeadInv
  <2> QED
    BY Moved DEF HeadInv, HeadOf, poolShared
<1>3. FlagInv'
  <2> SUFFICES ASSUME NEW u \in Threads, u # t PROVE FlagOf(u)'
    BY DEF FlagInv
  <2> QED
    BY Moved DEF FlagInv, FlagOf, poolShared
<1>4. CountInv'
  BY DEF CountInv, poolShared
<1>5. PeakInv'
  <2>1. CASE count <= peak
    BY <2>1 DEF PeakInv, poolShared
  <2>2. CASE \E u \in Threads : poolPc[u] = "raise_peak" /\ count <= seen[u]
    BY <2>2, Moved DEF PeakInv, poolShared
  <2> QED
    BY <2>1, <2>2 DEF PeakInv
<1>6. OwnInv' /\ ListInv'
  <2>1. \A u \in Threads : Owned(u)' = Owned(u)
    BY SameOwned
  <2> QED
    BY <2>1, SameList DEF poolShared
<1> QED
  BY <1>1, <1>2, <1>3, <1>4, <1>5, <1>6

\* The debts and the blocks held add up to what they did, when neither changes.
LEMMA SameCount ==
  ASSUME PoolType, NEW t \in Threads, NEW l \in PoolPCs, PoolGoto(t, l), mine' = mine,
         poolPc[t] \in Counted <=> l \in Counted
  PROVE  Cardinality(Held') + Cardinality(Debt') = Cardinality(Held) + Cardinality(Debt)
BY SameDebt DEF Held

\* Every load that a compare-and-swap checks later; a thread that goes for one carries on.
LEMMA LoadKeeps ==
  ASSUME PoolInv, NEW t \in Threads, NEW l \in {"examine", "link"}, Load(t), PoolGoto(t, l),
         UNCHANGED <<poolShared, link, mine>>,
         l = "examine" => poolPc[t] \in {"idle", "pop"},
         l = "link" => poolPc[t] \in {"load", "push"}
  PROVE  PoolInv'
<1>0. PoolType /\ l \in PoolPCs /\ poolPc[t] # "raise_peak"
  BY DEF PoolInv, PoolPCs
<1>1. Cardinality(Held') + Cardinality(Debt') = Cardinality(Held) + Cardinality(Debt)
  BY <1>0, SameCount DEF Counted
<1>2. seen' \in [Threads -> Heads \cup Nat] /\ seen'[t] = freeHead /\ \A u \in Threads : u # t => seen'[u] = seen[u]
  BY <1>0 DEF PoolType, Load
<1>3. mine[t] \cup (IF l \in Carrying THEN {link[t]} ELSE {}) = Owned(t)
  BY DEF Owned, InFlight, Carrying
<1>4. HeadOf(t)'
  BY <1>0, <1>2, Moved DEF HeadOf, PoolType, poolShared, Heads
<1>5. FlagOf(t)'
  BY <1>0, Moved DEF FlagOf, FlagInv, PoolInv, poolShared, Carrying, Flagged
<1> QED
  BY <1>0, <1>1, <1>2, <1>3, <1>4, <1>5, LocalMove DEF PoolType

\* The free list is empty: a thread that found it so leaves.
LEMMA EmptyKeeps ==
  ASSUME PoolInv, NEW t \in Threads, poolPc[t] = "examine", PoolGoto(t, "idle"),
         UNCHANGED <<poolShared, seen, link, mine>>
  PROVE  PoolInv'
<1>0. PoolType /\ "idle" \in PoolPCs
  BY DEF PoolInv, PoolPCs
<1>1. Cardinality(Held') + Cardinality(Debt') = Cardinality(Held) + Cardinality(Debt)
  BY <1>0, SameCount DEF Counted
<1>2. mine[t] \cup (IF "idle" \in Carrying THEN {link[t]} ELSE {}) = Owned(t)
  BY DEF Owned, InFlight, Carrying
<1>3. HeadOf(t)' /\ FlagOf(t)'
  BY <1>0, Moved DEF HeadOf, FlagOf, FlagInv, PoolInv, poolShared, Carrying, Flagged, Comparing
<1> QED
  BY <1>0, <1>1, <1>2, <1>3, LocalMove DEF PoolType

\* A thread that saw a block at the head loads the link behind it.
LEMMA ExamineKeeps ==
  ASSUME PoolInv, NEW t \in Threads, poolPc[t] = "examine", seen[t].index # NullIndex,
         Keep(t, next[seen[t].index]), PoolGoto(t, "pop"), UNCHANGED <<poolShared, seen, mine>>
  PROVE  PoolInv'
<1>0. PoolType /\ "pop" \in PoolPCs
  BY DEF PoolInv, PoolPCs
<1>1. Cardinality(Held') + Cardinality(Debt') = Cardinality(Held) + Cardinality(Debt)
  BY <1>0, SameCount DEF Counted
<1>2. HeadOf(t)
  BY DEF PoolInv, HeadInv
<1>3. seen[t] \in Heads /\ seen[t].index \in Blocks /\ next[seen[t].index] \in Links
  BY <1>0, <1>2 DEF HeadOf, Comparing, Heads, Links, PoolType
<1>4. link'[t] = next[seen[t].index] /\ link' \in [Threads -> Links] /\ \A u \in Threads : u # t => link'[u] = link[u]
  BY <1>0, <1>3 DEF Keep, PoolType
<1>5. mine[t] \cup (IF "pop" \in Carrying THEN {link'[t]} ELSE {}) = Owned(t)
  BY DEF Owned, InFlight, Carrying
<1>6. HeadOf(t)'
  BY <1>0, <1>2, <1>3, <1>4, Moved DEF HeadOf, poolShared, Comparing
<1>7. FlagOf(t)'
  BY <1>0, Moved DEF FlagOf, FlagInv, PoolInv, poolShared, Carrying, Flagged
<1> QED
  BY <1>0, <1>1, <1>4, <1>5, <1>6, <1>7, LocalMove DEF PoolType

\* The head is still the one that was loaded: its block is the thread's, and what was loaded
\* behind it is the head.
LEMMA PopKeeps ==
  ASSUME PoolInv, NEW t \in Threads, poolPc[t] = "pop", replaceHead(t, link[t]),
         Keep(t, seen[t].index), PoolGoto(t, "mark"),
         UNCHANGED <<next, isAllocated, count, peak, seen, mine>>
  PROVE  PoolInv'
<1>0. PoolType /\ "mark" \in PoolPCs /\ HeadOf(t)
  BY DEF PoolInv, PoolPCs, HeadInv
<1>1. /\ freeHead = seen[t] /\ seen[t].index # NullIndex /\ freeHead.index \in Blocks
      /\ link[t] = next[freeHead.index]
  BY <1>0 DEF PoolType, replaceHead, HeadOf, Heads, Links
<1>2. PICK s \in [Nat -> Blocks], n \in Nat : FreeList(s, n)
  BY DEF PoolInv, ListInv
<1>3. n # 0 /\ n \in 1..n /\ s[n] = freeHead.index /\ link[t] = IF n = 1 THEN NullIndex ELSE s[n - 1]
  BY <1>1, <1>2 DEF FreeList
<1>4. \A u \in Threads : s[n] \notin Owned(u)
  BY <1>2, <1>3 DEF FreeList
<1>5. freeHead' \in Heads /\ freeHead'.tag = freeHead.tag + 1 /\ freeHead'.index = link[t]
  BY <1>0 DEF PoolType, replaceHead, Heads
<1>6. link' \in [Threads -> Links] /\ link'[t] = s[n] /\ \A u \in Threads : u # t => link'[u] = link[u]
  BY <1>0, <1>1, <1>3 DEF Keep, PoolType, Links
<1>7. PoolType'
  BY <1>0, <1>5, <1>6, Moved DEF PoolType
<1>8. HeadInv'
  <2> SUFFICES ASSUME NEW u \in Threads PROVE HeadOf(u)'
    BY DEF HeadInv
  <2>1. CASE u = t
    BY <2>1, <1>0, Moved DEF HeadOf, Comparing
  <2>2. CASE u # t
    <3>1. HeadOf(u) /\ poolPc'[u] = poolPc[u] /\ link'[u] = link[u]
      BY <2>2, <1>0, <1>6, Moved DEF PoolInv, HeadInv
    <3>2. poolPc[u] \in Comparing => seen[u] \in Heads /\ seen[u].tag < freeHead'.tag
      BY <3>1, <1>5, <1>0 DEF HeadOf, Heads, PoolType
    <3>3. poolPc[u] \in Comparing => seen[u].tag <= freeHead'.tag /\ seen[u].tag # freeHead'.tag /\ seen[u] # freeHead'
      BY <3>2, <1>5 DEF Heads
    <3>4. poolPc[u] = "pop" => poolPc[u] \in Comparing
      BY DEF Comparing
    <3> QED
      BY <3>1, <3>2, <3>3, <3>4 DEF HeadOf
  <2> QED
    BY <2>1, <2>2
<1>9. \A u \in Threads : Owned(u)' = IF u = t THEN Owned(t) \cup {s[n]} ELSE Owned(u)
  BY <1>0, <1>6, Moved DEF Owned, InFlight
<1>10. mine[t] \subseteq Owned(t)
  BY DEF Owned
<1>11. FlagInv'
  <2> SUFFICES ASSUME NEW u \in Threads PROVE FlagOf(u)'
    BY DEF FlagInv
  <2>1. FlagOf(u)
    BY DEF PoolInv, FlagInv
  <2>2. CASE u = t
    BY <2>1, <2>2, <1>0, <1>1, <1>3, <1>4, <1>6, <1>10, Moved DEF FlagOf, Flagged, Carrying
  <2>3. CASE u # t
    BY <2>1, <2>3, <1>0, <1>6, Moved DEF FlagOf
  <2> QED
    BY <2>2, <2>3
<1>12. CountInv'
  BY <1>0, SameCount DEF PoolInv, CountInv, Counted
<1>13. PeakInv'
  BY <1>0, Moved DEF PoolInv, PeakInv
<1>14. OwnInv'
  BY <1>9, <1>4 DEF PoolInv, OwnInv
<1>15. FreeList(s, n - 1)'
  <2>1. n - 1 \in Nat /\ 1..(n - 1) \subseteq 1..n /\ n \notin 1..(n - 1) /\ \A i \in 1..n : i \in 1..(n - 1) \/ i = n
    BY <1>3
  <2>2. freeHead'.index = IF n - 1 = 0 THEN NullIndex ELSE s[n - 1]
    BY <1>3, <1>5
  <2>3. \A b \in Blocks : (\E i \in 1..(n - 1) : s[i] = b) <=> (\E i \in 1..n : s[i] = b) /\ b # s[n]
    BY <1>2, <1>3, <2>1 DEF FreeList
  <2>4. \A b \in Blocks : (\A u \in Threads : b \notin Owned(u)') <=> (\A u \in Threads : b \notin Owned(u)) /\ b # s[n]
    BY <1>9
  <2>5. \A b \in Blocks : (\E i \in 1..(n - 1) : s[i] = b) <=> (\A u \in Threads : b \notin Owned(u)')
    BY <1>2, <2>3, <2>4 DEF FreeList
  <2>6. \A i \in 1..(n - 1) : next[s[i]] = IF i = 1 THEN NullIndex ELSE s[i - 1]
    BY <1>2, <2>1 DEF FreeList
  <2>7. \A i, j \in 1..(n - 1) : i # j => s[i] # s[j]
    BY <1>2, <2>1 DEF FreeList
  <2> QED
    BY <2>2, <2>5, <2>6, <2>7 DEF FreeList
<1>16. n - 1 \in Nat
  BY <1>3
<1> QED
  BY <1>7, <1>8, <1>11, <1>12, <1>13, <1>14, <1>15, <1>16 DEF PoolInv, ListInv

\* A step that leaves the head and the links alone, whatever it does to flags and counts.
LEMMA OtherHeads ==
  ASSUME PoolInv, NEW t \in Threads, NEW l \in PoolPCs, PoolGoto(t, l),
         UNCHANGED <<freeHead, next, link>>,
         \A u \in Threads : u # t => seen'[u] = seen[u],
         l \notin Comparing, l = "raise_peak" => seen'[t] \in Nat
  PROVE  HeadInv'
<1>0. PoolType
  BY DEF PoolInv
<1> SUFFICES ASSUME NEW u \in Threads PROVE HeadOf(u)'
  BY DEF HeadInv
<1>1. CASE u = t
  BY <1>0, <1>1, Moved DEF HeadOf, Comparing
<1>2. CASE u # t
  BY <1>0, <1>2, Moved DEF HeadOf, PoolInv, HeadInv
<1> QED
  BY <1>1, <1>2

\* The popped block is flagged and counted; this allocation will raise the peak to its count.
LEMMA MarkKeeps ==
  ASSUME PoolInv, NEW t \in Threads, poolPc[t] = "mark",
         isAllocated' = [isAllocated EXCEPT ![link[t]] = TRUE], count' = count + 1,
         seen' = [seen EXCEPT ![t] = count + 1], PoolGoto(t, "raise_peak"),
         UNCHANGED <<freeHead, next, peak, link, mine>>
  PROVE  PoolInv'
<1>0. PoolType /\ "raise_peak" \in PoolPCs /\ "raise_peak" \in Counted /\ poolPc[t] \notin Counted
  BY DEF PoolInv, PoolPCs, Counted
<1>1. count \in Nat
  BY <1>0, PoolFinite DEF PoolInv, CountInv
<1>2. seen' \in [Threads -> Heads \cup Nat] /\ seen'[t] = count + 1 /\ \A u \in Threads : u # t => seen'[u] = seen[u]
  BY <1>0, <1>1 DEF PoolType
<1>3. PoolType'
  <2>1. isAllocated' \in [Blocks -> BOOLEAN]
    BY <1>0 DEF PoolType
  <2>2. count' \in Int
    BY <1>1
  <2>3. poolPc' \in [Threads -> PoolPCs]
    BY <1>0, Moved
  <2> QED
    BY <2>1, <2>2, <2>3, <1>0, <1>2 DEF PoolType
<1>4. HeadInv'
  BY <1>0, <1>1, <1>2, OtherHeads DEF Comparing
<1>5. link[t] \in Blocks
  BY DEF PoolInv, FlagInv, FlagOf, Carrying
<1>6. FlagInv'
  BY <1>0, <1>5, Moved DEF PoolInv, FlagInv, FlagOf, PoolType, Carrying
<1>7. CountInv'
  <2>1. Cardinality(Debt') = Cardinality(Debt) + 1
    BY <1>0, MoreDebt
  <2>2. Held' = Held
    BY DEF Held
  <2> QED
    BY <2>1, <2>2, <1>0, PoolFinite DEF PoolInv, CountInv
<1>8. PeakInv'
  BY <1>0, <1>1, <1>2, Moved DEF PeakInv
<1>9. Owned(t) = mine[t] \cup {link[t]}
  BY DEF Owned, InFlight
<1>10. OwnInv' /\ ListInv'
  BY <1>0, <1>9, SameOwned, SameList DEF Carrying
<1> QED
  BY <1>3, <1>4, <1>6, <1>7, <1>8, <1>10 DEF PoolInv

\* The peak is at least the count that this allocation saw.
LEMMA RaisePeakKeeps ==
  ASSUME PoolInv, NEW t \in Threads, raisePeak(t)
  PROVE  PoolInv'
<1> USE DEF raisePeak
<1>0. PoolType /\ "construct" \in PoolPCs /\ (poolPc[t] \in Counted <=> "construct" \in Counted)
  BY DEF PoolInv, PoolPCs, Counted
<1>1. seen[t] \in Nat
  BY DEF PoolInv, HeadInv, HeadOf
<1>2. PoolType'
  BY <1>0, <1>1, Moved DEF PoolType
<1>3. HeadInv'
  BY <1>0, OtherHeads DEF Comparing
<1>4. FlagInv'
  BY <1>0, Moved DEF PoolInv, FlagInv, FlagOf, Carrying, Flagged
<1>5. CountInv'
  BY <1>0, SameCount DEF PoolInv, CountInv
<1>6. PeakInv'
  <2>1. peak' >= peak /\ peak' >= seen[t] /\ count \in Int /\ peak' \in Int
    BY <1>0, <1>1 DEF PoolType
  <2>2. CASE count <= peak \/ count <= seen[t]
    BY <2>1, <2>2, <1>0, <1>1 DEF PeakInv, PoolType
  <2>3. CASE \E u \in Threads : u # t /\ poolPc[u] = "raise_peak" /\ count <= seen[u]
    BY <2>3, <1>0, Moved DEF PeakInv
  <2> QED
    BY <2>2, <2>3 DEF PoolInv, PeakInv
<1>7. Owned(t) = mine[t] \cup {link[t]}
  BY DEF Owned, InFlight
<1>8. OwnInv' /\ ListInv'
  BY <1>0, <1>7, SameOwned, SameList DEF Carrying
<1> QED
  BY <1>2, <1>3, <1>4, <1>5, <1>6, <1>8 DEF PoolInv

\* The object is handed out, or the block goes back; a block handed out is counted for its user.
LEMMA AllocateObjectKeeps ==
  ASSUME PoolInv, NEW t \in Threads, allocateObject(t)
  PROVE  PoolInv'
<1>0. PoolType /\ poolPc[t] = "construct" /\ "idle" \in PoolPCs /\ "release" \in PoolPCs
  BY DEF PoolInv, PoolPCs, allocateObject
<1>1. FlagOf(t) /\ link[t] \in Blocks /\ link[t] \notin mine[t] /\ Owned(t) = mine[t] \cup {link[t]}
  BY <1>0 DEF PoolInv, FlagInv, FlagOf, Carrying, Owned, InFlight
<1>2. CASE mine' = [mine EXCEPT ![t] = @ \cup {link[t]}] /\ PoolGoto(t, "idle")
  <2>1. mine' \in [Threads -> SUBSET Blocks] /\ mine'[t] = mine[t] \cup {link[t]}
        /\ \A u \in Threads : u # t => mine'[u] = mine[u]
    BY <1>0, <1>1, <1>2 DEF PoolType
  <2>2. link[t] \notin Held
    BY <1>1 DEF PoolInv, OwnInv, Held, Owned
  <2>3. Held' = Held \cup {link[t]}
    BY <2>1 DEF Held
  <2>4. Cardinality(Held') = Cardinality(Held) + 1
    BY <2>2, <2>3, <1>0, PoolFinite, FS_AddElement
  <2>5. Cardinality(Debt') = Cardinality(Debt) - 1
    BY <1>0, <1>2, LessDebt DEF Counted
  <2>6. Cardinality(Held') + Cardinality(Debt') = Cardinality(Held) + Cardinality(Debt)
    BY <2>4, <2>5, <1>0, PoolFinite
  <2>7. HeadOf(t)' /\ FlagOf(t)'
    BY <1>0, <1>1, <1>2, <2>1, Moved DEF HeadOf, FlagOf, Flagged, Carrying, Comparing, allocateObject, poolShared
  <2>8. mine'[t] \cup (IF "idle" \in Carrying THEN {link'[t]} ELSE {}) = Owned(t)
    BY <2>1, <1>1 DEF Carrying
  <2> QED
    BY <1>0, <1>2, <2>1, <2>6, <2>7, <2>8, LocalMove DEF PoolType, allocateObject
<1>3. CASE PoolGoto(t, "release") /\ UNCHANGED mine
  <2>1. Cardinality(Held') + Cardinality(Debt') = Cardinality(Held) + Cardinality(Debt)
    BY <1>0, <1>3, SameCount DEF Counted
  <2>2. HeadOf(t)' /\ FlagOf(t)'
    BY <1>0, <1>1, <1>3, Moved DEF HeadOf, FlagOf, Flagged, Carrying, Comparing, allocateObject, poolShared
  <2>3. mine'[t] \cup (IF "release" \in Carrying THEN {link'[t]} ELSE {}) = Owned(t)
    BY <1>1, <1>3 DEF Carrying, allocateObject
  <2> QED
    BY <1>0, <1>3, <2>1, <2>2, <2>3, LocalMove DEF PoolType, allocateObject
<1> QED
  BY <1>2, <1>3 DEF allocateObject

\* A user gives back a block that it has.
LEMMA GiveBackKeeps ==
  ASSUME PoolInv, NEW t \in Threads, poolPc[t] = "idle", NEW b \in mine[t], Keep(t, b),
         mine' = [mine EXCEPT ![t] = @ \ {b}], PoolGoto(t, "release"),
         UNCHANGED <<poolShared, seen>>
  PROVE  PoolInv'
<1>0. PoolType /\ "release" \in PoolPCs /\ "release" \in Counted /\ poolPc[t] \notin Counted
  BY DEF PoolInv, PoolPCs, Counted
<1>1. b \in Blocks /\ isAllocated[b] /\ Owned(t) = mine[t] /\ FlagOf(t)
  BY <1>0 DEF PoolType, PoolInv, FlagInv, FlagOf, Owned, InFlight
<1>2. mine' \in [Threads -> SUBSET Blocks] /\ mine'[t] = mine[t] \ {b}
      /\ \A u \in Threads : u # t => mine'[u] = mine[u]
  BY <1>0, <1>1 DEF PoolType
<1>3. link' \in [Threads -> Links] /\ link'[t] = b /\ \A u \in Threads : u # t => link'[u] = link[u]
  BY <1>0, <1>1 DEF PoolType, Keep, Links
<1>4. Held' = Held \ {b} /\ b \in Held
  <2>1. \A u \in Threads : u # t => b \notin mine[u]
    BY DEF PoolInv, OwnInv, Owned
  <2>2. \A u \in Threads : mine'[u] = mine[u] \ {b}
    BY <2>1, <1>2
  <2> QED
    BY <2>2 DEF Held
<1>5. Cardinality(Held') = Cardinality(Held) - 1
  BY <1>0, <1>4, PoolFinite, FS_RemoveElement
<1>6. Cardinality(Debt') = Cardinality(Debt) + 1
  BY <1>0, MoreDebt
<1>7. Cardinality(Held') + Cardinality(Debt') = Cardinality(Held) + Cardinality(Debt)
  BY <1>5, <1>6, <1>0, PoolFinite
<1>8. HeadOf(t)' /\ FlagOf(t)'
  BY <1>0, <1>1, <1>2, <1>3, Moved DEF HeadOf, FlagOf, Comparing, poolShared
<1>9. mine'[t] \cup (IF "release" \in Carrying THEN {link'[t]} ELSE {}) = Owned(t)
  BY <1>1, <1>2, <1>3 DEF Carrying
<1> QED
  BY <1>0, <1>2, <1>3, <1>7, <1>8, <1>9, LocalMove DEF PoolType

\* The flag of the block is taken down: nobody else has this block, so the flag is set.
LEMMA ReleaseBlockKeeps ==
  ASSUME PoolInv, NEW t \in Threads, poolPc[t] = "release",
         isAllocated' = [isAllocated EXCEPT ![link[t]] = FALSE], PoolGoto(t, "load"),
         UNCHANGED <<freeHead, next, count, peak, seen, link, mine>>
  PROVE  PoolInv'
<1>0. PoolType /\ "load" \in PoolPCs /\ (poolPc[t] \in Counted <=> "load" \in Counted)
  BY DEF PoolInv, PoolPCs, Counted
<1>1. link[t] \in Blocks /\ link[t] \notin mine[t] /\ Owned(t) = mine[t] \cup {link[t]}
  BY DEF PoolInv, FlagInv, FlagOf, Carrying, Owned, InFlight
<1>2. isAllocated' \in [Blocks -> BOOLEAN] /\ \A b \in Blocks : b # link[t] => isAllocated'[b] = isAllocated[b]
  BY <1>0 DEF PoolType
<1>3. PoolType'
  BY <1>0, <1>2, Moved DEF PoolType
<1>4. HeadInv'
  BY <1>0, OtherHeads DEF Comparing
<1>5. FlagInv'
  <2> SUFFICES ASSUME NEW u \in Threads PROVE FlagOf(u)'
    BY DEF FlagInv
  <2>0. FlagOf(u) /\ mine[u] \subseteq Blocks
    BY <1>0 DEF PoolInv, FlagInv, PoolType
  <2>1. CASE u = t
    BY <2>0, <2>1, <1>0, <1>1, <1>2, Moved DEF FlagOf, Flagged
  <2>2. CASE u # t
    <3>1. link[t] \notin Owned(u)
      BY <2>2, <1>1 DEF PoolInv, OwnInv
    <3>2. poolPc[u] \in Flagged => poolPc[u] \in Carrying /\ link[u] \in Owned(u)
      BY DEF Flagged, Carrying, Owned, InFlight
    <3>3. mine[u] \subseteq Owned(u)
      BY DEF Owned
    <3> QED
      BY <2>0, <2>2, <3>1, <3>2, <3>3, <1>0, <1>2, Moved DEF FlagOf
  <2> QED
    BY <2>1, <2>2
<1>6. CountInv'
  BY <1>0, SameCount DEF PoolInv, CountInv
<1>7. PeakInv'
  BY <1>0, Moved DEF PoolInv, PeakInv
<1>8. OwnInv' /\ ListInv'
  BY <1>0, <1>1, SameOwned, SameList DEF Carrying
<1> QED
  BY <1>3, <1>4, <1>5, <1>6, <1>7, <1>8 DEF PoolInv

\* The thread links its own block, which no free block and no other thread leads to, to the
\* head that it loaded.
LEMMA LinkKeeps ==
  ASSUME PoolInv, NEW t \in Threads, poolPc[t] = "link",
         next' = [next EXCEPT ![link[t]] = seen[t].index], PoolGoto(t, "push"),
         UNCHANGED <<freeHead, isAllocated, count, peak, seen, link, mine>>
  PROVE  PoolInv'
<1>0. PoolType /\ "push" \in PoolPCs /\ (poolPc[t] \in Counted <=> "push" \in Counted)
  BY DEF PoolInv, PoolPCs, Counted
<1>1. link[t] \in Blocks /\ Owned(t) = mine[t] \cup {link[t]}
  BY DEF PoolInv, FlagInv, FlagOf, Carrying, Owned, InFlight
<1>2. seen[t] \in Heads /\ seen[t].index \in Links /\ HeadOf(t)
  BY DEF PoolInv, HeadInv, HeadOf, Comparing, Heads
<1>3. /\ next' \in [Blocks -> Links] /\ next'[link[t]] = seen[t].index
      /\ \A b \in Blocks : b # link[t] => next'[b] = next[b]
  BY <1>0, <1>1, <1>2 DEF PoolType
<1>4. PoolType'
  BY <1>0, <1>3, Moved DEF PoolType
<1>5. PICK s \in [Nat -> Blocks], n \in Nat : FreeList(s, n)
  BY DEF PoolInv, ListInv
<1>6. freeHead.index # NullIndex => freeHead.index \in Blocks /\ freeHead.index # link[t]
  BY <1>1, <1>5 DEF FreeList, Owned
<1>7. HeadInv'
  <2> SUFFICES ASSUME NEW u \in Threads PROVE HeadOf(u)'
    BY DEF HeadInv
  <2>1. CASE u = t
    BY <2>1, <1>0, <1>2, <1>3, Moved DEF HeadOf, Comparing
  <2>2. CASE u # t
    <3>1. HeadOf(u) /\ poolPc'[u] = poolPc[u]
      BY <2>2, <1>0, Moved DEF PoolInv, HeadInv
    <3>2. poolPc[u] = "push" => link[u] \in Blocks /\ link[u] # link[t]
      <4>1. poolPc[u] = "push" => link[u] \in Blocks /\ link[u] \in Owned(u)
        BY DEF PoolInv, FlagInv, FlagOf, Carrying, Owned, InFlight
      <4> QED
        BY <4>1, <1>1, <2>2 DEF PoolInv, OwnInv
    <3>3. poolPc[u] = "pop" /\ seen[u] = freeHead => link[u] = next'[freeHead.index]
      BY <3>1, <1>3, <1>6 DEF HeadOf
    <3> QED
      BY <3>1, <3>2, <3>3, <1>3 DEF HeadOf
  <2> QED
    BY <2>1, <2>2
<1>8. FlagInv'
  BY <1>0, Moved DEF PoolInv, FlagInv, FlagOf, Carrying, Flagged
<1>9. CountInv'
  BY <1>0, SameCount DEF PoolInv, CountInv
<1>10. PeakInv'
  BY <1>0, Moved DEF PoolInv, PeakInv
<1>11. OwnInv' /\ ListInv'
  <2>1. \A b \in Blocks : (\A u \in Threads : b \notin Owned(u)) => next'[b] = next[b]
    BY <1>1, <1>3
  <2>2. \A u \in Threads : Owned(u)' = Owned(u)
    BY <1>0, <1>1, SameOwned DEF Carrying
  <2> QED
    BY <2>1, <2>2, SameList
<1> QED
  BY <1>4, <1>7, <1>8, <1>9, <1>10, <1>11 DEF PoolInv

\* The head is still the one that the block was linked to: the block is the head now.
LEMMA PushKeeps ==
  ASSUME PoolInv, NEW t \in Threads, poolPc[t] = "push", replaceHead(t, link[t]),
         PoolGoto(t, "uncount"), UNCHANGED <<next, isAllocated, count, peak, seen, link, mine>>
  PROVE  PoolInv'
<1>0. /\ PoolType /\ HeadOf(t) /\ "uncount" \in PoolPCs
      /\ poolPc[t] \in Counted <=> "uncount" \in Counted
  BY DEF PoolInv, PoolPCs, HeadInv, Counted
<1>1. link[t] \in Blocks /\ link[t] \notin mine[t] /\ Owned(t) = mine[t] \cup {link[t]}
  BY DEF PoolInv, FlagInv, FlagOf, Carrying, Owned, InFlight
<1>2. freeHead = seen[t] /\ next[link[t]] = freeHead.index
  BY <1>0 DEF replaceHead, HeadOf
<1>3. freeHead' \in Heads /\ freeHead'.tag = freeHead.tag + 1 /\ freeHead'.index = link[t]
  BY <1>0, <1>1 DEF PoolType, replaceHead, Heads, Links
<1>4. PoolType'
  BY <1>0, <1>3, Moved DEF PoolType
<1>5. HeadInv'
  <2> SUFFICES ASSUME NEW u \in Threads PROVE HeadOf(u)'
    BY DEF HeadInv
  <2>1. CASE u = t
    BY <2>1, <1>0, Moved DEF HeadOf, Comparing
  <2>2. CASE u # t
    <3>1. HeadOf(u) /\ poolPc'[u] = poolPc[u]
      BY <2>2, <1>0, Moved DEF PoolInv, HeadInv
    <3>2. poolPc[u] \in Comparing => seen[u] \in Heads /\ seen[u].tag < freeHead'.tag
      BY <3>1, <1>3, <1>0 DEF HeadOf, Heads, PoolType
    <3>3. poolPc[u] \in Comparing => seen[u].tag <= freeHead'.tag /\ seen[u].tag # freeHead'.tag /\ seen[u] # freeHead'
      BY <3>2, <1>3 DEF Heads
    <3>4. poolPc[u] = "pop" => poolPc[u] \in Comparing
      BY DEF Comparing
    <3> QED
      BY <3>1, <3>2, <3>3, <3>4 DEF HeadOf
  <2> QED
    BY <2>1, <2>2
<1>6. FlagInv'
  BY <1>0, Moved DEF PoolInv, FlagInv, FlagOf, Carrying, Flagged
<1>7. CountInv'
  BY <1>0, SameCount DEF PoolInv, CountInv
<1>8. PeakInv'
  BY <1>0, Moved DEF PoolInv, PeakInv
<1>9. \A u \in Threads : Owned(u)' = IF u = t THEN mine[t] ELSE Owned(u)
  BY <1>0, Moved DEF Owned, InFlight
<1>10. \A u \in Threads : u # t => link[t] \notin Owned(u)
  BY <1>1 DEF PoolInv, OwnInv
<1>11. OwnInv'
  BY <1>1, <1>9 DEF PoolInv, OwnInv
<1>12. PICK s \in [Nat -> Blocks], n \in Nat : FreeList(s, n)
  BY DEF PoolInv, ListInv
<1>13. PICK r \in [Nat -> Blocks] :
         /\ n + 1 \in Nat /\ r[n + 1] = link[t]
         /\ \A i \in 1..n : r[i] = s[i] /\ i \in Nat /\ i # n + 1 /\ i \in 1..(n + 1)
         /\ \A i \in 1..(n + 1) : i \in 1..n \/ i = n + 1
         /\ n + 1 \in 1..(n + 1)
  <2> DEFINE q == [s EXCEPT ![n + 1] = link[t]]
  <2>1. /\ q \in [Nat -> Blocks] /\ n + 1 \in Nat /\ q[n + 1] = link[t]
        /\ \A i \in 1..n : q[i] = s[i] /\ i \in Nat /\ i # n + 1 /\ i \in 1..(n + 1)
        /\ \A i \in 1..(n + 1) : i \in 1..n \/ i = n + 1
        /\ n + 1 \in 1..(n + 1)
    BY <1>1
  <2> QED
    BY <2>1
<1>14. \A i \in 1..n : s[i] # link[t] /\ s[i] \in Blocks
  BY <1>1, <1>12 DEF FreeList
<1>15. FreeList(r, n + 1)'
  <2>1. freeHead'.index = IF n + 1 = 0 THEN NullIndex ELSE r[n + 1]
    BY <1>3, <1>13
  <2>2. ASSUME NEW i \in 1..(n + 1) PROVE next[r[i]] = IF i = 1 THEN NullIndex ELSE r[i - 1]
    <3>1. CASE i \in 1..n
      <4>1. i # 1 => i - 1 \in 1..n
        BY <3>1
      <4>2. next[s[i]] = IF i = 1 THEN NullIndex ELSE s[i - 1]
        BY <3>1, <1>12 DEF FreeList
      <4> QED
        BY <4>1, <4>2, <3>1, <1>13
    <3>2. CASE i = n + 1
      <4>1. i - 1 = n /\ (i # 1 => n \in 1..n /\ n # 0) /\ (i = 1 => n = 0)
        BY <3>2
      <4>2. freeHead.index = IF n = 0 THEN NullIndex ELSE s[n]
        BY <1>12 DEF FreeList
      <4> QED
        BY <4>1, <4>2, <3>2, <1>2, <1>13
    <3> QED
      BY <3>1, <3>2, <1>13
  <2>3. \A i, j \in 1..(n + 1) : i # j => r[i] # r[j]
    <3>1. \A i, j \in 1..n : i # j => s[i] # s[j]
      BY <1>12 DEF FreeList
    <3> QED
      BY <3>1, <1>13, <1>14
  <2>4. ASSUME NEW b \in Blocks
        PROVE  (\E i \in 1..(n + 1) : r[i] = b) <=> (\A u \in Threads : b \notin Owned(u)')
    <3>1. (\E i \in 1..(n + 1) : r[i] = b) <=> (\E i \in 1..n : s[i] = b) \/ b = link[t]
      BY <1>13
    <3>2. (\A u \in Threads : b \notin Owned(u)') <=> (\A u \in Threads : b \notin Owned(u)) \/ b = link[t]
      BY <1>1, <1>9, <1>10
    <3>3. (\E i \in 1..n : s[i] = b) <=> (\A u \in Threads : b \notin Owned(u))
      BY <1>12 DEF FreeList
    <3> QED
      BY <3>1, <3>2, <3>3
  <2> QED
    BY <2>1, <2>2, <2>3, <2>4 DEF FreeList
<1>16. ListInv'
  BY <1>13, <1>15 DEF ListInv
<1> QED
  BY <1>4, <1>5, <1>6, <1>7, <1>8, <1>11, <1>16 DEF PoolInv

\* The block that was pushed is no longer counted.
LEMMA UncountKeeps ==
  ASSUME PoolInv, NEW t \in Threads, poolPc[t] = "uncount", count' = count - 1,
         PoolGoto(t, "idle"), UNCHANGED <<freeHead, next, isAllocated, peak, seen, link, mine>>
  PROVE  PoolInv'
<1>0. PoolType /\ "idle" \in PoolPCs /\ "idle" \notin Counted /\ poolPc[t] \in Counted
  BY DEF PoolInv, PoolPCs, Counted
<1>1. PoolType'
  <2>1. count' \in Int /\ poolPc' \in [Threads -> PoolPCs]
    BY <1>0, Moved DEF PoolType
  <2> QED
    BY <1>0, <2>1 DEF PoolType
<1>2. HeadInv'
  BY <1>0, OtherHeads DEF Comparing
<1>3. FlagInv'
  BY <1>0, Moved DEF PoolInv, FlagInv, FlagOf, Carrying, Flagged
<1>4. CountInv'
  <2>1. Cardinality(Debt') = Cardinality(Debt) - 1
    BY <1>0, LessDebt
  <2>2. Held' = Held
    BY DEF Held
  <2> QED
    BY <2>1, <2>2, <1>0, PoolFinite DEF PoolInv, CountInv
<1>5. PeakInv'
  <2>1. count' <= count /\ count \in Int /\ count' \in Int /\ peak \in Int
    BY <1>0 DEF PoolType
  <2>2. CASE count <= peak
    BY <2>1, <2>2 DEF PeakInv
  <2>3. ASSUME NEW u \in Threads, poolPc[u] = "raise_peak", count <= seen[u] PROVE PeakInv'
    <3>1. seen[u] \in Nat /\ poolPc'[u] = "raise_peak"
      BY <2>3, <1>0, Moved DEF PoolInv, HeadInv, HeadOf
    <3> QED
      BY <2>1, <2>3, <3>1 DEF PeakInv
  <2> QED
    BY <2>2, <2>3 DEF PoolInv, PeakInv
<1>6. OwnInv' /\ ListInv'
  <2>1. mine[t] = Owned(t)
    BY DEF Owned, InFlight
  <2> QED
    BY <2>1, <1>0, SameOwned, SameList DEF Carrying
<1> QED
  BY <1>1, <1>2, <1>3, <1>4, <1>5, <1>6 DEF PoolInv

-----------------------------------------------------------------------------

\* The links as they are built: 0, 1, ... in order, every block once.
FreshLinks == [b \in Blocks |-> IF b = Size - 1 THEN NullIndex ELSE b + 1]

LEMMA FreshList ==
  \E s \in [Nat -> Blocks] :
    /\ s[Size] = 0
    /\ \A i \in 1..Size : FreshLinks[s[i]] = IF i = 1 THEN NullIndex ELSE s[i - 1]
    /\ \A i, j \in 1..Size : i # j => s[i] # s[j]
    /\ \A b \in Blocks : \E i \in 1..Size : s[i] = b
<1>0. Size \in Nat /\ Size > 0
  BY PoolAssumption
<1>1. PICK s \in [Nat -> Blocks] : \A i \in 1..Size : s[i] = Size - i
  <2> DEFINE q == [i \in Nat |-> IF i \in 1..Size THEN Size - i ELSE 0]
  <2>1. q \in [Nat -> Blocks] /\ \A i \in 1..Size : q[i] = Size - i
    BY <1>0 DEF Blocks
  <2> QED
    BY <2>1
<1>2. ASSUME NEW i \in 1..Size PROVE FreshLinks[s[i]] = IF i = 1 THEN NullIndex ELSE s[i - 1]
  <2>1. s[i] = Size - i /\ s[i] \in Blocks
    BY <1>1
  <2>2. CASE i = 1
    BY <2>1, <2>2 DEF FreshLinks
  <2>3. CASE i # 1
    <3>1. i - 1 \in 1..Size /\ s[i - 1] = Size - (i - 1) /\ Size - i + 1 = Size - (i - 1) /\ Size - i # Size - 1
      BY <1>0, <1>1, <2>3
    <3>2. FreshLinks[s[i]] = s[i] + 1
      BY <2>1, <3>1 DEF FreshLinks
    <3> QED
      BY <2>1, <2>3, <3>1, <3>2
  <2> QED
    BY <2>2, <2>3
<1>3. \A i, j \in 1..Size : i # j => s[i] # s[j]
  BY <1>0, <1>1
<1>4. ASSUME NEW b \in Blocks PROVE \E i \in 1..Size : s[i] = b
  <2>1. Size - b \in 1..Size /\ Size - (Size - b) = b
    BY <1>0 DEF Blocks
  <2> QED
    BY <1>1, <2>1
<1>5. s[Size] = 0
  BY <1>0, <1>1
<1> QED
  BY <1>2, <1>3, <1>4, <1>5

\* Nobody holds a block and nobody is inside the pool.
LEMMA NothingCounted ==
  ASSUME \A t \in Threads : poolPc[t] = "idle" /\ mine[t] = {}
  PROVE  Held = {} /\ Debt = {} /\ Cardinality(Held) + Cardinality(Debt) = 0
<1>1. Held = {} /\ Debt = {}
  BY DEF Held, Debt, Counted
<1> QED
  BY <1>1, FS_EmptySet

LEMMA PoolStart == PoolInit => PoolInv
<1> SUFFICES ASSUME PoolInit PROVE PoolInv
  OBVIOUS
<1>0. Size \in Nat /\ Size > 0
  BY PoolAssumption
<1>1. \A t \in Threads : poolPc[t] = "idle" /\ mine[t] = {} /\ link[t] = NullIndex
  BY DEF PoolInit
<1>2. \A t \in Threads : Owned(t) = {}
  BY <1>1 DEF Owned, InFlight
<1>3. PoolType
  BY <1>0 DEF PoolType, PoolInit, Heads, Links, Blocks, PoolPCs
<1>4. HeadInv
  BY <1>1 DEF HeadInv, HeadOf, Comparing
<1>5. FlagInv
  BY <1>1 DEF FlagInv, FlagOf, Carrying, Flagged
<1>6. CountInv
  BY <1>1, NothingCounted DEF CountInv, PoolInit
<1>7. PeakInv
  BY DEF PeakInv, PoolInit
<1>8. OwnInv
  BY <1>2 DEF OwnInv
<1>9. ListInv
  <2>1. freeHead.index = 0 /\ next = FreshLinks
    BY DEF PoolInit, FreshLinks
  <2> QED
    BY <2>1, <1>0, <1>2, FreshList DEF ListInv, FreeList
<1> QED
  BY <1>3, <1>4, <1>5, <1>6, <1>7, <1>8, <1>9 DEF PoolInv

LEMMA ClearPoolKeeps ==
  ASSUME PoolInv, clearPool
  PROVE  PoolInv'
<1> USE DEF clearPool
<1>0. Size \in Nat /\ Size > 0 /\ PoolType
  BY PoolAssumption DEF PoolInv
<1>1. \A t \in Threads : poolPc'[t] = "idle" /\ mine'[t] = {}
  OBVIOUS
<1>2. \A t \in Threads : Owned(t)' = {}
  BY <1>1 DEF Owned, InFlight
<1>3. PoolType'
  <2>1. freeHead' \in Heads /\ next' \in [Blocks -> Links]
    BY <1>0 DEF Heads, Links, Blocks
  <2>2. isAllocated' \in [Blocks -> BOOLEAN] /\ count' \in Int /\ mine' \in [Threads -> SUBSET Blocks]
    OBVIOUS
  <2> QED
    BY <2>1, <2>2, <1>0 DEF PoolType
<1>4. HeadInv'
  BY <1>1 DEF HeadInv, HeadOf, Comparing
<1>5. FlagInv'
  BY <1>1 DEF FlagInv, FlagOf, Carrying, Flagged
<1>6. CountInv'
  <2>1. Held' = {} /\ Debt' = {}
    BY <1>1 DEF Held, Debt, Counted
  <2> QED
    BY <2>1, FS_EmptySet DEF CountInv
<1>7. PeakInv'
  <2>1. count <= peak
    BY DEF PeakInv, PoolInv
  <2>2. count \in Nat /\ peak \in Int
    BY <1>0, PoolFinite DEF PoolInv, CountInv, PoolType
  <2> QED
    BY <2>1, <2>2 DEF PeakInv
<1>8. OwnInv'
  BY <1>2 DEF OwnInv
<1>9. ListInv'
  <2>1. freeHead'.index = 0 /\ next' = FreshLinks
    BY DEF FreshLinks
  <2> QED
    BY <2>1, <1>0, <1>2, FreshList DEF ListInv, FreeList
<1> QED
  BY <1>3, <1>4, <1>5, <1>6, <1>7, <1>8, <1>9 DEF PoolInv

LEMMA AllocateKeeps ==
  ASSUME PoolInv, NEW t \in Threads, allocate(t)
  PROVE  PoolInv'
<1>1. CASE /\ poolPc[t] = "idle" /\ Load(t) /\ PoolGoto(t, "examine")
           /\ UNCHANGED <<poolShared, link, mine>>
  BY <1>1, LoadKeeps
<1>2. CASE /\ poolPc[t] = "examine" /\ seen[t].index = NullIndex
           /\ PoolGoto(t, "idle") /\ UNCHANGED <<poolShared, seen, link, mine>>
  BY <1>2, EmptyKeeps
<1>3. CASE /\ poolPc[t] = "examine" /\ seen[t].index # NullIndex
           /\ Keep(t, next[seen[t].index]) /\ PoolGoto(t, "pop")
           /\ UNCHANGED <<poolShared, seen, mine>>
  BY <1>3, ExamineKeeps
<1>4. CASE /\ poolPc[t] = "pop" /\ replaceHead(t, link[t])
           /\ Keep(t, seen[t].index) /\ PoolGoto(t, "mark")
           /\ UNCHANGED <<next, isAllocated, count, peak, seen, mine>>
  BY <1>4, PopKeeps
<1>5. CASE /\ poolPc[t] = "pop" /\ Load(t) /\ PoolGoto(t, "examine")
           /\ UNCHANGED <<poolShared, link, mine>>
  BY <1>5, LoadKeeps
<1>6. CASE /\ poolPc[t] = "mark"
           /\ isAllocated' = [isAllocated EXCEPT ![link[t]] = TRUE] /\ count' = count + 1
           /\ seen' = [seen EXCEPT ![t] = count + 1] /\ PoolGoto(t, "raise_peak")
           /\ UNCHANGED <<freeHead, next, peak, link, mine>>
  BY <1>6, MarkKeeps
<1> QED
  BY <1>1, <1>2, <1>3, <1>4, <1>5, <1>6 DEF allocate

LEMMA DeallocateKeeps ==
  ASSUME PoolInv, NEW t \in Threads, deallocate(t)
  PROVE  PoolInv'
<1>1. CASE /\ poolPc[t] = "idle"
           /\ \E b \in mine[t] : Keep(t, b) /\ mine' = [mine EXCEPT ![t] = @ \ {b}]
           /\ PoolGoto(t, "release") /\ UNCHANGED <<poolShared, seen>>
  BY <1>1, GiveBackKeeps
<1>2. CASE poolPc[t] = "release" /\ ~isAllocated[link[t]]
  BY <1>2 DEF PoolInv, FlagInv, FlagOf, Flagged
<1>3. CASE /\ poolPc[t] = "release" /\ isAllocated' = [isAllocated EXCEPT ![link[t]] = FALSE]
           /\ PoolGoto(t, "load") /\ UNCHANGED <<freeHead, next, count, peak, seen, link, mine>>
  BY <1>3, ReleaseBlockKeeps
<1>4. CASE /\ poolPc[t] = "load" /\ Load(t) /\ PoolGoto(t, "link")
           /\ UNCHANGED <<poolShared, link, mine>>
  BY <1>4, LoadKeeps
<1>5. CASE /\ poolPc[t] = "link"
           /\ next' = [next EXCEPT ![link[t]] = seen[t].index] /\ PoolGoto(t, "push")
           /\ UNCHANGED <<freeHead, isAllocated, count, peak, seen, link, mine>>
  BY <1>5, LinkKeeps
<1>6. CASE /\ poolPc[t] = "push" /\ replaceHead(t, link[t]) /\ PoolGoto(t, "uncount")
           /\ UNCHANGED <<next, isAllocated, count, peak, seen, link, mine>>
  BY <1>6, PushKeeps
<1>7. CASE /\ poolPc[t] = "push" /\ Load(t) /\ PoolGoto(t, "link")
           /\ UNCHANGED <<poolShared, link, mine>>
  BY <1>7, LoadKeeps
<1>8. CASE /\ poolPc[t] = "uncount" /\ count' = count - 1 /\ PoolGoto(t, "idle")
           /\ UNCHANGED <<freeHead, next, isAllocated, peak, seen, link, mine>>
  BY <1>8, UncountKeeps
<1> QED
  BY <1>1, <1>2, <1>3, <1>4, <1>5, <1>6, <1>7, <1>8 DEF deallocate

LEMMA PoolSteps ==
  ASSUME PoolInv, [PoolNext]_poolVars
  PROVE  PoolInv'
<1>1. ASSUME NEW t \in Threads, PoolStep(t) PROVE PoolInv'
  BY <1>1, AllocateKeeps, RaisePeakKeeps, AllocateObjectKeeps, DeallocateKeeps DEF PoolStep
<1>2. CASE clearPool
  BY <1>2, ClearPoolKeeps
<1>3. CASE UNCHANGED poolVars
  <2>1. UNCHANGED <<freeHead, next, isAllocated, count, peak, poolPc, seen, link, mine>>
    BY <1>3 DEF poolVars, poolShared
  <2>2. PoolType' /\ HeadInv' /\ FlagInv'
    BY <2>1 DEF PoolInv, PoolType, HeadInv, HeadOf, FlagInv, FlagOf
  <2>3. CountInv' /\ PeakInv'
    BY <2>1 DEF PoolInv, CountInv, Held, Debt, PeakInv
  <2>4. \A t \in Threads : Owned(t)' = Owned(t)
    BY <2>1 DEF Owned, InFlight
  <2>5. OwnInv' /\ ListInv'
    BY <2>1, <2>4, SameList
  <2> QED
    BY <2>2, <2>3, <2>5 DEF PoolInv
<1> QED
  BY <1>1, <1>2, <1>3 DEF PoolNext

-----------------------------------------------------------------------------

\* What validate() finds: every block is free or somebody's, and the counts add up.
LEMMA PoolIsSound == PoolInv => BlocksAccounted /\ UsageAccounted
<1> SUFFICES ASSUME PoolInv PROVE BlocksAccounted /\ UsageAccounted
  OBVIOUS
<1>0. PoolType /\ Size \in Nat
  BY PoolAssumption DEF PoolInv
<1>1. PICK s \in [Nat -> Blocks], n \in Nat : FreeList(s, n)
  BY DEF PoolInv, ListInv
<1>2. walk[Size] = NullIndex /\ \A b : b \in FreeBlocks <=> \E i \in 1..n : s[i] = b
  BY <1>0, <1>1, WalkMeetsList
<1>3. FreeBlocks \subseteq Blocks /\ \A b \in Blocks : b \in FreeBlocks <=> (\A t \in Threads : b \notin Owned(t))
  BY <1>1, <1>2 DEF FreeList
<1>4. \A t \in Threads : Owned(t) \subseteq Blocks /\ InFlight(t) \cap mine[t] = {}
  BY <1>0 DEF PoolInv, FlagInv, FlagOf, Carrying, Owned, InFlight, PoolType
<1>5. BlocksAccounted
  <2>1. \A t \in Threads : Owned(t) \cap FreeBlocks = {}
    BY <1>3
  <2>2. FreeBlocks \cup UNION {Owned(t) : t \in Threads} = Blocks
    BY <1>3, <1>4
  <2>3. \A t, u \in Threads : t # u => Owned(t) \cap Owned(u) = {}
    BY DEF PoolInv, OwnInv
  <2> QED
    BY <1>2, <1>4, <2>1, <2>2, <2>3 DEF BlocksAccounted
<1>6. ASSUME Quiet PROVE validate /\ count = Cardinality(UNION {mine[t] : t \in Threads}) /\ count <= peak
  <2>1. Debt = {}
    BY <1>6 DEF Quiet, Debt, Counted
  <2>2. Cardinality(Debt) = 0
    BY <2>1, FS_EmptySet
  <2>3. count = Cardinality(Held)
    BY <2>2, <1>0, PoolFinite DEF PoolInv, CountInv
  <2>4. \A t \in Threads : Owned(t) = mine[t]
    BY <1>6 DEF Quiet, Owned, InFlight
  <2>5. FreeBlocks = Blocks \ Held
    BY <1>3, <2>4 DEF Held
  <2>6. Cardinality(FreeBlocks) = Cardinality(Blocks) - Cardinality(Blocks \cap Held)
    BY <2>5, <1>0, PoolFinite, FS_Difference
  <2>7. Blocks \cap Held = Held
    BY <1>0, PoolFinite
  <2>8. Cardinality(FreeBlocks) = Size - count
    BY <2>3, <2>6, <2>7, <1>0, PoolFinite
  <2>9. count \in Nat /\ Cardinality(Held) <= Size
    BY <2>3, <1>0, PoolFinite, FS_Subset
  <2>10. validate
    BY <2>3, <2>8, <2>9, <1>0 DEF validate
  <2>11. count <= peak
    BY <1>6 DEF PoolInv, PeakInv, Quiet
  <2> QED
    BY <2>3, <2>10, <2>11 DEF Held
<1> QED
  BY <1>5, <1>6 DEF UsageAccounted

-----------------------------------------------------------------------------

\* A step of the three containers side by side is a step of each, or leaves it alone.
LEMMA ContainersStep ==
  ASSUME [ContainersNext]_containerVars
  PROVE  [PoolNext]_poolVars /\ [QueueNext]_queueVars /\ [RingNext]_ringVars
BY DEF ContainersNext, containerVars

\* Whatever threads are in the middle of, and however often a thread is overtaken, the pool
\* hands out each block once and loses none, its counts are exact when everybody has left, and
\* a position of the queue is built, moved out and released in its turn.
THEOREM ContainersStaySound == ContainersSpec => []ContainersSound
<1>1. ContainersInit => PoolInv /\ QueueInv
  BY PoolStart, QueueStart DEF ContainersInit
<1>2. PoolInv /\ QueueInv /\ [ContainersNext]_containerVars => PoolInv' /\ QueueInv'
  BY ContainersStep, PoolSteps, QueueStep
<1>3. PoolInv /\ QueueInv => ContainersSound
  BY PoolIsSound, QueueIsSound DEF ContainersSound
<1> QED
  BY <1>1, <1>2, <1>3, PTL DEF ContainersSpec

\* Among the containers too the ring is a bounded queue whose reader has the oldest item.
THEOREM RingStaysFifo == ContainersSpec => RingIsFifo
<1>1. ContainersInit => RingInit
  BY DEF ContainersInit
<1>2. [ContainersNext]_containerVars => [RingNext]_ringVars
  BY ContainersStep
<1>3. ContainersSpec => RingSpec
  BY <1>1, <1>2, PTL DEF ContainersSpec, RingSpec
<1> QED
  BY <1>3, RingImplementsFifo, OldestIsRead, PTL DEF RingIsFifo
=============================================================================
