----------------------------- MODULE RingBuffer -----------------------------
(***************************************************************************)
(* axonvex::utils::containers::RingBuffer: two indices and an array, for   *)
(* one writer and one reader.  An index is loaded, checked against the     *)
(* other one, the slot is used, and the index is stored: one step each.    *)
(***************************************************************************)
EXTENDS Integers, Sequences

CONSTANTS RingItems,      \* what is written
          RingCapacity,   \* capacity_, a power of two; one slot always stays free
          NoItem          \* an empty optional

\* The constructor rounds the capacity up to a power of two, at least sixteen.
ASSUME RingAssumption == RingCapacity \in Nat /\ RingCapacity > 1

VARIABLES writeIndex,     \* write_index_
          readIndex,      \* read_index_
          buffer,         \* buffer_
          writerPc, readerPc,
          writing,        \* the item the writer has in hand
          reading         \* the item the reader took or looked at

writerVars == <<writeIndex, buffer, writerPc, writing>>
readerVars == <<readIndex, readerPc, reading>>
ringVars   == <<writerVars, readerVars>>

RingInit ==
  /\ writeIndex = 0 /\ readIndex = 0
  /\ buffer = [i \in 0..RingCapacity-1 |-> NoItem]
  /\ writerPc = "idle" /\ readerPc = "idle"
  /\ writing = NoItem /\ reading = NoItem

after(i) == (i + 1) % RingCapacity
isEmpty  == readIndex = writeIndex
isFull   == after(writeIndex) = readIndex
size     == (writeIndex - readIndex) % RingCapacity

\* Fault: the index is published before the slot is filled.
writeEarly ==
  \/ /\ writerPc = "idle" /\ \E x \in RingItems : writing' = x
     /\ IF isFull THEN UNCHANGED <<writeIndex, writerPc>>
        ELSE writeIndex' = after(writeIndex) /\ writerPc' = "store"
     /\ UNCHANGED <<buffer, readerVars>>
  \/ /\ writerPc = "store"
     /\ buffer' = [buffer EXCEPT ![(writeIndex + RingCapacity - 1) % RingCapacity] = writing]
     /\ writerPc' = "idle" /\ UNCHANGED <<writeIndex, writing, readerVars>>

\* write() and each turn of writeMany(): refused when the next index is the reader's.
write ==
  \/ /\ writerPc = "idle" /\ \E x \in RingItems : writing' = x
     /\ writerPc' = IF isFull THEN "idle" ELSE "store"
     /\ UNCHANGED <<writeIndex, buffer, readerVars>>
  \/ /\ writerPc = "store"
     /\ buffer' = [buffer EXCEPT ![writeIndex] = writing]
     /\ writerPc' = "publish" /\ UNCHANGED <<writeIndex, writing, readerVars>>
  \/ /\ writerPc = "publish"
     /\ writeIndex' = after(writeIndex)
     /\ writerPc' = "idle" /\ UNCHANGED <<buffer, writing, readerVars>>

\* read() and each turn of readMany(): an empty answer when the indices agree.
read ==
  \/ /\ readerPc = "idle"
     /\ IF isEmpty THEN reading' = NoItem /\ UNCHANGED readerPc
        ELSE readerPc' = "move" /\ UNCHANGED reading
     /\ UNCHANGED <<readIndex, writerVars>>
  \/ /\ readerPc = "move"
     /\ reading' = buffer[readIndex]
     /\ readerPc' = "release" /\ UNCHANGED <<readIndex, writerVars>>
  \/ /\ readerPc = "release"
     /\ readIndex' = after(readIndex)
     /\ readerPc' = "idle" /\ UNCHANGED <<reading, writerVars>>

\* peek(): the oldest item, which stays.
peek ==
  /\ readerPc = "idle" /\ ~isEmpty
  /\ reading' = buffer[readIndex]
  /\ UNCHANGED <<readIndex, readerPc, writerVars>>

\* clear(), with both threads quiet.
clearRing ==
  /\ writerPc = "idle" /\ readerPc = "idle"
  /\ readIndex' = 0 /\ writeIndex' = 0
  /\ UNCHANGED <<buffer, writerPc, writing, readerPc, reading>>

RingNext == write \/ read \/ peek \/ clearRing

RingSpec == RingInit /\ [][RingNext]_ringVars

-----------------------------------------------------------------------------

\* The items between two indices, oldest first.
items(w, r, b) == [i \in 1..((w - r) % RingCapacity) |-> b[(r + i - 1) % RingCapacity]]
contents       == items(writeIndex, readIndex, buffer)

\* The ring is the bounded queue: whatever the writer and the reader are in the middle of, a
\* step of either puts one item at the end, takes the oldest, or changes nothing visible.
Fifo == INSTANCE BoundedFifo WITH Items <- RingItems, Bound <- RingCapacity - 1, fifo <- contents

ringIsFifo == Fifo!FifoInit /\ [][Fifo!FifoNext]_contents

\* What the reader moved out is the oldest item: the slot is not reused before the index says.
ReaderHasOldest == readerPc = "release" => reading = Head(contents)
=============================================================================
