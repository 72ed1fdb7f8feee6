-------------------------- MODULE ThreadSafeQueue --------------------------
(***************************************************************************)
(* axonvex::utils::containers::ThreadSafeQueue: a bounded ring of slots,   *)
(* each with a sequence number that says whose turn it is.  One step per   *)
(* atomic access.  An item is named by the position it was enqueued at.    *)
(***************************************************************************)
EXTENDS Integers

CONSTANTS Users,       \* threads that enqueue and dequeue
          Capacity,    \* capacity_
          Unbuilt,     \* what a slot without an object holds
          MaxPos       \* bound on the positions claimed between two clear()s

Slots == 0..Capacity-1

\* The constructor rounds the capacity up to a power of two, at least sixteen.
ASSUME QueueAssumption == Capacity \in Nat /\ Capacity > 1 /\ Unbuilt \notin Nat

VARIABLES enqueuePos,  \* enqueue_pos_
          dequeuePos,  \* dequeue_pos_
          sequence,    \* Slot::sequence
          storage,     \* Slot::storage: the item that lives there
          queuePc,     \* where each thread is
          pos          \* the position it loaded, or claimed

queueShared == <<enqueuePos, dequeuePos, sequence, storage>>
queueVars   == <<queueShared, queuePc, pos>>

QueueInit ==
  /\ enqueuePos = 0 /\ dequeuePos = 0
  /\ sequence = [s \in Slots |-> s]
  /\ storage = [s \in Slots |-> Unbuilt]
  /\ queuePc = [u \in Users |-> "idle"]
  /\ pos = [u \in Users |-> 0]

slotOf(u)       == pos[u] % Capacity
QueueGoto(u, l) == queuePc' = [queuePc EXCEPT ![u] = l]
Reload(u, p)    == pos' = [pos EXCEPT ![u] = p]

\* Fault: the number is published when the slot is claimed, before the object is there.
enqueueEarly(u) ==
  \/ /\ queuePc[u] = "idle" /\ enqueuePos < MaxPos
     /\ Reload(u, enqueuePos) /\ QueueGoto(u, "enqueue") /\ UNCHANGED queueShared
  \/ /\ queuePc[u] = "enqueue" /\ sequence[slotOf(u)] = pos[u] /\ enqueuePos = pos[u]
     /\ enqueuePos' = pos[u] + 1 /\ sequence' = [sequence EXCEPT ![slotOf(u)] = pos[u] + 1]
     /\ QueueGoto(u, "construct") /\ UNCHANGED <<dequeuePos, storage, pos>>
  \/ /\ queuePc[u] = "construct"
     /\ storage' = [storage EXCEPT ![slotOf(u)] = pos[u]]
     /\ QueueGoto(u, "idle") /\ UNCHANGED <<enqueuePos, dequeuePos, sequence, pos>>

\* enqueue(): the claim, the object, the number.  A constructor that throws leaves the slot
\* claimed and without its number.
enqueue(u) ==
  \/ /\ queuePc[u] = "idle" /\ enqueuePos < MaxPos
     /\ Reload(u, enqueuePos) /\ QueueGoto(u, "enqueue") /\ UNCHANGED queueShared
  \/ /\ queuePc[u] = "enqueue" /\ sequence[slotOf(u)] = pos[u] /\ enqueuePos = pos[u]
     /\ enqueuePos' = pos[u] + 1 /\ QueueGoto(u, "construct")
     /\ UNCHANGED <<dequeuePos, sequence, storage, pos>>
  \/ /\ queuePc[u] = "enqueue" /\ sequence[slotOf(u)] >= pos[u]
     /\ Reload(u, enqueuePos) /\ UNCHANGED <<queueShared, queuePc>>
  \/ /\ queuePc[u] = "enqueue" /\ sequence[slotOf(u)] < pos[u]
     /\ QueueGoto(u, "idle") /\ UNCHANGED <<queueShared, pos>>
  \/ /\ queuePc[u] = "construct"
     /\ \/ /\ storage' = [storage EXCEPT ![slotOf(u)] = pos[u]] /\ QueueGoto(u, "publish")
        \/ QueueGoto(u, "idle") /\ UNCHANGED storage
     /\ UNCHANGED <<enqueuePos, dequeuePos, sequence, pos>>
  \/ /\ queuePc[u] = "publish"
     /\ sequence' = [sequence EXCEPT ![slotOf(u)] = pos[u] + 1]
     /\ QueueGoto(u, "idle") /\ UNCHANGED <<enqueuePos, dequeuePos, storage, pos>>

\* dequeue() and each try of tryDequeue().  A move constructor that throws loses the item
\* and keeps the slot.
dequeue(u) ==
  \/ /\ queuePc[u] = "idle"
     /\ Reload(u, dequeuePos) /\ QueueGoto(u, "dequeue") /\ UNCHANGED queueShared
  \/ /\ queuePc[u] = "dequeue" /\ sequence[slotOf(u)] = pos[u] + 1 /\ dequeuePos = pos[u]
     /\ dequeuePos' = pos[u] + 1 /\ QueueGoto(u, "move")
     /\ UNCHANGED <<enqueuePos, sequence, storage, pos>>
  \/ /\ queuePc[u] = "dequeue" /\ sequence[slotOf(u)] >= pos[u] + 1
     /\ Reload(u, dequeuePos) /\ UNCHANGED <<queueShared, queuePc>>
  \/ /\ queuePc[u] = "dequeue" /\ sequence[slotOf(u)] < pos[u] + 1
     /\ QueueGoto(u, "idle") /\ UNCHANGED <<queueShared, pos>>
  \/ /\ queuePc[u] = "move"
     /\ storage' = [storage EXCEPT ![slotOf(u)] = Unbuilt]
     /\ QueueGoto(u, "release") \/ QueueGoto(u, "idle")
     /\ UNCHANGED <<enqueuePos, dequeuePos, sequence, pos>>
  \/ /\ queuePc[u] = "release"
     /\ sequence' = [sequence EXCEPT ![slotOf(u)] = pos[u] + Capacity]
     /\ QueueGoto(u, "idle") /\ UNCHANGED <<enqueuePos, dequeuePos, storage, pos>>

QueueQuiet == \A u \in Users : queuePc[u] = "idle"

\* clear(), which the destructor calls too: for one thread alone.
clearQueue ==
  /\ QueueQuiet
  /\ storage' = [s \in Slots |-> IF \E i \in dequeuePos..enqueuePos-1 : s = i % Capacity
                                 THEN Unbuilt ELSE storage[s]]
  /\ enqueuePos' = 0 /\ dequeuePos' = 0
  /\ sequence' = [s \in Slots |-> s]
  /\ UNCHANGED <<queuePc, pos>>

QueueNext == (\E u \in Users : enqueue(u) \/ dequeue(u)) \/ clearQueue

-----------------------------------------------------------------------------

\* Nothing is read before it is built, nor built over, nor taken twice: whoever claimed a
\* position finds its slot without an object to construct in, and with the item of exactly
\* that position to move out, whichever constructors threw before.
SlotsSound ==
  /\ \A u \in Users : queuePc[u] = "construct" => storage[slotOf(u)] = Unbuilt
  /\ \A u \in Users : queuePc[u] = "move" => storage[slotOf(u)] = pos[u]
  /\ dequeuePos <= enqueuePos /\ enqueuePos <= dequeuePos + Capacity
=============================================================================
