------------------------------ MODULE Containers ------------------------------
(***************************************************************************)
(* The containers on which the event bus, the logger and the units rely,   *)
(* side by side.  They share no state: `subject` is the one that runs, the *)
(* others rest.                                                            *)
(***************************************************************************)
EXTENDS RingBuffer, ThreadSafeQueue, MemoryPool

CONSTANT Subjects    \* the containers that may run

VARIABLE subject

containerVars == <<subject, poolVars, queueVars, ringVars>>

ContainersInit == subject \in Subjects /\ PoolInit /\ QueueInit /\ RingInit

ContainersNext ==
  /\ UNCHANGED subject
  /\ \/ subject = "pool" /\ PoolNext /\ UNCHANGED <<queueVars, ringVars>>
     \/ subject = "queue" /\ QueueNext /\ UNCHANGED <<poolVars, ringVars>>
     \/ subject = "ring" /\ RingNext /\ UNCHANGED <<poolVars, queueVars>>

ContainersSpec == ContainersInit /\ [][ContainersNext]_containerVars

-----------------------------------------------------------------------------
(* The promises, by container.                                              *)

\* The lock-free pool hands out each block once and its statistics are exact at rest, and the
\* lock-free queue never reads, builds over or hands out twice what was not its turn.
ContainersSound == BlocksAccounted /\ UsageAccounted /\ SlotsSound

\* The ring buffer implements a bounded queue, of which a reader has the oldest item in hand.
RingIsFifo == ringIsFifo /\ []ReaderHasOldest
=============================================================================
