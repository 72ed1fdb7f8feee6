----------------------------- MODULE MemoryPool -----------------------------
(***************************************************************************)
(* axonvex::utils::containers::MemoryPool: the lock-free free list, the    *)
(* count of allocated blocks and its peak.  One step per atomic access     *)
(* that another thread can observe.                                        *)
(***************************************************************************)
EXTENDS Integers, FiniteSets

CONSTANTS Threads,     \* users of the pool
          Size,        \* pool_size_
          NullIndex,   \* NULL_INDEX
          MaxHeld,     \* bound on the blocks a thread holds at once
          MaxTag       \* bound on the tag, which has 32 bits in the code and is taken not to wrap

Blocks == 0..Size-1
Links  == Blocks \cup {NullIndex}

ASSUME PoolAssumption ==
  Size \in Nat /\ Size > 0 /\ NullIndex \notin Blocks /\ IsFiniteSet(Threads)

VARIABLES freeHead,    \* free_head_: a tag and an index
          next,        \* Block::next
          isAllocated, \* Block::is_allocated
          count,       \* allocated_count_
          peak,        \* stats_.peak_usage
          poolPc,      \* where each thread is
          seen,        \* the head (or the peak) that the thread loaded last
          link,        \* the link it loaded, the block it popped or pushes, or its count
          mine         \* the blocks it was given and has not given back

poolShared == <<freeHead, next, isAllocated, count, peak>>
poolVars   == <<poolShared, poolPc, seen, link, mine>>

PoolPCs == {"idle", "examine", "pop", "mark", "load_peak", "raise_peak", "construct",
            "release", "load", "link", "push", "uncount"}

PoolInit ==
  /\ freeHead = [tag |-> 0, index |-> 0]
  /\ next = [b \in Blocks |-> IF b = Size - 1 THEN NullIndex ELSE b + 1]
  /\ isAllocated = [b \in Blocks |-> FALSE]
  /\ count = 0 /\ peak = 0
  /\ poolPc = [t \in Threads |-> "idle"]
  /\ seen = [t \in Threads |-> freeHead]
  /\ link = [t \in Threads |-> NullIndex]
  /\ mine = [t \in Threads |-> {}]

PoolGoto(t, l) == poolPc' = [poolPc EXCEPT ![t] = l]
\* The load that a compare-and-swap checks later, and what is kept beside it.
Load(t)        == seen' = [seen EXCEPT ![t] = freeHead]
Keep(t, x)     == link' = [link EXCEPT ![t] = x]

\* Fault: a pop or push does not change the tag.
replaceHeadUntagged(t, index) ==
  freeHead = seen[t] /\ freeHead' = [freeHead EXCEPT !.index = index]

\* A successful compare-and-swap of free_head_ by packHead(headTag(head) + 1, index).
replaceHead(t, index) ==
  freeHead = seen[t] /\ freeHead' = [tag |-> freeHead.tag + 1, index |-> index]

-----------------------------------------------------------------------------

\* allocate(): a pop, then the accounts; a weak compare-and-swap may fail for no reason.
allocate(t) ==
  \/ /\ poolPc[t] = "idle" /\ Cardinality(mine[t]) < MaxHeld /\ freeHead.tag < MaxTag
     /\ Load(t) /\ PoolGoto(t, "examine")
     /\ UNCHANGED <<poolShared, link, mine>>
  \/ /\ poolPc[t] = "examine" /\ seen[t].index = NullIndex
     /\ PoolGoto(t, "idle") /\ UNCHANGED <<poolShared, seen, link, mine>>
  \/ /\ poolPc[t] = "examine" /\ seen[t].index # NullIndex
     /\ Keep(t, next[seen[t].index]) /\ PoolGoto(t, "pop")
     /\ UNCHANGED <<poolShared, seen, mine>>
  \/ /\ poolPc[t] = "pop" /\ replaceHead(t, link[t])
     /\ Keep(t, seen[t].index) /\ PoolGoto(t, "mark")
     /\ UNCHANGED <<next, isAllocated, count, peak, seen, mine>>
  \/ /\ poolPc[t] = "pop"
     /\ Load(t) /\ PoolGoto(t, "examine") /\ UNCHANGED <<poolShared, link, mine>>
  \/ /\ poolPc[t] = "mark"
     /\ isAllocated' = [isAllocated EXCEPT ![link[t]] = TRUE] /\ count' = count + 1
     /\ seen' = [seen EXCEPT ![t] = count + 1] /\ PoolGoto(t, "raise_peak")
     /\ UNCHANGED <<freeHead, next, peak, link, mine>>

\* The loop that raises the peak to the count this allocation saw.
raisePeak(t) ==
  /\ poolPc[t] = "raise_peak"
  /\ peak' = IF seen[t] > peak THEN seen[t] ELSE peak
  /\ PoolGoto(t, "construct") /\ UNCHANGED <<freeHead, next, isAllocated, count, seen, link, mine>>

\* allocateObject(): the block is returned, or the constructor throws and it goes back.
allocateObject(t) ==
  /\ poolPc[t] = "construct"
  /\ \/ mine' = [mine EXCEPT ![t] = @ \cup {link[t]}] /\ PoolGoto(t, "idle")
     \/ PoolGoto(t, "release") /\ UNCHANGED mine
  /\ UNCHANGED <<poolShared, seen, link>>

\* deallocate(): the flag decides who frees the block; a push, then the account.
deallocate(t) ==
  \/ /\ poolPc[t] = "idle" /\ freeHead.tag < MaxTag
     /\ \E b \in mine[t] : Keep(t, b) /\ mine' = [mine EXCEPT ![t] = @ \ {b}]
     /\ PoolGoto(t, "release") /\ UNCHANGED <<poolShared, seen>>
  \/ /\ poolPc[t] = "release" /\ ~isAllocated[link[t]]
     /\ PoolGoto(t, "idle") /\ UNCHANGED <<poolShared, seen, link, mine>>
  \/ /\ poolPc[t] = "release" /\ isAllocated[link[t]]
     /\ isAllocated' = [isAllocated EXCEPT ![link[t]] = FALSE]
     /\ PoolGoto(t, "load") /\ UNCHANGED <<freeHead, next, count, peak, seen, link, mine>>
  \/ /\ poolPc[t] = "load"
     /\ Load(t) /\ PoolGoto(t, "link") /\ UNCHANGED <<poolShared, link, mine>>
  \/ /\ poolPc[t] = "link"
     /\ next' = [next EXCEPT ![link[t]] = seen[t].index] /\ PoolGoto(t, "push")
     /\ UNCHANGED <<freeHead, isAllocated, count, peak, seen, link, mine>>
  \/ /\ poolPc[t] = "push" /\ replaceHead(t, link[t])
     /\ PoolGoto(t, "uncount")
     /\ UNCHANGED <<next, isAllocated, count, peak, seen, link, mine>>
  \/ /\ poolPc[t] = "push"
     /\ Load(t) /\ PoolGoto(t, "link") /\ UNCHANGED <<poolShared, link, mine>>
  \/ /\ poolPc[t] = "uncount"
     /\ count' = count - 1 /\ PoolGoto(t, "idle")
     /\ UNCHANGED <<freeHead, next, isAllocated, peak, seen, link, mine>>

\* clear(), for one thread alone: every block is free and the tag starts again.
clearPool ==
  /\ \A t \in Threads : poolPc[t] = "idle"
  /\ freeHead' = [tag |-> 0, index |-> 0]
  /\ next' = [b \in Blocks |-> IF b = Size - 1 THEN NullIndex ELSE b + 1]
  /\ isAllocated' = [b \in Blocks |-> FALSE] /\ count' = 0
  /\ mine' = [t \in Threads |-> {}]
  /\ UNCHANGED <<peak, poolPc, seen, link>>

PoolStep(t) == allocate(t) \/ raisePeak(t) \/ allocateObject(t) \/ deallocate(t)
PoolNext    == (\E t \in Threads : PoolStep(t)) \/ clearPool

-----------------------------------------------------------------------------

\* What validate() walks: the index after n links from the head.
walk[n \in 0..Size] ==
  IF n = 0 THEN freeHead.index
  ELSE IF walk[n - 1] = NullIndex THEN NullIndex ELSE next[walk[n - 1]]

FreeBlocks == {walk[n] : n \in 0..Size} \ {NullIndex}

\* validate(): the list and the count add up to the pool.
validate == count <= Size /\ Cardinality(FreeBlocks) + count = Size

\* A block popped and not returned yet, or given back and not pushed yet.
InFlight(t) == IF poolPc[t] \in {"mark", "raise_peak", "construct", "release", "load", "link", "push"}
               THEN {link[t]} ELSE {}

Owned(t) == mine[t] \cup InFlight(t)
Quiet    == \A t \in Threads : poolPc[t] = "idle"

\* C3: no block is handed out twice, none is lost, and the free list ends: a stale head is
\* never installed, whatever was popped and pushed back in between.
BlocksAccounted ==
  /\ walk[Size] = NullIndex
  /\ \A t, u \in Threads : t # u => Owned(t) \cap Owned(u) = {}
  /\ \A t \in Threads : Owned(t) \cap FreeBlocks = {} /\ InFlight(t) \cap mine[t] = {}
  /\ FreeBlocks \cup UNION {Owned(t) : t \in Threads} = Blocks

\* The statistics are exact again as soon as nobody is inside the pool, and the peak was
\* never below the usage that an allocation reported.
UsageAccounted ==
  Quiet => validate /\ count = Cardinality(UNION {mine[t] : t \in Threads}) /\ count <= peak
=============================================================================
