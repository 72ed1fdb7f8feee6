----------------------------- MODULE Capacities -----------------------------
(***************************************************************************)
(* How the containers turn the size they are asked for into the one they   *)
(* get, on words of Width bits: coreUtilities.hpp and the constructors of  *)
(* MemoryPool, ThreadSafeQueue and RingBuffer.                             *)
(***************************************************************************)
EXTENDS Integers, Bitwise, FiniteSetsExt, SequencesExt

CONSTANTS Width,        \* bits of a size_t
          Shifts,       \* the shifts of nextPowerOf2(), which double up to half the width
          MinCapacity, MaxCapacity

VARIABLE requested      \* the size asked for

Words == 0..2^Width - 1

CapacityInit == requested \in Words
CapacityNext == requested' = (requested + 1) % 2^Width

Smear(value, shift) == value | (value \div 2^shift)

\* Fault: the last shift is missing, the slip that the two shifts by 16 avoid.
nextPowerOf2Short(value) ==
  IF value = 0 THEN 1 ELSE (FoldLeft(Smear, value - 1, Front(Shifts)) + 1) % 2^Width

\* nextPowerOf2(): every bit below the highest one is set, then one is added.
nextPowerOf2(value) ==
  IF value = 0 THEN 1 ELSE (FoldLeft(Smear, value - 1, Shifts) + 1) % 2^Width

\* The pool and the queue round first and clamp then.
poolCapacity(n) == Max({MinCapacity, Min({MaxCapacity, nextPowerOf2(n)})})

\* validateCapacity(): the ring clamps first.
ringCapacity(n) == nextPowerOf2(Max({MinCapacity, Min({MaxCapacity, n})}))

-----------------------------------------------------------------------------

PowersOf2 == {2^k : k \in 0..Width}

\* The masks of the queue and the ring need a power of two; nobody gets less than was asked
\* for, up to the maximum; and the ring, unlike the pool, never rounds a huge request to 0.
CapacitiesFit ==
  LET n == requested
      least == Min({p \in PowersOf2 : p >= Max({n, MinCapacity})})
  IN  /\ {poolCapacity(n), ringCapacity(n)} \subseteq PowersOf2 \cap MinCapacity..MaxCapacity
      /\ n <= MaxCapacity => poolCapacity(n) = least
      /\ ringCapacity(n) = Min({least, MaxCapacity})
=============================================================================
