---------------------------- MODULE BoundedFifo ----------------------------
(***************************************************************************)
(* What a bounded queue between one writer and one reader promises: items  *)
(* come out once each and in the order they went in, and never more than   *)
(* Bound of them wait.                                                     *)
(***************************************************************************)
EXTENDS Sequences, Naturals

CONSTANTS Items, Bound

VARIABLE fifo      \* the items that wait, oldest first

FifoInit == fifo = << >>

Put  == Len(fifo) < Bound /\ \E x \in Items : fifo' = Append(fifo, x)
Take == fifo # << >> /\ fifo' = Tail(fifo)
Drop == fifo' = << >>

FifoNext == Put \/ Take \/ Drop
FifoSpec == FifoInit /\ [][FifoNext]_fifo
=============================================================================
