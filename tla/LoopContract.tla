---------------------------- MODULE LoopContract ----------------------------
(***************************************************************************)
(* What an owner of a detail::WorkerThread may rely on, whatever threads   *)
(* call it: one loop body at a time, a new one only after the last was     *)
(* reaped, and a stop flag which no old loop ever sees raised again.       *)
(***************************************************************************)
VARIABLES phase,  \* "none", "running", "ended" (to be joined), "abandoned" (detached)
          flag    \* the owner's flag the loop polls

TypeOK == phase \in {"none", "running", "ended", "abandoned"} /\ flag \in BOOLEAN

Init == phase = "none" /\ flag = FALSE

Raise   == phase = "none" /\ flag' = TRUE /\ UNCHANGED phase
Lower   == flag' = FALSE /\ UNCHANGED phase
Begin   == phase = "none" /\ phase' = "running" /\ UNCHANGED flag
End     == phase = "running" /\ ~flag /\ phase' = "ended" /\ UNCHANGED flag
Reap    == phase = "ended" /\ phase' = "none" /\ UNCHANGED flag
\* The owner is destroyed from inside the loop, which runs on without it.
Abandon == phase = "running" /\ phase' = "abandoned" /\ UNCHANGED flag
Fade    == phase = "abandoned" /\ ~flag /\ phase' = "none" /\ UNCHANGED flag

Next == Raise \/ Lower \/ Begin \/ End \/ Reap \/ Abandon \/ Fade

Spec == Init /\ [][Next]_<<phase, flag>>
=============================================================================
