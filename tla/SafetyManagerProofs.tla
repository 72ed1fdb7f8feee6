------------------------- MODULE SafetyManagerProofs -------------------------
(***************************************************************************)
(* What holds of SafetyManager for every set of callers and policies and    *)
(* every nesting of user code.  In every environment, disciplined or not:   *)
(* cycles are serialised, a hook that was cleared is not being called, and  *)
(* an e-stop calls it at most once.  As long as start() and stop() do not   *)
(* overlap: no handle is destroyed joinable, and stop() means stopped.      *)
(***************************************************************************)
EXTENDS SafetyManager, FiniteSetTheorems, SequenceTheorems, TLAPS

\* Where a thread is when it is inside no call, and where calls return to.
Base   == {"idle", "gone", "publish", "loop", "sleep"}
BackPC == {"idle", "sleep", "trigger_lock", "handled", "verdict", "eval_next", "eval_emergency"}

\* A thread outside every call has nothing to return to, and what a call returns to last,
\* and nothing before it, is outside every call.
ControlInv ==
  /\ pc \in [Threads -> PCs] /\ stack \in [Threads -> Seq(BackPC)]
  /\ \A t \in Threads :
       /\ stack[t] = << >> <=> pc[t] \in Base
       /\ \A i \in 1..Len(stack[t]) : stack[t][i] \in Base <=> i = Len(stack[t])

\* The worker's thread exists exactly while its loop does.
WorkerInv == worker # "running" => pc[Worker] = "gone"

\* The calls thread t is inside of, the innermost first.
Frame(t, i) == IF i = 0 THEN pc[t] ELSE stack[t][i]
Frames(t)   == 0..Len(stack[t])

\* A thread inside a cycle owns evaluationMutex_, and is inside one cycle only.
CycleInv ==
  \A t \in Threads : \A i \in Frames(t) :
    Frame(t, i) \in CyclePC =>
      /\ evaluationMutex = t
      /\ \A j \in Frames(t) : Frame(t, j) \in CyclePC => i = j

\* A thread that calls the hook, or has called it, owns callbackMutex, and the hook is set.
HookInv ==
  \A t \in Threads :
    /\ pc[t] \in {"hook", "trigger_end"} => callbackMutex = t
    /\ pc[t] = "hook" => hook

IInv == ControlInv /\ WorkerInv /\ CycleInv /\ HookInv

-----------------------------------------------------------------------------
(* The three ways in which a step of a thread moves its control.            *)

\* What a step that stays in the same call leaves of the invariant.
LEMMA GotoControl ==
  ASSUME ControlInv, NEW t \in Threads, NEW l \in PCs, Goto(t, l), l \in Base <=> pc[t] \in Base
  PROVE  /\ ControlInv'
         /\ \A u \in Threads : u # t => pc'[u] = pc[u]
         /\ pc'[t] = l /\ stack' = stack
<1>1. stack' = stack /\ pc' = [pc EXCEPT ![t] = l] /\ pc \in [Threads -> PCs]
  BY DEF Goto, ControlInv
<1>2. pc' \in [Threads -> PCs] /\ pc'[t] = l /\ \A u \in Threads : u # t => pc'[u] = pc[u]
  BY <1>1
<1>3. \A u \in Threads : pc'[u] \in Base <=> pc[u] \in Base
  BY <1>2
<1> QED
  BY <1>1, <1>2, <1>3 DEF ControlInv

\* A call pushes the point it returns to.
LEMMA CallControl ==
  ASSUME ControlInv, NEW t \in Threads, NEW l \in PCs \ Base, NEW back \in BackPC,
         Call(t, l, back), back \in Base <=> stack[t] = << >>
  PROVE  /\ ControlInv'
         /\ \A u \in Threads : u # t => pc'[u] = pc[u] /\ stack'[u] = stack[u]
         /\ pc'[t] = l
         /\ Len(stack'[t]) = Len(stack[t]) + 1 /\ stack'[t][1] = back
         /\ \A i \in 1..Len(stack[t]) : stack'[t][i + 1] = stack[t][i]
<1>1. pc \in [Threads -> PCs] /\ stack \in [Threads -> Seq(BackPC)]
  BY DEF ControlInv
<1>2. pc' = [pc EXCEPT ![t] = l] /\ stack' = [stack EXCEPT ![t] = <<back>> \o stack[t]]
  BY DEF Call
<1>3. <<back>> \in Seq(BackPC) /\ Len(<<back>>) = 1 /\ <<back>>[1] = back /\ stack[t] \in Seq(BackPC)
  BY <1>1
<1>4. /\ <<back>> \o stack[t] \in Seq(BackPC)
      /\ Len(<<back>> \o stack[t]) = 1 + Len(stack[t])
      /\ \A i \in 1..1 + Len(stack[t]) :
           (<<back>> \o stack[t])[i] = IF i <= 1 THEN <<back>>[i] ELSE stack[t][i - 1]
  BY <1>3, ConcatProperties
<1>5. Len(stack[t]) \in Nat
  BY <1>1
<1>6. /\ stack'[t] \in Seq(BackPC) /\ Len(stack'[t]) = Len(stack[t]) + 1 /\ stack'[t][1] = back
      /\ \A i \in 1..Len(stack[t]) : stack'[t][i + 1] = stack[t][i]
  <2>1. stack'[t] = <<back>> \o stack[t]
    BY <1>1, <1>2
  <2>2. \A i \in 1..Len(stack[t]) : i + 1 \in 1..1 + Len(stack[t]) /\ ~(i + 1 <= 1) /\ (i + 1) - 1 = i
    BY <1>5
  <2> QED
    BY <2>1, <2>2, <1>3, <1>4, <1>5
<1>7. /\ pc' \in [Threads -> PCs] /\ pc'[t] = l /\ stack' \in [Threads -> Seq(BackPC)]
      /\ \A u \in Threads : u # t => pc'[u] = pc[u] /\ stack'[u] = stack[u]
  BY <1>1, <1>2, <1>4
<1>8. ASSUME NEW u \in Threads
      PROVE  /\ stack'[u] = << >> <=> pc'[u] \in Base
             /\ \A i \in 1..Len(stack'[u]) : stack'[u][i] \in Base <=> i = Len(stack'[u])
  <2>1. CASE u # t
    BY <2>1, <1>7 DEF ControlInv
  <2>2. CASE u = t
    <3>1. stack'[t] # << >>
      BY <1>5, <1>6
    <3>2. ASSUME NEW i \in 1..Len(stack'[t])
          PROVE  stack'[t][i] \in Base <=> i = Len(stack'[t])
      <4>1. CASE i = 1
        <5>1. stack[t] = << >> <=> Len(stack[t]) = 0
          BY <1>3, EmptySeq
        <5> QED
          BY <4>1, <5>1, <1>5, <1>6
      <4>2. CASE i # 1
        <5>1. i - 1 \in 1..Len(stack[t]) /\ (i - 1) + 1 = i
          BY <4>2, <1>5, <1>6
        <5>2. stack'[t][i] = stack[t][i - 1]
          BY <5>1, <1>6
        <5>3. stack[t][i - 1] \in Base <=> i - 1 = Len(stack[t])
          BY <5>1 DEF ControlInv
        <5> QED
          BY <5>1, <5>2, <5>3, <1>5, <1>6
      <4> QED
        BY <4>1, <4>2
    <3> QED
      BY <2>2, <3>1, <3>2, <1>7
  <2> QED
    BY <2>1, <2>2
<1> QED
  BY <1>6, <1>7, <1>8 DEF ControlInv

\* A return pops it again.
LEMMA ReturnControl ==
  ASSUME ControlInv, NEW t \in Threads, Return(t), pc[t] \notin Base
  PROVE  /\ ControlInv'
         /\ \A u \in Threads : u # t => pc'[u] = pc[u] /\ stack'[u] = stack[u]
         /\ Len(stack[t]) \in Nat \ {0} /\ Len(stack'[t]) = Len(stack[t]) - 1
         /\ pc'[t] = stack[t][1] /\ pc'[t] \in BackPC
         /\ \A i \in 1..Len(stack'[t]) : stack'[t][i] = stack[t][i + 1]
<1>1. pc \in [Threads -> PCs] /\ stack \in [Threads -> Seq(BackPC)]
  BY DEF ControlInv
<1>2. stack[t] \in Seq(BackPC) /\ stack[t] # << >>
  BY <1>1 DEF ControlInv
<1>3. pc' = [pc EXCEPT ![t] = Head(stack[t])] /\ stack' = [stack EXCEPT ![t] = Tail(stack[t])]
  BY DEF Return
<1>4. /\ Head(stack[t]) \in BackPC /\ Tail(stack[t]) \in Seq(BackPC)
      /\ Len(Tail(stack[t])) = Len(stack[t]) - 1
      /\ \A i \in 1..Len(Tail(stack[t])) : Tail(stack[t])[i] = stack[t][i + 1]
  BY <1>2, HeadTailProperties
<1>5. Len(stack[t]) \in Nat \ {0} /\ Head(stack[t]) = stack[t][1]
  BY <1>2, EmptySeq
<1>6. BackPC \subseteq PCs
  BY DEF BackPC, PCs, CyclePC
<1>7. /\ pc' \in [Threads -> PCs] /\ pc'[t] = stack[t][1] /\ stack' \in [Threads -> Seq(BackPC)]
      /\ stack'[t] = Tail(stack[t])
      /\ \A u \in Threads : u # t => pc'[u] = pc[u] /\ stack'[u] = stack[u]
  BY <1>1, <1>3, <1>4, <1>5, <1>6
<1>8. ASSUME NEW u \in Threads
      PROVE  /\ stack'[u] = << >> <=> pc'[u] \in Base
             /\ \A i \in 1..Len(stack'[u]) : stack'[u][i] \in Base <=> i = Len(stack'[u])
  <2>1. CASE u # t
    BY <2>1, <1>7 DEF ControlInv
  <2>2. CASE u = t
    <3>1. \A i \in 1..Len(stack[t]) : stack[t][i] \in Base <=> i = Len(stack[t])
      BY DEF ControlInv
    <3>2. Tail(stack[t]) = << >> <=> Len(stack[t]) = 1
      <4>1. Tail(stack[t]) = << >> <=> Len(Tail(stack[t])) = 0
        BY <1>4, EmptySeq
      <4>2. Len(stack[t]) - 1 = 0 <=> Len(stack[t]) = 1
        BY <1>5
      <4> QED
        BY <4>1, <4>2, <1>4
    <3>3. stack[t][1] \in Base <=> Len(stack[t]) = 1
      <4>1. 1 \in 1..Len(stack[t])
        BY <1>5
      <4>2. stack[t][1] \in Base <=> 1 = Len(stack[t])
        BY <3>1, <4>1
      <4> QED
        BY <4>2
    <3>4. ASSUME NEW i \in 1..Len(Tail(stack[t]))
          PROVE  Tail(stack[t])[i] \in Base <=> i = Len(Tail(stack[t]))
      <4>1. i + 1 \in 1..Len(stack[t])
        BY <1>4, <1>5
      <4> QED
        BY <4>1, <3>1, <1>4, <1>5
    <3> QED
      BY <2>2, <3>2, <3>3, <3>4, <1>7
  <2> QED
    BY <2>1, <2>2
<1> QED
  BY <1>4, <1>5, <1>7, <1>8 DEF ControlInv

-----------------------------------------------------------------------------
(* What they mean for the cycles a thread is inside of.                     *)

\* A step within a call enters no cycle unless it is in one.
LEMMA GotoCycle ==
  ASSUME ControlInv, CycleInv, NEW t \in Threads, NEW l \in PCs, Goto(t, l),
         l \in CyclePC => pc[t] \in CyclePC, evaluationMutex' = evaluationMutex
  PROVE  CycleInv'
<1>1. stack' = stack /\ pc'[t] = l /\ \A u \in Threads : u # t => pc'[u] = pc[u]
  BY DEF Goto, ControlInv
<1>2. ASSUME NEW u \in Threads, NEW i \in Frames(u), Frame(u, i)' \in CyclePC
      PROVE  Frame(u, i) \in CyclePC
  BY <1>1, <1>2 DEF Frame
<1>3. \A u \in Threads : Frames(u)' = Frames(u)
  BY <1>1 DEF Frames
<1> QED
  BY <1>2, <1>3 DEF CycleInv

\* A call leaves the caller where it is, one frame further out.
LEMMA CallCycle ==
  ASSUME ControlInv, CycleInv, NEW t \in Threads, NEW l \in PCs \ (Base \cup CyclePC),
         NEW back \in BackPC, Call(t, l, back), back \in Base <=> stack[t] = << >>,
         back \in CyclePC => pc[t] \in CyclePC, evaluationMutex' = evaluationMutex
  PROVE  CycleInv'
<1>1. /\ \A u \in Threads : u # t => pc'[u] = pc[u] /\ stack'[u] = stack[u]
      /\ pc'[t] = l
      /\ Len(stack'[t]) = Len(stack[t]) + 1 /\ stack'[t][1] = back
      /\ \A i \in 1..Len(stack[t]) : stack'[t][i + 1] = stack[t][i]
  BY CallControl
<1>2. Len(stack[t]) \in Nat
  BY LenProperties DEF ControlInv
<1>3. ASSUME NEW i \in 0..Len(stack'[t]), Frame(t, i)' \in CyclePC
      PROVE  i - 1 \in Frames(t) /\ Frame(t, i - 1) \in CyclePC
  <2>1. i # 0
    BY <1>1, <1>3 DEF Frame
  <2>2. CASE i = 1
    BY <2>2, <1>1, <1>2, <1>3 DEF Frame, Frames
  <2>3. CASE i > 1
    <3>1. i - 1 \in 1..Len(stack[t]) /\ (i - 1) + 1 = i
      BY <2>3, <1>1, <1>2
    <3>2. stack'[t][i] = stack[t][i - 1]
      BY <3>1, <1>1
    <3> QED
      BY <2>1, <3>1, <3>2, <1>2, <1>3 DEF Frame, Frames
  <2> QED
    BY <2>1, <2>2, <2>3, <1>1, <1>2
<1>4. ASSUME NEW u \in Threads, NEW i \in 0..Len(stack'[u]), Frame(u, i)' \in CyclePC
      PROVE  /\ evaluationMutex' = u
             /\ \A j \in 0..Len(stack'[u]) : Frame(u, j)' \in CyclePC => i = j
  <2>1. CASE u # t
    BY <2>1, <1>1, <1>4 DEF CycleInv, Frame, Frames
  <2>2. CASE u = t
    <3>1. i - 1 \in Frames(t) /\ Frame(t, i - 1) \in CyclePC
      BY <2>2, <1>3, <1>4
    <3>2. ASSUME NEW j \in 0..Len(stack'[t]), Frame(t, j)' \in CyclePC
          PROVE  i = j
      <4>1. j - 1 \in Frames(t) /\ Frame(t, j - 1) \in CyclePC
        BY <3>2, <1>3
      <4>2. i - 1 = j - 1
        BY <3>1, <4>1 DEF CycleInv
      <4> QED
        BY <4>2, <2>2, <1>1, <1>2
    <3> QED
      BY <2>2, <3>1, <3>2 DEF CycleInv
  <2> QED
    BY <2>1, <2>2
<1> QED
  BY <1>4 DEF CycleInv, Frames

\* A return leaves the frames further out one step nearer.
LEMMA ReturnFrames ==
  ASSUME ControlInv, NEW t \in Threads, Return(t), pc[t] \notin Base
  PROVE  /\ \A u \in Threads : u # t => pc'[u] = pc[u] /\ stack'[u] = stack[u]
         /\ Len(stack'[t]) \in Nat /\ Len(stack[t]) = Len(stack'[t]) + 1
         /\ \A i \in 0..Len(stack'[t]) :
              i + 1 \in Frames(t) /\ i + 1 # 0 /\ Frame(t, i)' = Frame(t, i + 1)
<1>1. /\ \A u \in Threads : u # t => pc'[u] = pc[u] /\ stack'[u] = stack[u]
      /\ Len(stack[t]) \in Nat \ {0} /\ Len(stack'[t]) = Len(stack[t]) - 1
      /\ pc'[t] = stack[t][1]
      /\ \A i \in 1..Len(stack'[t]) : stack'[t][i] = stack[t][i + 1]
  BY ReturnControl
<1>2. Len(stack'[t]) \in Nat /\ Len(stack[t]) = Len(stack'[t]) + 1
  BY <1>1
<1>3. ASSUME NEW i \in 0..Len(stack'[t])
      PROVE  i + 1 \in Frames(t) /\ i + 1 # 0 /\ Frame(t, i)' = Frame(t, i + 1)
  <2>1. i + 1 \in Frames(t) /\ i + 1 # 0
    BY <1>2 DEF Frames
  <2>2. CASE i = 0
    BY <2>1, <2>2, <1>1 DEF Frame
  <2>3. CASE i # 0
    <3>1. i \in 1..Len(stack'[t])
      BY <2>3, <1>2
    <3> QED
      BY <2>1, <2>3, <3>1, <1>1 DEF Frame
  <2> QED
    BY <2>1, <2>2, <2>3
<1> QED
  BY <1>1, <1>2, <1>3

\* A return of one call does not change which cycle the callers are inside of.
LEMMA ReturnCycle ==
  ASSUME ControlInv, CycleInv, NEW t \in Threads, Return(t), pc[t] \notin Base,
         evaluationMutex' = evaluationMutex
  PROVE  CycleInv'
<1>1. ASSUME NEW u \in Threads, NEW i \in 0..Len(stack'[u]), Frame(u, i)' \in CyclePC
      PROVE  /\ evaluationMutex' = u
             /\ \A j \in 0..Len(stack'[u]) : Frame(u, j)' \in CyclePC => i = j
  <2>1. CASE u # t
    BY <2>1, <1>1, ReturnFrames DEF CycleInv, Frame, Frames
  <2>2. CASE u = t
    <3>1. i + 1 \in Frames(t) /\ Frame(t, i + 1) \in CyclePC
      BY <2>2, <1>1, ReturnFrames
    <3>2. ASSUME NEW j \in 0..Len(stack'[t]), Frame(t, j)' \in CyclePC
          PROVE  i = j
      <4>1. j + 1 \in Frames(t) /\ Frame(t, j + 1) \in CyclePC
        BY <3>2, ReturnFrames
      <4>2. i + 1 = j + 1
        BY <3>1, <4>1 DEF CycleInv
      <4> QED
        BY <4>2, <2>2, ReturnFrames
    <3> QED
      BY <2>2, <3>1, <3>2 DEF CycleInv
  <2> QED
    BY <2>1, <2>2
<1> QED
  BY <1>1 DEF CycleInv, Frames

\* The mutex is free: nobody is inside a cycle, and the one who takes it enters one.
LEMMA LockCycleStep ==
  ASSUME ControlInv, CycleInv, NEW t \in Threads, lockCycle(t)
  PROVE  CycleInv'
<1>1. ASSUME NEW u \in Threads, NEW i \in Frames(u) PROVE Frame(u, i) \notin CyclePC
  BY <1>1, ThreadsAssumption DEF CycleInv, lockCycle
<1>2. stack' = stack /\ evaluationMutex' = t /\ \A u \in Threads : u # t => pc'[u] = pc[u]
  BY DEF lockCycle, Goto, ControlInv
<1>3. ASSUME NEW u \in Threads, NEW i \in Frames(u), Frame(u, i)' \in CyclePC
      PROVE  u = t /\ i = 0
  BY <1>1, <1>2, <1>3 DEF Frame
<1>4. \A u \in Threads : Frames(u)' = Frames(u)
  BY <1>2 DEF Frames
<1> QED
  BY <1>2, <1>3, <1>4 DEF CycleInv

\* The owner of the mutex leaves its only cycle.
LEMMA EndCycleStep ==
  ASSUME ControlInv, CycleInv, NEW t \in Threads, At(t, "eval_end"), Return(t)
  PROVE  CycleInv'
<1>1. pc[t] \in CyclePC /\ pc[t] \notin Base /\ 0 \in Frames(t) /\ Frame(t, 0) = pc[t]
  <2>1. Len(stack[t]) \in Nat
    BY LenProperties DEF ControlInv
  <2> QED
    BY <2>1 DEF At, CyclePC, Base, Frames, Frame
<1>2. \A i \in Frames(t) : i # 0 => Frame(t, i) \notin CyclePC
  BY <1>1 DEF CycleInv
<1>3. \A u \in Threads : u # t => \A i \in Frames(u) : Frame(u, i) \notin CyclePC
  BY <1>1 DEF CycleInv
<1>4. ASSUME NEW u \in Threads, NEW i \in 0..Len(stack'[u]) PROVE Frame(u, i)' \notin CyclePC
  <2>1. CASE u # t
    BY <2>1, <1>1, <1>3, <1>4, ReturnFrames DEF Frame, Frames
  <2>2. CASE u = t
    BY <2>2, <1>1, <1>2, <1>4, ReturnFrames
  <2> QED
    BY <2>1, <2>2
<1> QED
  BY <1>4 DEF CycleInv, Frames

-----------------------------------------------------------------------------
(* What a step of each kind preserves when it touches no mutex, hook or     *)
(* worker.                                                                  *)

\* Only a thread that comes to the hook, or a change of the hook, can disturb HookInv.
LEMMA HookKeeps ==
  ASSUME HookInv, NEW t \in Threads, \A u \in Threads : u # t => pc'[u] = pc[u],
         pc'[t] \notin {"hook", "trigger_end"}, callbackMutex' = callbackMutex, hook' = hook
  PROVE  HookInv'
BY DEF HookInv

\* A step of a thread that is not "gone" leaves a dead worker dead.
LEMMA WorkerKeeps ==
  ASSUME WorkerInv, NEW t \in Threads, \A u \in Threads : u # t => pc'[u] = pc[u],
         pc[t] # "gone", worker' = worker
  PROVE  WorkerInv'
BY DEF WorkerInv, Threads

LEMMA GotoKeeps ==
  ASSUME IInv, NEW t \in Threads, NEW l \in PCs, Goto(t, l),
         l \in Base <=> pc[t] \in Base, l \in CyclePC => pc[t] \in CyclePC, pc[t] # "gone",
         l \notin {"hook", "trigger_end"},
         worker' = worker, evaluationMutex' = evaluationMutex,
         callbackMutex' = callbackMutex, hook' = hook
  PROVE  IInv'
<1>1. /\ ControlInv' /\ CycleInv' /\ pc'[t] = l
      /\ \A u \in Threads : u # t => pc'[u] = pc[u]
  BY GotoControl, GotoCycle DEF IInv
<1> QED
  BY <1>1, HookKeeps, WorkerKeeps DEF IInv

LEMMA CallKeeps ==
  ASSUME IInv, NEW t \in Threads,
         NEW l \in PCs \ (Base \cup CyclePC \cup {"hook", "trigger_end"}), NEW back \in BackPC,
         Call(t, l, back), back \in Base <=> stack[t] = << >>,
         back \in CyclePC => pc[t] \in CyclePC, pc[t] # "gone",
         worker' = worker, evaluationMutex' = evaluationMutex,
         callbackMutex' = callbackMutex, hook' = hook
  PROVE  IInv'
<1>1. /\ ControlInv' /\ CycleInv' /\ pc'[t] = l
      /\ \A u \in Threads : u # t => pc'[u] = pc[u]
  BY CallControl, CallCycle DEF IInv
<1> QED
  BY <1>1, HookKeeps, WorkerKeeps DEF IInv

LEMMA ReturnKeeps ==
  ASSUME IInv, NEW t \in Threads, Return(t), pc[t] \notin Base,
         worker' = worker, evaluationMutex' = evaluationMutex,
         callbackMutex' = callbackMutex, hook' = hook
  PROVE  IInv'
<1>1. /\ ControlInv' /\ CycleInv' /\ pc'[t] \in BackPC
      /\ \A u \in Threads : u # t => pc'[u] = pc[u]
  BY ReturnControl, ReturnCycle DEF IInv
<1>2. pc'[t] \notin {"hook", "trigger_end"} /\ pc[t] # "gone"
  BY <1>1 DEF BackPC, Base
<1> QED
  BY <1>1, <1>2, HookKeeps, WorkerKeeps DEF IInv

\* A step that moves no thread and changes no mutex.
LEMMA StillKeeps ==
  ASSUME IInv, UNCHANGED <<control, worker, evaluationMutex, callbackMutex, hook>>
  PROVE  IInv'
<1>1. ControlInv' /\ WorkerInv' /\ HookInv'
  BY DEF IInv, ControlInv, WorkerInv, HookInv, control
<1>2. CycleInv'
  BY DEF IInv, CycleInv, Frame, Frames, control
<1> QED
  BY <1>1, <1>2 DEF IInv

-----------------------------------------------------------------------------
(* The actions                                                              *)

\* Nobody is inside a call, and no mutex is held.
LEMMA InitIInv == Init => IInv
<1> SUFFICES ASSUME Init PROVE IInv
  OBVIOUS
<1>1. /\ pc \in [Threads -> PCs] /\ stack \in [Threads -> Seq(BackPC)]
      /\ \A t \in Threads : pc[t] \in {"idle", "gone"} /\ stack[t] = << >> /\ Len(stack[t]) = 0
  BY DEF Init, PCs
<1>2. \A t \in Threads : Frames(t) = {0} /\ Frame(t, 0) = pc[t]
  BY <1>1 DEF Frames, Frame
<1>3. ControlInv
  BY <1>1 DEF ControlInv, Base
<1>4. WorkerInv /\ HookInv
  BY <1>1 DEF Init, WorkerInv, HookInv, Threads
<1>5. CycleInv
  BY <1>1, <1>2 DEF CycleInv, CyclePC
<1> QED
  BY <1>3, <1>4, <1>5 DEF IInv

LEMMA StartStep ==
  ASSUME IInv, NEW t \in Threads, start(t), UNCHANGED <<cycle, callbackMutex, config>>
  PROVE  IInv'
<1> USE DEF At, Base, PCs, StartPC, StopPC, CyclePC
<1>0. evaluationMutex' = evaluationMutex /\ callbackMutex' = callbackMutex /\ hook' = hook
  BY DEF cycle, config
<1>1. CASE At(t, "start") /\ Goto(t, "start_exchange") /\ worker' = worker
  BY <1>0, <1>1, GotoKeeps
<1>2. CASE At(t, "start_exchange") /\ worker' = worker
           /\ \E l \in {"start_unlock", "start_clear"} : Goto(t, l)
  BY <1>0, <1>2, GotoKeeps
<1>3. CASE At(t, "start_clear") /\ Goto(t, "start_spawn") /\ worker' = worker
  BY <1>0, <1>3, GotoKeeps
<1>4. CASE /\ At(t, "start_spawn") /\ worker = "none" /\ worker' = "running"
           /\ pc' = [pc EXCEPT ![t] = "start_unlock", ![Worker] = "publish"] /\ stack' = stack
  <2>1. pc[Worker] = "gone" /\ Worker \in Threads /\ t # Worker /\ pc \in [Threads -> PCs]
    BY <1>4 DEF IInv, WorkerInv, ControlInv, Threads
  <2>2. /\ pc'[t] = "start_unlock" /\ pc'[Worker] = "publish" /\ pc' \in [Threads -> PCs]
        /\ \A u \in Threads \ {t, Worker} : pc'[u] = pc[u]
    BY <1>4, <2>1
  <2>3. \A u \in Threads : /\ pc'[u] \in Base <=> pc[u] \in Base
                           /\ pc'[u] \in CyclePC => pc[u] \in CyclePC
                           /\ pc'[u] \in {"hook", "trigger_end"} => pc'[u] = pc[u]
    BY <1>4, <2>1, <2>2
  <2> HIDE DEF At, Base, PCs, CyclePC
  <2>4. ControlInv'
    BY <1>4, <2>2, <2>3 DEF IInv, ControlInv
  <2>5. WorkerInv' /\ HookInv'
    BY <1>0, <1>4, <2>3 DEF IInv, WorkerInv, HookInv
  <2>6. CycleInv'
    <3>1. \A u \in Threads : Frames(u)' = Frames(u)
      BY <1>4 DEF Frames
    <3>2. \A u \in Threads : \A i \in Frames(u) : Frame(u, i)' \in CyclePC => Frame(u, i) \in CyclePC
      BY <1>4, <2>3 DEF Frame
    <3> QED
      BY <1>0, <3>1, <3>2 DEF IInv, CycleInv
  <2> QED
    BY <2>4, <2>5, <2>6 DEF IInv
<1>5. CASE UNCHANGED <<control, worker>>
  BY <1>0, <1>5, StillKeeps
<1>6. CASE At(t, "start_unlock") /\ Return(t) /\ worker' = worker
  BY <1>0, <1>6, ReturnKeeps
<1> QED
  BY <1>1, <1>2, <1>3, <1>4, <1>5, <1>6 DEF start

LEMMA StopStep ==
  ASSUME IInv, NEW t \in Threads, stop(t), UNCHANGED <<cycle, estop, config>>
  PROVE  IInv'
<1> USE DEF At, Base, PCs, StartPC, StopPC, CyclePC
<1>0. evaluationMutex' = evaluationMutex /\ callbackMutex' = callbackMutex /\ hook' = hook
  BY DEF cycle, config, estop
<1>1. CASE At(t, "stop") /\ Goto(t, "stop_self") /\ worker' = worker
  BY <1>0, <1>1, GotoKeeps
<1>2. CASE At(t, "stop_self") /\ Return(t) /\ worker' = worker
  BY <1>0, <1>2, ReturnKeeps
<1>3. CASE At(t, "stop_self") /\ Goto(t, "stop_lock") /\ worker' = worker
  BY <1>0, <1>3, GotoKeeps
<1>4. CASE At(t, "stop_lock") /\ Goto(t, "stop_join") /\ worker' = worker
  BY <1>0, <1>4, GotoKeeps
<1>5. CASE At(t, "stop_join") /\ Return(t) /\ worker # "running" /\ worker' = "none"
  <2>1. /\ ControlInv' /\ CycleInv' /\ pc'[t] \in BackPC
        /\ \A u \in Threads : u # t => pc'[u] = pc[u]
    BY <1>0, <1>5, ReturnControl, ReturnCycle DEF IInv
  <2>2. HookInv'
    BY <1>0, <2>1, HookKeeps DEF IInv, BackPC
  <2>3. WorkerInv'
    BY <1>5, <2>1 DEF IInv, WorkerInv, Threads
  <2> QED
    BY <2>1, <2>2, <2>3 DEF IInv
<1> QED
  BY <1>1, <1>2, <1>3, <1>4, <1>5 DEF stop

LEMMA EngageStep ==
  ASSUME IInv, NEW t \in Threads, engage(t) \/ resetEmergencyStop(t),
         UNCHANGED <<lifecycle, cycle, config>>
  PROVE  IInv'
<1> USE DEF At, Base, PCs, StartPC, StopPC, CyclePC, BackPC
<1>0. /\ worker' = worker /\ evaluationMutex' = evaluationMutex
      /\ callbackMutex' = callbackMutex /\ hook' = hook
  BY DEF cycle, config, lifecycle, engage, resetEmergencyStop, estop
<1>1. CASE At(t, "trigger") /\ Return(t)
  BY <1>0, <1>1, ReturnKeeps
<1>2. CASE At(t, "trigger") /\ Call(t, "handler", "trigger_lock")
  <2>1. stack[t] # << >>
    BY <1>2 DEF IInv, ControlInv
  <2> QED
    BY <1>0, <1>2, <2>1, CallKeeps
<1>3. CASE At(t, "reset") /\ Return(t)
  BY <1>0, <1>3, ReturnKeeps
<1>4. CASE At(t, "reset") /\ Goto(t, "reset_store")
  BY <1>0, <1>4, GotoKeeps
<1>5. CASE At(t, "reset_store") /\ Goto(t, "handler")
  BY <1>0, <1>5, GotoKeeps
<1> QED
  BY <1>1, <1>2, <1>3, <1>4, <1>5 DEF engage, resetEmergencyStop

LEMMA FireHookStep ==
  ASSUME IInv, NEW t \in Threads, fireHook(t), UNCHANGED <<lifecycle, cycle, config>>
  PROVE  IInv'
<1> USE DEF At, Base, PCs, StartPC, StopPC, CyclePC
<1>0. worker' = worker /\ evaluationMutex' = evaluationMutex /\ hook' = hook
  BY DEF cycle, config, lifecycle
<1>1. ASSUME NEW l \in {"hook", "trigger_end"}, Goto(t, l), pc[t] \in {"trigger_lock", "hook"},
             callbackMutex' = t, l = "hook" => hook,
             \A u \in Threads : u # t => pc[u] \notin {"hook", "trigger_end"}
      PROVE  IInv'
  <2>1. /\ ControlInv' /\ CycleInv' /\ pc'[t] = l
        /\ \A u \in Threads : u # t => pc'[u] = pc[u]
    BY <1>0, <1>1, GotoControl, GotoCycle DEF IInv
  <2>2. WorkerInv'
    BY <1>0, <1>1, <2>1, WorkerKeeps DEF IInv
  <2>3. HookInv'
    BY <1>0, <1>1, <2>1 DEF HookInv
  <2> QED
    BY <2>1, <2>2, <2>3 DEF IInv
<1>2. CASE /\ At(t, "trigger_lock") /\ callbackMutex = Nobody /\ callbackMutex' = t
           /\ Goto(t, IF hook THEN "hook" ELSE "trigger_end")
  <2>1. \A u \in Threads : pc[u] \notin {"hook", "trigger_end"}
    BY <1>2, ThreadsAssumption DEF IInv, HookInv
  <2> QED
    BY <1>1, <1>2, <2>1
<1>3. CASE At(t, "hook") /\ Goto(t, "trigger_end") /\ callbackMutex' = callbackMutex
  <2>1. callbackMutex = t /\ \A u \in Threads : u # t => pc[u] \notin {"hook", "trigger_end"}
    BY <1>3 DEF IInv, HookInv
  <2> QED
    BY <1>1, <1>3, <2>1
<1>4. CASE At(t, "trigger_end") /\ Return(t) /\ callbackMutex' = Nobody
  <2>1. /\ ControlInv' /\ CycleInv' /\ pc'[t] \in BackPC
        /\ \A u \in Threads : u # t => pc'[u] = pc[u]
    BY <1>0, <1>4, ReturnControl, ReturnCycle DEF IInv
  <2>2. \A u \in Threads : u # t => pc[u] \notin {"hook", "trigger_end"}
    BY <1>4 DEF IInv, HookInv
  <2>3. HookInv'
    BY <2>1, <2>2 DEF HookInv, BackPC
  <2>4. WorkerInv'
    BY <1>0, <1>4, <2>1, WorkerKeeps DEF IInv
  <2> QED
    BY <2>1, <2>3, <2>4 DEF IInv
<1> QED
  BY <1>2, <1>3, <1>4 DEF fireHook, estop

\* User code calls back into the manager from inside a call.
LEMMA CallBackKeeps ==
  ASSUME IInv, NEW t \in Threads, NEW op \in UserOps, NEW back \in BackPC \ Base,
         CallBack(t, op, back), pc[t] \notin Base, back \in CyclePC => pc[t] \in CyclePC,
         worker' = worker, evaluationMutex' = evaluationMutex,
         callbackMutex' = callbackMutex, hook' = hook
  PROVE  IInv'
<1>1. op \in PCs \ (Base \cup CyclePC \cup {"hook", "trigger_end"})
  BY OpsAssumption DEF Ops, PCs, StartPC, StopPC, CyclePC, Base
<1>2. stack[t] # << >> /\ pc[t] # "gone"
  BY DEF IInv, ControlInv, Base
<1> QED
  BY <1>1, <1>2, CallKeeps DEF CallBack

LEMMA DispatchStep ==
  ASSUME IInv, NEW t \in Threads, dispatch(t), UNCHANGED <<lifecycle, cycle, estop, config>>
  PROVE  IInv'
<1> USE DEF At, Base, PCs, StartPC, StopPC, CyclePC, BackPC
<1>0. /\ worker' = worker /\ evaluationMutex' = evaluationMutex
      /\ callbackMutex' = callbackMutex /\ hook' = hook
  BY DEF cycle, config, lifecycle, estop
<1>1. CASE pc[t] \in {"handler", "handled"} /\ Return(t)
  BY <1>0, <1>1, ReturnKeeps
<1>2. CASE At(t, "handler") /\ \E op \in UserOps : CallBack(t, op, "handled")
  BY <1>0, <1>2, CallBackKeeps
<1> QED
  BY <1>1, <1>2 DEF dispatch

LEMMA EvaluateStep ==
  ASSUME IInv, NEW t \in Threads, evaluateAll(t), UNCHANGED <<lifecycle, estop, config>>
  PROVE  IInv'
<1> USE DEF At, Base, PCs, StartPC, StopPC, CyclePC, BackPC
<1>0. worker' = worker /\ callbackMutex' = callbackMutex /\ hook' = hook
  BY DEF config, lifecycle, estop
<1>1. CASE At(t, "evaluate") /\ evaluationMutex' = evaluationMutex
           /\ (Return(t) \/ Goto(t, "eval_lock"))
  BY <1>0, <1>1, GotoKeeps, ReturnKeeps
<1>2. CASE lockCycle(t)
  <2>1. /\ ControlInv' /\ CycleInv' /\ pc'[t] = "eval_begin"
        /\ \A u \in Threads : u # t => pc'[u] = pc[u]
    BY <1>2, GotoControl, LockCycleStep DEF IInv, lockCycle
  <2> QED
    BY <1>0, <1>2, <2>1, HookKeeps, WorkerKeeps DEF IInv, lockCycle
<1>3. CASE /\ pc[t] \in {"eval_begin", "eval_next", "policy", "verdict"}
           /\ \E l \in CyclePC : Goto(t, l)
           /\ evaluationMutex' = evaluationMutex
  BY <1>0, <1>3, GotoKeeps
<1>4. CASE /\ At(t, "policy") /\ \E op \in UserOps : CallBack(t, op, "verdict")
           /\ evaluationMutex' = evaluationMutex
  BY <1>0, <1>4, CallBackKeeps
<1>5. CASE /\ pc[t] \in {"verdict", "eval_emergency"} /\ evaluationMutex' = evaluationMutex
           /\ \E l \in {"handler", "trigger"}, back \in {"eval_next", "eval_emergency"} :
                Call(t, l, back)
  <2>1. stack[t] # << >>
    BY <1>5 DEF IInv, ControlInv
  <2> QED
    BY <1>0, <1>5, <2>1, CallKeeps
<1>6. CASE At(t, "eval_end") /\ Return(t)
  <2>1. /\ ControlInv' /\ CycleInv' /\ pc'[t] \in BackPC
        /\ \A u \in Threads : u # t => pc'[u] = pc[u]
    BY <1>6, ReturnControl, EndCycleStep DEF IInv
  <2> QED
    BY <1>0, <1>6, <2>1, HookKeeps, WorkerKeeps DEF IInv
<1> QED
  BY <1>1, <1>2, <1>3, <1>4, <1>5, <1>6 DEF evaluateAll, enterCycle, cycle

LEMMA LoopStep ==
  ASSUME IInv, evaluationLoop, UNCHANGED <<cycle, estop, config>>
  PROVE  IInv'
<1> USE DEF At, Base, PCs, StartPC, StopPC, CyclePC, BackPC
<1>0. /\ evaluationMutex' = evaluationMutex /\ callbackMutex' = callbackMutex /\ hook' = hook
      /\ Worker \in Threads
  BY DEF config, estop, cycle, Threads
<1>1. CASE /\ pc[Worker] \in {"publish", "loop", "sleep"} /\ worker' = worker
           /\ \E l \in {"loop", "sleep"} : Goto(Worker, l)
  BY <1>0, <1>1, GotoKeeps
<1>2. CASE At(Worker, "loop") /\ worker' = worker /\ Call(Worker, "evaluate", "sleep")
  <2>1. stack[Worker] = << >>
    BY <1>0, <1>2 DEF IInv, ControlInv
  <2> QED
    BY <1>0, <1>2, <2>1, CallKeeps
<1>3. CASE At(Worker, "loop") /\ worker' = "ended" /\ Goto(Worker, "gone")
  <2>1. /\ ControlInv' /\ CycleInv' /\ pc'[Worker] = "gone"
        /\ \A u \in Threads : u # Worker => pc'[u] = pc[u]
    BY <1>0, <1>3, GotoControl, GotoCycle DEF IInv
  <2> QED
    BY <1>0, <1>3, <2>1, HookKeeps DEF IInv, WorkerInv
<1> QED
  BY <1>1, <1>2, <1>3 DEF evaluationLoop

\* Callers enter from idle; registrations move no thread; a hook in use is not replaced.
LEMMA OutsideStep == IInv /\ Outside => IInv'
<1> SUFFICES ASSUME IInv, Outside PROVE IInv'
  OBVIOUS
<1>1. CASE \E t \in Clients, op \in ClientOps : Invoke(t, op)
  <2>1. PICK t \in Clients, op \in ClientOps : Invoke(t, op)
    BY <1>1
  <2>2. /\ t \in Threads /\ pc[t] = "idle" /\ "idle" \in BackPC \cap Base
        /\ pc[t] \in Base /\ "idle" \notin CyclePC
    BY <2>1 DEF Threads, Invoke, At, Base, BackPC, CyclePC
  <2>3. op \in PCs \ (Base \cup CyclePC \cup {"hook", "trigger_end"})
    BY OpsAssumption DEF Ops, PCs, StartPC, StopPC, CyclePC, Base
  <2>4. stack[t] = << >>
    BY <2>2 DEF IInv, ControlInv
  <2>5. worker' = worker /\ evaluationMutex' = evaluationMutex
        /\ callbackMutex' = callbackMutex /\ hook' = hook
    BY <2>1 DEF Invoke, cycle, estop, config
  <2> QED
    BY <2>1, <2>2, <2>3, <2>4, <2>5, CallKeeps DEF Invoke
<1>2. CASE \E p \in Policies : addOrRemovePolicy(p)
  BY <1>2, StillKeeps DEF addOrRemovePolicy, lifecycle, cycle, estop
<1>3. CASE registerOrUnregister
  BY <1>3, StillKeeps DEF registerOrUnregister, lifecycle, cycle, estop
<1>4. CASE \E b \in BOOLEAN : setEmergencyCallback(b)
  <2>1. callbackMutex = Nobody /\ UNCHANGED <<lifecycle, cycle, estop, control>>
    BY <1>4 DEF setEmergencyCallback
  <2>2. ControlInv' /\ WorkerInv'
    BY <2>1 DEF IInv, ControlInv, WorkerInv, control, lifecycle
  <2>3. CycleInv'
    BY <2>1 DEF IInv, CycleInv, Frame, Frames, control, cycle
  <2>4. HookInv'
    BY <2>1, ThreadsAssumption DEF IInv, HookInv, control, estop
  <2> QED
    BY <2>2, <2>3, <2>4 DEF IInv
<1> QED
  BY <1>1, <1>2, <1>3, <1>4 DEF Outside

LEMMA NextIInv == IInv /\ [Next]_vars => IInv'
<1> SUFFICES ASSUME IInv, [Next]_vars PROVE IInv'
  OBVIOUS
<1>1. CASE Outside
  BY <1>1, OutsideStep
<1>2. ASSUME NEW t \in Threads, Step(t) PROVE IInv'
  <2>1. CASE start(t) /\ UNCHANGED <<workerId, up, cycle, callbackMutex, owed, config>>
    BY <2>1, StartStep
  <2>2. CASE stop(t) /\ UNCHANGED <<terminated, cycle, estop, config>>
    BY <2>2, StopStep
  <2>3. CASE (engage(t) \/ resetEmergencyStop(t)) /\ UNCHANGED <<lifecycle, cycle, config>>
    BY <2>3, EngageStep
  <2>4. CASE fireHook(t) /\ UNCHANGED <<lifecycle, cycle, config>>
    BY <2>4, FireHookStep
  <2>5. CASE dispatch(t) /\ UNCHANGED <<lifecycle, cycle, estop, config>>
    BY <2>5, DispatchStep
  <2>6. CASE evaluateAll(t) /\ UNCHANGED <<lifecycle, estop, config>>
    BY <2>6, EvaluateStep
  <2>7. CASE evaluationLoop /\ UNCHANGED <<cycle, estop, config>>
    BY <2>7, LoopStep
  <2> QED
    BY <1>2, <2>1, <2>2, <2>3, <2>4, <2>5, <2>6, <2>7 DEF Step
<1>3. CASE UNCHANGED vars
  BY <1>3, StillKeeps DEF vars, lifecycle, cycle, estop, config
<1> QED
  BY <1>1, <1>2, <1>3 DEF Next

-----------------------------------------------------------------------------

\* Each thread's calls nest, evaluationMutex_ belongs to the thread inside a cycle and
\* callbackMutex to the one inside the hook: the invariant is inductive.
THEOREM Invariance == Spec => []IInv
<1> QED
  BY InitIInv, NextIInv, PTL DEF Spec

\* C2: once setEmergencyCallback(nullptr) has returned no thread is inside the hook,
\* whoever triggers, resets, starts or stops the manager, and from where.
THEOREM HookIsQuiet == Spec => []ClearedHookIsQuiet
<1>1. IInv => ClearedHookIsQuiet
  BY DEF IInv, HookInv, ClearedHookIsQuiet, At
<1> QED
  BY <1>1, Invariance, PTL

\* C12: cycles are serialised and entered once, on the worker and on demand, also when a
\* policy calls evaluateAll() back or a reset runs handlers that do.
THEOREM CyclesSerialised == Spec => []OneCycle
<1>1. IInv => OneCycle
  <2> SUFFICES ASSUME IInv, NEW t \in Threads
               PROVE  LET inCycle == {i \in 1..Len(stack[t]) : stack[t][i] \in CyclePC}
                                       \cup (IF pc[t] \in CyclePC THEN {0} ELSE {})
                      IN  /\ Cardinality(inCycle) <= 1
                          /\ inCycle # {} => evaluationMutex = t
    BY DEF OneCycle
  <2> DEFINE inCycle == {i \in 1..Len(stack[t]) : stack[t][i] \in CyclePC}
                          \cup (IF pc[t] \in CyclePC THEN {0} ELSE {})
  <2>1. ASSUME NEW i \in inCycle PROVE i \in Frames(t) /\ Frame(t, i) \in CyclePC
    <3>1. Len(stack[t]) \in Nat
      BY LenProperties DEF IInv, ControlInv
    <3> QED
      BY <3>1, <2>1 DEF Frames, Frame
  <2>2. \A i, j \in inCycle : i = j
    BY <2>1 DEF IInv, CycleInv
  <2>3. inCycle # {} => evaluationMutex = t
    BY <2>1 DEF IInv, CycleInv
  <2> HIDE DEF inCycle
  <2>4. Cardinality(inCycle) <= 1
    <3>1. CASE inCycle = {}
      BY <3>1, FS_EmptySet
    <3>2. CASE inCycle # {}
      <4>1. PICK i \in inCycle : TRUE
        BY <3>2
      <4>2. inCycle = {i}
        BY <4>1, <2>2
      <4>3. Cardinality({i}) = 1
        BY FS_Singleton
      <4> QED
        BY <4>2, <4>3
    <3> QED
      BY <3>1, <3>2
  <2> QED
    BY <2>3, <2>4 DEF inCycle
<1> QED
  BY <1>1, Invariance, PTL

-----------------------------------------------------------------------------
(* The hook is called once for each e-stop that engaged.                    *)

\* The frames of a thread, counted from the outermost, in which it has engaged the e-stop
\* and has not come to the hook.
Armed ==
  {f \in Threads \X Nat : /\ f[2] <= Len(stack[f[1]])
                          /\ Frame(f[1], Len(stack[f[1]]) - f[2]) = "trigger_lock"}

OwedInv == IsFiniteSet(Armed) /\ owed = Cardinality(Armed)

\* The innermost frame of a thread.
Top(t) == <<t, Len(stack[t])>>

\* A frame of Armed, position by position.
LEMMA ArmedFrame ==
  ASSUME ControlInv, NEW t \in Threads
  PROVE  /\ Len(stack[t]) \in Nat
         /\ Top(t) \in Threads \X Nat
         /\ (Top(t) \in Armed <=> pc[t] = "trigger_lock")
         /\ \A h \in Nat : <<t, h>> \in Armed <=>
              h <= Len(stack[t]) /\ Frame(t, Len(stack[t]) - h) = "trigger_lock"
<1>1. Len(stack[t]) \in Nat
  BY LenProperties DEF ControlInv
<1>2. ASSUME NEW h \in Nat
      PROVE  <<t, h>> \in Armed <=>
               h <= Len(stack[t]) /\ Frame(t, Len(stack[t]) - h) = "trigger_lock"
  BY DEF Armed
<1>3. Top(t) \in Armed <=> pc[t] = "trigger_lock"
  <2>1. Len(stack[t]) - Len(stack[t]) = 0 /\ Len(stack[t]) <= Len(stack[t])
    BY <1>1
  <2> QED
    BY <1>1, <1>2, <2>1 DEF Top, Frame
<1> QED
  BY <1>1, <1>2, <1>3 DEF Top

\* A step of thread t changes only the frames of t.
LEMMA ArmedElsewhere ==
  ASSUME NEW t \in Threads, \A u \in Threads : u # t => pc'[u] = pc[u] /\ stack'[u] = stack[u],
         NEW X, \A h \in Nat : <<t, h>> \in Armed' <=> <<t, h>> \in X,
         X \subseteq Threads \X Nat, \A f \in X : f[1] # t => f \in Armed,
         \A f \in Armed : f[1] # t => f \in X
  PROVE  Armed' = X
<1>1. ASSUME NEW f \in Threads \X Nat PROVE f \in Armed' <=> f \in X
  <2>1. PICK u \in Threads, h \in Nat : f = <<u, h>>
    OBVIOUS
  <2>2. CASE u = t
    BY <2>1, <2>2
  <2>3. CASE u # t
    <3>1. f \in Armed' <=> f \in Armed
      BY <2>1, <2>3 DEF Armed, Frame
    <3> QED
      BY <2>1, <2>3, <3>1
  <2> QED
    BY <2>2, <2>3
<1>2. Armed' \subseteq Threads \X Nat
  BY DEF Armed
<1> QED
  BY <1>1, <1>2

\* Within a call a thread arms or disarms its innermost frame only.
LEMMA ArmedGoto ==
  ASSUME ControlInv, NEW t \in Threads, NEW l \in PCs \ {"trigger_lock"}, Goto(t, l)
  PROVE  Armed' = Armed \ {Top(t)}
<1>1. /\ stack' = stack /\ pc'[t] = l
      /\ \A u \in Threads : u # t => pc'[u] = pc[u] /\ stack'[u] = stack[u]
  BY DEF Goto, ControlInv
<1>2. Len(stack[t]) \in Nat
  BY ArmedFrame
<1>3. ASSUME NEW h \in Nat PROVE <<t, h>> \in Armed' <=> <<t, h>> \in Armed \ {Top(t)}
  <2>1. <<t, h>> \in Armed' <=> h <= Len(stack[t]) /\ Frame(t, Len(stack[t]) - h)' = "trigger_lock"
    BY <1>1 DEF Armed, Frame
  <2>2. CASE h = Len(stack[t])
    <3>1. Len(stack[t]) - h = 0
      BY <2>2, <1>2
    <3> QED
      BY <2>1, <2>2, <3>1, <1>1 DEF Frame, Top
  <2>3. CASE h # Len(stack[t]) /\ h <= Len(stack[t])
    <3>1. Len(stack[t]) - h # 0 /\ <<t, h>> # Top(t)
      BY <2>3, <1>2 DEF Top
    <3>2. Frame(t, Len(stack[t]) - h)' = Frame(t, Len(stack[t]) - h)
      BY <3>1, <1>1 DEF Frame
    <3> QED
      BY <2>1, <3>1, <3>2, ArmedFrame
  <2>4. CASE ~(h <= Len(stack[t]))
    BY <2>1, <2>4, ArmedFrame
  <2> QED
    BY <2>2, <2>3, <2>4
<1> DEFINE X == Armed \ {Top(t)}
<1>4. /\ X \subseteq Threads \X Nat /\ \A f \in X : f[1] # t => f \in Armed
      /\ \A f \in Armed : f[1] # t => f \in X
  BY DEF Armed, Top
<1>5. \A h \in Nat : <<t, h>> \in Armed' <=> <<t, h>> \in X
  BY <1>3
<1> HIDE DEF X
<1>6. Armed' = X
  BY <1>1, <1>4, <1>5, ArmedElsewhere
<1> QED
  BY <1>6 DEF X

\* A call arms the frame it leaves if it is to return to the hook's mutex.
LEMMA ArmedCall ==
  ASSUME ControlInv, NEW t \in Threads, NEW l \in PCs \ (Base \cup {"trigger_lock"}),
         NEW back \in BackPC, Call(t, l, back), back \in Base <=> stack[t] = << >>,
         pc[t] # "trigger_lock"
  PROVE  Armed' = IF back = "trigger_lock" THEN Armed \cup {Top(t)} ELSE Armed
<1> PICK n \in Nat : n = Len(stack[t])
  BY ArmedFrame
<1> DEFINE X == IF back = "trigger_lock" THEN Armed \cup {Top(t)} ELSE Armed
<1>1. /\ \A u \in Threads : u # t => pc'[u] = pc[u] /\ stack'[u] = stack[u]
      /\ pc'[t] = l /\ Len(stack'[t]) = n + 1 /\ stack'[t][1] = back
      /\ \A i \in 1..n : stack'[t][i + 1] = stack[t][i]
  BY CallControl
<1>2. n \in Nat /\ Top(t) \notin Armed /\ Top(t) = <<t, n>> /\ Top(t) \in Threads \X Nat
  BY ArmedFrame DEF Top
<1>3. ASSUME NEW h \in Nat PROVE <<t, h>> \in Armed' <=> <<t, h>> \in X
  <2>1. <<t, h>> \in Armed' <=> h <= n + 1 /\ Frame(t, (n + 1) - h)' = "trigger_lock"
    BY <1>1 DEF Armed, Frame
  <2>2. CASE h = n + 1
    <3>1. (n + 1) - h = 0 /\ ~(h <= n) /\ h # n
      BY <2>2, <1>2
    <3> QED
      BY <2>1, <3>1, <1>1, <1>2, ArmedFrame DEF Frame
  <2>3. CASE h = n
    <3>1. (n + 1) - h = 1 /\ h <= n + 1
      BY <2>3, <1>2
    <3> QED
      BY <2>1, <2>3, <3>1, <1>1, <1>2 DEF Frame
  <2>4. CASE h < n
    <3>1. /\ n - h \in 1..n /\ (n + 1) - h = (n - h) + 1 /\ (n - h) + 1 # 0 /\ n - h # 0
          /\ h <= n + 1 /\ h <= n /\ <<t, h>> # Top(t)
      BY <2>4, <1>2
    <3>2. Frame(t, (n + 1) - h)' = Frame(t, n - h)
      BY <3>1, <1>1 DEF Frame
    <3> QED
      BY <2>1, <3>1, <3>2, ArmedFrame
  <2>5. CASE h > n + 1
    <3>1. ~(h <= n + 1) /\ ~(h <= n) /\ h # n
      BY <2>5, <1>2
    <3> QED
      BY <2>1, <3>1, <1>2, ArmedFrame
  <2> QED
    BY <2>2, <2>3, <2>4, <2>5, <1>2
<1>4. /\ X \subseteq Threads \X Nat /\ \A f \in X : f[1] # t => f \in Armed
      /\ \A f \in Armed : f \in X
  BY <1>2 DEF Armed
<1> HIDE DEF X
<1>5. Armed' = X
  BY <1>1, <1>3, <1>4, ArmedElsewhere
<1> QED
  BY <1>5 DEF X

\* A return leaves what is armed further out.
LEMMA ArmedReturn ==
  ASSUME ControlInv, NEW t \in Threads, Return(t), pc[t] \notin Base, pc[t] # "trigger_lock"
  PROVE  Armed' = Armed
<1> PICK n \in Nat : n = Len(stack'[t])
  BY ReturnFrames
<1>1. /\ \A u \in Threads : u # t => pc'[u] = pc[u] /\ stack'[u] = stack[u]
      /\ n \in Nat /\ Len(stack[t]) = n + 1
      /\ \A i \in 0..n : Frame(t, i)' = Frame(t, i + 1)
  BY ReturnFrames
<1>2. ASSUME NEW h \in Nat PROVE <<t, h>> \in Armed' <=> <<t, h>> \in Armed
  <2>1. <<t, h>> \in Armed' <=> h <= n /\ Frame(t, n - h)' = "trigger_lock"
    BY DEF Armed, Frame
  <2>2. CASE h <= n
    <3>1. n - h \in 0..n /\ (n - h) + 1 = (n + 1) - h /\ h <= n + 1
      BY <2>2, <1>1
    <3>2. Frame(t, n - h)' = Frame(t, (n - h) + 1)
      BY <3>1, <1>1
    <3>3. Frame(t, n - h)' = Frame(t, Len(stack[t]) - h) /\ h <= Len(stack[t])
      BY <3>1, <3>2, <1>1
    <3> QED
      BY <2>1, <2>2, <3>3, ArmedFrame
  <2>3. CASE h = n + 1
    <3>1. Top(t) \notin Armed /\ Top(t) = <<t, h>> /\ ~(h <= n)
      BY <2>3, <1>1, ArmedFrame DEF Top
    <3> QED
      BY <2>1, <3>1
  <2>4. CASE h > n + 1
    <3>1. ~(h <= n) /\ ~(h <= n + 1)
      BY <2>4, <1>1
    <3> QED
      BY <2>1, <3>1, <1>1, ArmedFrame
  <2> QED
    BY <2>2, <2>3, <2>4, <1>1
<1>3. Armed \subseteq Threads \X Nat
  BY DEF Armed
<1> QED
  BY <1>1, <1>2, <1>3, ArmedElsewhere

\* A step that leaves the armed frames as they are.
LEMMA OwedKeeps ==
  ASSUME OwedInv, Armed' = Armed, owed' = owed
  PROVE  OwedInv'
BY DEF OwedInv

\* A step within a call, into a call or out of one that is not about the hook.
LEMMA PlainGoto ==
  ASSUME ControlInv, OwedInv, NEW t \in Threads, NEW l \in PCs \ {"trigger_lock"}, Goto(t, l),
         pc[t] # "trigger_lock", owed' = owed
  PROVE  OwedInv'
<1>1. Armed' = Armed \ {Top(t)} /\ Top(t) \notin Armed
  BY ArmedGoto, ArmedFrame
<1>2. Armed' = Armed
  BY <1>1
<1> QED
  BY <1>2, OwedKeeps

LEMMA PlainCall ==
  ASSUME ControlInv, OwedInv, NEW t \in Threads, NEW l \in PCs \ (Base \cup {"trigger_lock"}),
         NEW back \in BackPC \ {"trigger_lock"}, Call(t, l, back),
         back \in Base <=> stack[t] = << >>, pc[t] # "trigger_lock", owed' = owed
  PROVE  OwedInv'
<1>1. Armed' = Armed
  BY ArmedCall
<1> QED
  BY <1>1, OwedKeeps

LEMMA PlainReturn ==
  ASSUME ControlInv, OwedInv, NEW t \in Threads, Return(t), pc[t] \notin Base,
         pc[t] # "trigger_lock", owed' = owed
  PROVE  OwedInv'
<1>1. Armed' = Armed
  BY ArmedReturn
<1> QED
  BY <1>1, OwedKeeps

LEMMA PlainStill ==
  ASSUME OwedInv, UNCHANGED <<control, owed>>
  PROVE  OwedInv'
<1>1. Armed' = Armed
  BY DEF Armed, Frame, control
<1> QED
  BY <1>1, OwedKeeps

\* The one that engages the e-stop owes a call of the hook, and gives it when it has the mutex.
LEMMA OwedEngage ==
  ASSUME ControlInv, OwedInv, NEW t \in Threads, engage(t) \/ fireHook(t) \/ resetEmergencyStop(t)
  PROVE  OwedInv'
<1> USE DEF At, Base, PCs, StartPC, StopPC, CyclePC, BackPC
<1>1. CASE At(t, "trigger") /\ Return(t) /\ owed' = owed
  BY <1>1, PlainReturn
<1>2. CASE At(t, "trigger") /\ Call(t, "handler", "trigger_lock") /\ owed' = owed + 1
  <2>1. stack[t] # << >>
    BY <1>2 DEF ControlInv
  <2>2. Armed' = Armed \cup {Top(t)}
    BY <1>2, <2>1, ArmedCall
  <2>3. Top(t) \notin Armed
    BY <1>2, ArmedFrame
  <2> QED
    BY <1>2, <2>2, <2>3, FS_AddElement DEF OwedInv
<1>3. CASE At(t, "trigger_lock") /\ owed' = owed - 1 /\ \E l \in {"hook", "trigger_end"} : Goto(t, l)
  <2>1. Armed' = Armed \ {Top(t)}
    BY <1>3, ArmedGoto
  <2>2. Top(t) \in Armed
    BY <1>3, ArmedFrame
  <2> QED
    BY <1>3, <2>1, <2>2, FS_RemoveElement DEF OwedInv
<1>4. CASE At(t, "hook") /\ Goto(t, "trigger_end") /\ owed' = owed
  BY <1>4, PlainGoto
<1>5. CASE pc[t] \in {"trigger_end", "reset"} /\ Return(t) /\ owed' = owed
  BY <1>5, PlainReturn
<1>6. CASE pc[t] \in {"reset", "reset_store"} /\ owed' = owed /\ \E l \in {"reset_store", "handler"} : Goto(t, l)
  BY <1>6, PlainGoto
<1> QED
  BY <1>1, <1>2, <1>3, <1>4, <1>5, <1>6 DEF engage, fireHook, resetEmergencyStop, estop

\* start() and stop() stay in one call of their own.
LEMMA OwedLifecycle ==
  ASSUME IInv, OwedInv, NEW t \in Threads, start(t) \/ stop(t), owed' = owed
  PROVE  OwedInv'
<1> USE DEF At, Base, PCs, StartPC, StopPC
<1>1. CASE pc[t] \in StartPC \cup StopPC /\ \E l \in StartPC \cup StopPC : Goto(t, l)
  BY <1>1, PlainGoto DEF IInv
<1>2. CASE pc[t] \in StartPC \cup StopPC /\ Return(t)
  BY <1>2, PlainReturn DEF IInv
<1>3. CASE UNCHANGED control
  BY <1>3, PlainStill
<1>4. CASE /\ At(t, "start_spawn") /\ worker = "none"
           /\ pc' = [pc EXCEPT ![t] = "start_unlock", ![Worker] = "publish"] /\ UNCHANGED stack
  <2>1. /\ pc[Worker] = "gone" /\ t # Worker /\ Worker \in Threads /\ pc \in [Threads -> PCs]
    BY <1>4 DEF IInv, WorkerInv, ControlInv, Threads
  <2>2. \A u \in Threads : pc'[u] = "trigger_lock" <=> pc[u] = "trigger_lock"
    BY <1>4, <2>1
  <2>3. ASSUME NEW f \in Threads \X Nat PROVE f \in Armed' <=> f \in Armed
    BY <1>4, <2>2 DEF Armed, Frame
  <2>4. Armed' = Armed
    BY <2>3 DEF Armed
  <2> QED
    BY <2>4, OwedKeeps
<1> QED
  BY <1>1, <1>2, <1>3, <1>4 DEF start, stop

\* Cycles, handlers and the loop call and return, and leave the hook alone.
LEMMA OwedUserCode ==
  ASSUME ControlInv, OwedInv, NEW t \in Threads, owed' = owed,
         dispatch(t) \/ evaluateAll(t) \/ (t = Worker /\ evaluationLoop)
  PROVE  OwedInv'
<1> USE DEF At, Base, PCs, StartPC, StopPC, CyclePC, BackPC
<1> DEFINE Here == CyclePC \cup {"handler", "handled", "evaluate", "eval_lock"}
<1>1. CASE pc[t] \in Here \cup {"publish", "loop", "sleep"} /\ \E l \in PCs \ {"trigger_lock"} : Goto(t, l)
  BY <1>1, PlainGoto
<1>2. CASE pc[t] \in Here /\ Return(t)
  BY <1>2, PlainReturn
<1>3. CASE /\ pc[t] \in Here
           /\ \E op \in UserOps \cup {"handler", "trigger"}, back \in BackPC \ (Base \cup {"trigger_lock"}) :
                Call(t, op, back)
  <2>1. PICK op \in UserOps \cup {"handler", "trigger"}, back \in BackPC \ (Base \cup {"trigger_lock"}) :
          Call(t, op, back)
    BY <1>3
  <2>2. op \in PCs \ (Base \cup {"trigger_lock"})
    BY OpsAssumption DEF Ops
  <2>3. stack[t] # << >>
    BY <1>3 DEF ControlInv
  <2> QED
    BY <1>3, <2>1, <2>2, <2>3, PlainCall
<1>4. CASE At(t, "loop") /\ Call(t, "evaluate", "sleep")
  <2>1. stack[t] = << >>
    BY <1>4 DEF ControlInv
  <2> QED
    BY <1>4, <2>1, PlainCall
<1>5. CASE dispatch(t)
  BY <1>2, <1>3, <1>5 DEF dispatch, CallBack
<1>6. CASE evaluateAll(t)
  BY <1>1, <1>2, <1>3, <1>6 DEF evaluateAll, enterCycle, lockCycle, CallBack
<1>7. CASE t = Worker /\ evaluationLoop
  BY <1>1, <1>4, <1>7 DEF evaluationLoop
<1> QED
  BY <1>5, <1>6, <1>7

LEMMA NextOwed == IInv /\ OwedInv /\ [Next]_vars => OwedInv'
<1> SUFFICES ASSUME IInv, OwedInv, [Next]_vars PROVE OwedInv'
  OBVIOUS
<1>0. ControlInv
  BY DEF IInv
<1>1. CASE UNCHANGED vars
  BY <1>1, PlainStill DEF vars, estop
<1>2. CASE Outside
  <2>1. ASSUME NEW t \in Clients, NEW op \in ClientOps, Invoke(t, op) PROVE OwedInv'
    <3>1. /\ t \in Threads /\ pc[t] = "idle" /\ owed' = owed /\ Call(t, op, "idle")
          /\ op \in PCs \ (Base \cup {"trigger_lock"})
      BY <2>1, OpsAssumption
      DEF Invoke, At, Threads, estop, Ops, PCs, StartPC, StopPC, CyclePC, Base
    <3>2. "idle" \in BackPC \ {"trigger_lock"} /\ "idle" \in Base /\ stack[t] = << >>
      BY <1>0, <3>1 DEF BackPC, Base, ControlInv
    <3> QED
      BY <1>0, <3>1, <3>2, PlainCall
  <2>2. CASE \/ \E p \in Policies : addOrRemovePolicy(p)
             \/ registerOrUnregister
             \/ \E b \in BOOLEAN : setEmergencyCallback(b)
    BY <2>2, PlainStill DEF addOrRemovePolicy, registerOrUnregister, setEmergencyCallback, estop
  <2> QED
    BY <1>2, <2>1, <2>2 DEF Outside
<1>3. ASSUME NEW t \in Threads, Step(t) PROVE OwedInv'
  <2>1. CASE start(t) \/ stop(t)
    <3>1. owed' = owed
      BY <1>3, <2>1
      DEF Step, estop, cycle, start, stop, At, engage, fireHook, resetEmergencyStop, dispatch,
          evaluateAll, enterCycle, lockCycle, evaluationLoop
    <3> QED
      BY <2>1, <3>1, OwedLifecycle
  <2>2. CASE engage(t) \/ fireHook(t) \/ resetEmergencyStop(t)
    BY <1>0, <2>2, OwedEngage
  <2>3. CASE (dispatch(t) \/ evaluateAll(t) \/ (t = Worker /\ evaluationLoop)) /\ owed' = owed
    BY <1>0, <2>3, OwedUserCode
  <2> QED
    BY <1>3, <2>1, <2>2, <2>3 DEF Step, estop
<1> QED
  BY <1>1, <1>2, <1>3 DEF Next

\* C2: an e-stop that engages calls the hook at most once, whatever resets it, engages it
\* again or replaces the hook meanwhile, in every environment.
THEOREM HookFiresOnce == Spec => []FiresOncePerEngagement
<1>1. Init => OwedInv
  <2>1. ASSUME Init PROVE Armed = {}
    <3>1. \A t \in Threads : pc[t] # "trigger_lock" /\ Len(stack[t]) = 0
      BY <2>1 DEF Init
    <3>2. ASSUME NEW f \in Armed PROVE FALSE
      <4>1. f[1] \in Threads /\ f[2] \in Nat /\ f[2] <= 0 /\ Len(stack[f[1]]) = 0
        BY <3>1, <3>2 DEF Armed
      <4>2. 0 - f[2] = 0
        BY <4>1
      <4> QED
        BY <3>1, <3>2, <4>1, <4>2 DEF Armed, Frame
    <3> QED
      BY <3>2
  <2> QED
    BY <2>1, FS_EmptySet DEF Init, OwedInv
<1>2. Spec => []OwedInv
  BY <1>1, NextOwed, Invariance, PTL DEF Spec
<1>3. OwedInv => FiresOncePerEngagement
  BY FS_CardinalityType DEF OwedInv, FiresOncePerEngagement
<1> QED
  BY <1>2, <1>3, PTL

-----------------------------------------------------------------------------
(* start() and stop() under the discipline the class asks of its callers.   *)

\* One start() at a time and no stop() beside it, the handle empty until it spawns, and
\* nothing in the handle unless start() was called and no stop() from outside since.
LifeInv ==
  /\ \A t \in Threads : pc[t] \in StartPC =>
       /\ up
       /\ \A u \in Threads : pc[u] \notin StopPC /\ (pc[u] \in StartPC => u = t)
       /\ (pc[t] # "start_unlock" => worker = "none")
  /\ (worker # "none" => up)
  /\ ~terminated /\ up \in BOOLEAN

\* A step of a thread that enters neither start() nor stop().
LEMMA LifeKeeps ==
  ASSUME LifeInv, NEW t \in Threads, \A u \in Threads : u # t => pc'[u] = pc[u],
         pc'[t] \notin StartPC, pc'[t] \in StopPC => pc[t] \in StopPC \/ ~Starting,
         UNCHANGED <<worker, up, terminated>>
  PROVE  LifeInv'
BY DEF LifeInv, Starting

\* A step within a call, into a call that is not start(), or out of one.
LEMMA LifeGoto ==
  ASSUME IInv, LifeInv, NEW t \in Threads, NEW l \in PCs \ StartPC, Goto(t, l),
         l \in StopPC => pc[t] \in StopPC, UNCHANGED <<worker, up, terminated>>
  PROVE  LifeInv'
<1>1. pc'[t] = l /\ \A u \in Threads : u # t => pc'[u] = pc[u]
  BY DEF Goto, IInv, ControlInv
<1> QED
  BY <1>1, LifeKeeps

LEMMA LifeCall ==
  ASSUME IInv, LifeInv, NEW t \in Threads, NEW l \in PCs \ StartPC, NEW back, Call(t, l, back),
         l \in StopPC => ~Starting, UNCHANGED <<worker, up, terminated>>
  PROVE  LifeInv'
<1>1. pc'[t] = l /\ \A u \in Threads : u # t => pc'[u] = pc[u]
  BY DEF Call, IInv, ControlInv
<1> QED
  BY <1>1, LifeKeeps

LEMMA LifeReturn ==
  ASSUME IInv, LifeInv, NEW t \in Threads, Return(t), pc[t] \notin Base,
         UNCHANGED <<worker, up, terminated>>
  PROVE  LifeInv'
<1>1. pc'[t] \in BackPC /\ \A u \in Threads : u # t => pc'[u] = pc[u]
  BY ReturnControl DEF IInv
<1>2. pc'[t] \notin StartPC \cup StopPC
  BY <1>1 DEF BackPC, StartPC, StopPC
<1> QED
  BY <1>1, <1>2, LifeKeeps

LEMMA LifeStart ==
  ASSUME IInv, LifeInv, NEW t \in Threads, start(t), UNCHANGED up
  PROVE  LifeInv'
<1> USE DEF At
<1>0. pc \in [Threads -> PCs]
  BY DEF IInv, ControlInv
<1>1. ASSUME NEW l \in StartPC, pc[t] \in StartPC \ {"start_unlock"}, Goto(t, l),
             UNCHANGED <<worker, terminated>>
      PROVE  LifeInv'
  <2>1. pc'[t] = l /\ \A u \in Threads : u # t => pc'[u] = pc[u]
    BY <1>0, <1>1 DEF Goto
  <2> QED
    BY <1>1, <2>1 DEF LifeInv, StopPC, StartPC
<1>2. CASE /\ At(t, "start_spawn") /\ worker = "none" /\ UNCHANGED terminated
           /\ pc' = [pc EXCEPT ![t] = "start_unlock", ![Worker] = "publish"]
  <2>1. pc[Worker] = "gone" /\ t # Worker /\ Worker \in Threads
    BY <1>2 DEF IInv, WorkerInv, Threads
  <2>2. /\ pc'[t] = "start_unlock" /\ pc'[Worker] = "publish"
        /\ \A u \in Threads \ {t, Worker} : pc'[u] = pc[u]
    BY <1>0, <1>2, <2>1
  <2> QED
    BY <1>2, <2>1, <2>2 DEF LifeInv, StopPC, StartPC
<1>3. CASE At(t, "start_spawn") /\ worker # "none"
  BY <1>3 DEF LifeInv, StartPC
<1>4. CASE At(t, "start_unlock") /\ Return(t) /\ UNCHANGED <<worker, terminated>>
  BY <1>4, LifeReturn DEF Base
<1>5. {"start_exchange", "start_clear", "start_spawn", "start_unlock"} \subseteq StartPC
  BY DEF StartPC
<1> QED
  BY <1>1, <1>2, <1>3, <1>4, <1>5 DEF start, StartPC

LEMMA LifeStop ==
  ASSUME IInv, LifeInv, NEW t \in Threads, stop(t), UNCHANGED terminated
  PROVE  LifeInv'
<1> USE DEF At
<1>1. CASE pc[t] \in StopPC /\ UNCHANGED <<worker, up>> /\ \E l \in StopPC : Goto(t, l)
  BY <1>1, LifeGoto DEF StopPC, StartPC, PCs
<1>2. CASE pc[t] \in StopPC /\ UNCHANGED <<worker, up>> /\ Return(t)
  BY <1>2, LifeReturn DEF StopPC, Base
<1>3. CASE At(t, "stop_join") /\ worker' = "none" /\ up' = FALSE /\ Return(t)
  <2>1. pc'[t] \in BackPC /\ \A u \in Threads : u # t => pc'[u] = pc[u]
    BY <1>3, ReturnControl DEF IInv, Base
  <2>2. pc'[t] \notin StartPC /\ \A u \in Threads : pc[u] \notin StartPC
    BY <1>3, <2>1 DEF LifeInv, BackPC, StartPC, StopPC
  <2> QED
    BY <1>3, <2>1, <2>2 DEF LifeInv
<1> QED
  BY <1>1, <1>2, <1>3 DEF stop, StopPC

\* User code may stop the manager, which is refused while another thread starts it.
LEMMA LifeUserCode ==
  ASSUME IInv, LifeInv, "overlap" \notin Env, NEW t \in Threads, UNCHANGED <<worker, up, terminated>>,
         dispatch(t) \/ evaluateAll(t) \/ engage(t) \/ fireHook(t) \/ resetEmergencyStop(t)
  PROVE  LifeInv'
<1> USE DEF At
<1>1. ASSUME \E l \in PCs \ (StartPC \cup StopPC) : Goto(t, l) PROVE LifeInv'
  BY <1>1, LifeGoto
<1>2. ASSUME pc[t] \notin Base, Return(t) PROVE LifeInv'
  BY <1>2, LifeReturn
<1>3. ASSUME NEW l \in {"handler", "trigger"}, NEW back, Call(t, l, back) PROVE LifeInv'
  <2>1. l \in PCs \ StartPC /\ l \notin StopPC
    BY DEF PCs, StartPC, StopPC
  <2> QED
    BY <1>3, <2>1, LifeCall
<1>4. ASSUME NEW op \in UserOps, NEW back, CallBack(t, op, back) PROVE LifeInv'
  <2>1. op \in PCs \ StartPC /\ (op \in StopPC => op = "stop")
    BY OpsAssumption DEF Ops, PCs, StartPC, StopPC
  <2>2. Call(t, op, back) /\ (op = "stop" => ~Starting)
    BY <1>4 DEF CallBack, Disciplined
  <2> QED
    BY <2>1, <2>2, LifeCall
<1>5. {"handler", "handled", "trigger", "trigger_lock", "hook", "trigger_end", "reset", "reset_store",
       "evaluate", "eval_lock"} \cup CyclePC \subseteq PCs \ (StartPC \cup StopPC \cup Base)
  BY DEF PCs, StartPC, StopPC, CyclePC, Base
<1>6. CASE dispatch(t)
  BY <1>2, <1>4, <1>5, <1>6 DEF dispatch
<1>7. CASE evaluateAll(t)
  BY <1>1, <1>2, <1>3, <1>4, <1>5, <1>7 DEF evaluateAll, enterCycle, lockCycle, CyclePC
<1>8. CASE engage(t) \/ fireHook(t) \/ resetEmergencyStop(t)
  BY <1>1, <1>2, <1>3, <1>5, <1>8 DEF engage, fireHook, resetEmergencyStop
<1> QED
  BY <1>6, <1>7, <1>8

LEMMA LifeLoop ==
  ASSUME IInv, LifeInv, evaluationLoop, UNCHANGED <<up, terminated>>
  PROVE  LifeInv'
<1> USE DEF At
<1>0. Worker \in Threads /\ {"loop", "sleep", "gone", "evaluate"} \subseteq PCs \ (StartPC \cup StopPC)
  BY DEF Threads, PCs, StartPC, StopPC
<1>1. CASE UNCHANGED worker /\ \E l \in {"loop", "sleep"} : Goto(Worker, l)
  BY <1>0, <1>1, LifeGoto
<1>2. CASE UNCHANGED worker /\ Call(Worker, "evaluate", "sleep")
  BY <1>0, <1>2, LifeCall
<1>3. CASE pc[Worker] = "loop" /\ worker' = "ended" /\ Goto(Worker, "gone")
  <2>1. worker = "running" /\ up
    BY <1>3 DEF IInv, WorkerInv, LifeInv
  <2>2. pc'[Worker] = "gone" /\ \A u \in Threads : u # Worker => pc'[u] = pc[u]
    BY <1>0, <1>3 DEF Goto, IInv, ControlInv
  <2> QED
    BY <1>0, <1>3, <2>1, <2>2 DEF LifeInv
<1> QED
  BY <1>1, <1>2, <1>3 DEF evaluationLoop

LEMMA NextLife ==
  ASSUME "overlap" \notin Env
  PROVE  IInv /\ LifeInv /\ [Next]_vars => LifeInv'
<1> SUFFICES ASSUME IInv, LifeInv, [Next]_vars PROVE LifeInv'
  OBVIOUS
<1>1. ASSUME UNCHANGED <<control, worker, up, terminated>> PROVE LifeInv'
  BY <1>1 DEF LifeInv, control
<1>2. CASE Outside
  <2>1. ASSUME NEW t \in Clients, NEW op \in ClientOps, Invoke(t, op) PROVE LifeInv'
    <3>1. /\ t \in Threads /\ Call(t, op, "idle") /\ up' = (up \/ op = "start")
          /\ UNCHANGED <<worker, terminated>> /\ op \in PCs
      BY <2>1, OpsAssumption DEF Invoke, Threads, Ops, PCs, StartPC, StopPC, CyclePC
    <3>2. pc'[t] = op /\ \A u \in Threads : u # t => pc'[u] = pc[u]
      BY <3>1 DEF Call, IInv, ControlInv
    <3>3. CASE op = "start"
      <4>1. ~up /\ ~Starting /\ ~Stopping
        BY <2>1, <3>3 DEF Invoke, Disciplined
      <4> QED
        BY <3>1, <3>2, <3>3, <4>1 DEF LifeInv, Starting, Stopping, StopPC
    <3>4. CASE op # "start"
      <4>1. op \notin StartPC /\ (op \in StopPC => ~Starting)
        BY <2>1, <3>4, OpsAssumption DEF Invoke, Disciplined, Ops, StartPC, StopPC
      <4>2. up' = up
        BY <2>1, <3>4 DEF Invoke, LifeInv
      <4> QED
        BY <3>1, <4>1, <4>2, LifeCall
    <3> QED
      BY <3>3, <3>4
  <2> QED
    BY <1>1, <1>2, <2>1
    DEF Outside, addOrRemovePolicy, registerOrUnregister, setEmergencyCallback, lifecycle
<1>3. ASSUME NEW t \in Threads, Step(t) PROVE LifeInv'
  <2>1. CASE start(t) /\ UNCHANGED up
    BY <2>1, LifeStart
  <2>2. CASE stop(t) /\ UNCHANGED terminated
    BY <2>2, LifeStop
  <2>3. CASE /\ dispatch(t) \/ evaluateAll(t) \/ engage(t) \/ fireHook(t) \/ resetEmergencyStop(t)
             /\ UNCHANGED lifecycle
    BY <2>3, LifeUserCode DEF lifecycle
  <2>4. CASE evaluationLoop /\ UNCHANGED <<up, terminated>>
    BY <2>4, LifeLoop
  <2> QED
    BY <1>3, <2>1, <2>2, <2>3, <2>4 DEF Step
<1> QED
  BY <1>1, <1>2, <1>3 DEF Next, vars, lifecycle

\* C33, C2: as long as no start() overlaps a stop(), no handle is assigned to while joinable,
\* stop() leaves nothing running, also behind a stop() from inside a policy or a handler,
\* and each e-stop calls the hook at most once.
THEOREM SafetyIsKept ==
  ASSUME "overlap" \notin Env
  PROVE  Spec => []SafetyHolds
<1>1. Init => LifeInv
  <2>1. \A t \in Threads : Init => pc[t] \notin StartPC
    BY DEF Init, StartPC
  <2> QED
    BY <2>1 DEF Init, LifeInv
<1>2. IInv /\ LifeInv /\ [Next]_vars => LifeInv'
  BY NextLife
<1>3. IInv /\ LifeInv => NoTerminate /\ StoppedIsQuiet
  BY DEF IInv, WorkerInv, LifeInv, NoTerminate, StoppedIsQuiet, At
<1>4. NoTerminate /\ StoppedIsQuiet /\ FiresOncePerEngagement => SafetyHolds
  BY DEF SafetyHolds
<1> QED
  BY <1>1, <1>2, <1>3, <1>4, Invariance, HookFiresOnce, PTL DEF Spec
=============================================================================
