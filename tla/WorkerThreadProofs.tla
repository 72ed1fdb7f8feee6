-------------------------- MODULE WorkerThreadProofs --------------------------
(* The invariants of WorkerThread, for every set of threads, and that it      *)
(* implements LoopContract.                                                   *)
EXTENDS WorkerThread, TLAPS

Alive == {"worker", "detached"}

\* handleMutex_ is owned by the one thread between its lock and its unlock.
MutexInv == \A t \in Threads : pc[t] \in HeldPC <=> handleMutex = t

\* handle_ is joinable to the one thread that start() made and nobody has joined;
\* a detached loop is left behind only by the destructor, with no handle.
HandleInv ==
  /\ handle # NoThread => role[handle] \in {"worker", "exited"}
  /\ \A t \in Threads : role[t] \in {"worker", "exited"} => handle = t
  /\ \A t \in Threads : role[t] = "detached" => destroyed /\ handle = NoThread
  /\ \A t, u \in Threads : role[t] = "detached" /\ role[u] = "detached" => t = u

\* threadId_ names the thread between its publish and its clear, and nobody else.
IdInv ==
  /\ threadId # NoThread => role[threadId] \in Alive
  /\ \A t \in Threads : role[t] \in Alive => (pc[t] \notin {"publish", "exit"} <=> threadId = t)

\* Which program points each role can be at: the loop never gets past a self-check.
RoleInv ==
  \A t \in Threads :
    /\ role[t] \in {"free", "exited"} => pc[t] = "idle"
    /\ role[t] = "client" => pc[t] \in {"idle"} \cup CallPC
    /\ role[t] \in Alive => pc[t] \in {"loop"} \cup CheckPC \cup EntryPC
    /\ role[t] = "detached" => pc[t] \notin CheckPC

\* start() spawns over an empty handle; a loop on its way out saw the flag down;
\* after the destructor has begun only the destructor is in a call.
CallInv ==
  \A t \in Threads :
    /\ pc[t] \in {"start_before", "start_spawn"} => handle = NoThread
    /\ pc[t] \in {"clear", "exit"} => ~running
    /\ pc[t] \in CallPC => (destroyed <=> pc[t] \in {"dtor_check", "dtor_lock", "dtor_join", "dtor_unlock"})

IInv == /\ TypeOK /\ ~terminated
        /\ MutexInv /\ HandleInv /\ IdInv /\ RoleInv /\ CallInv

USE NoThreadAssumption

LEMMA InitIInv == Init => IInv
  BY DEF Init, IInv, TypeOK, MutexInv, HandleInv, IdInv, RoleInv, CallInv, OptThread, Roles,
         PCs, CallPC, CheckPC, LockPC, HeldPC, JoinPC, EntryPC, Alive

\* ~WorkerThread on the loop's own thread: the handle is that thread's, no other call
\* is in progress, and the loop is the only one.
LEMMA DetachStep ==
  ASSUME IInv, NEW t \in Threads, DtorSelfCheck(t), threadId = t
  PROVE  /\ role[t] = "worker" /\ handle = t /\ pc[t] = "dtor_check" /\ destroyed
         /\ \A u \in Threads : role[u] # "detached" /\ (role[u] \in {"worker", "exited"} => u = t)
         /\ pc' = [pc EXCEPT ![t] = "loop"] /\ handle' = NoThread
         /\ role' = [u \in Threads |-> IF u = t THEN "detached" ELSE role[u]]
         /\ UNCHANGED <<threadId, handleMutex, running, destroyed, terminated, before>>
  <1> USE DEF IInv, TypeOK, MutexInv, HandleInv, IdInv, RoleInv, CallInv, OptThread, Roles,
              PCs, CallPC, CheckPC, LockPC, HeldPC, JoinPC, EntryPC, Alive
  <1>1. role[t] = "worker" /\ handle = t /\ pc[t] = "dtor_check" /\ destroyed
    BY DEF DtorSelfCheck
  <1>2. \A u \in Threads : role[u] # "detached" /\ (role[u] \in {"worker", "exited"} => u = t)
    BY <1>1
  <1>3. /\ pc' = [pc EXCEPT ![t] = "loop"] /\ handle' = NoThread
        /\ role' = [u \in Threads |-> IF u = handle THEN "detached" ELSE role[u]]
        /\ UNCHANGED <<threadId, handleMutex, running, destroyed, terminated, before>>
    BY DEF DtorSelfCheck, isOnThisThread
  <1>4. QED
    BY <1>1, <1>2, <1>3

LEMMA NextIInv == IInv /\ [Next]_vars => IInv'
  <1> SUFFICES ASSUME IInv, [Next]_vars PROVE IInv'
    OBVIOUS
  <1> USE DEF IInv, TypeOK, MutexInv, HandleInv, IdInv, RoleInv, CallInv, OptThread, Roles,
              PCs, CallPC, CheckPC, LockPC, HeldPC, JoinPC, EntryPC, Alive
  <1>1. CASE RequestStop
    BY <1>1 DEF RequestStop
  <1>2. ASSUME NEW t \in Threads, ClientBorn(t) PROVE IInv'
    BY <1>2 DEF ClientBorn
  <1>3. ASSUME NEW t \in Threads, ClientExit(t) PROVE IInv'
    BY <1>3 DEF ClientExit
  <1>4. ASSUME NEW t \in Threads, NEW op \in CheckPC \cup LockPC, Call(t, op) PROVE IInv'
    <2>1. CASE op = "dtor_check"
      BY <1>4, <2>1 DEF Call, Home, Ops, Loops
    <2>2. CASE op # "dtor_check"
      BY <1>4, <2>2 DEF Call, Home, Ops, Loops
    <2>3. QED
      BY <2>1, <2>2
  <1>5. ASSUME NEW t \in Threads, SelfCheck(t) PROVE IInv'
    BY <1>5 DEF SelfCheck, Home, Return, isOnThisThread
  <1>6. ASSUME NEW t \in Threads, DtorSelfCheck(t) PROVE IInv'
    <2>1. CASE threadId = t
      BY <1>6, <2>1, DetachStep
    <2>2. CASE threadId # t
      BY <1>6, <2>2 DEF DtorSelfCheck, isOnThisThread
    <2>3. QED
      BY <2>1, <2>2
  <1>7. ASSUME NEW t \in Threads, LockHandle(t) PROVE IInv'
    BY <1>7 DEF LockHandle, Locked
  <1>8. ASSUME NEW t \in Threads, JoinHandle(t) PROVE IInv'
    BY <1>8 DEF JoinHandle, Joined
  <1>9. ASSUME NEW t \in Threads, BeforeSpawn(t) PROVE IInv'
    BY <1>9 DEF BeforeSpawn
  <1>10. ASSUME NEW t \in Threads, NEW w \in Threads, Spawn(t, w) PROVE IInv'
    BY <1>10 DEF Spawn
  <1>11. ASSUME NEW t \in Threads, UnlockHandle(t) PROVE IInv'
    BY <1>11 DEF UnlockHandle, Return, Home
  <1>12. ASSUME NEW t \in Threads, Publish(t) PROVE IInv'
    BY <1>12 DEF Publish
  <1>13. ASSUME NEW t \in Threads, LoopExit(t) PROVE IInv'
    BY <1>13 DEF LoopExit
  <1>14. ASSUME NEW t \in Threads, Clear(t) PROVE IInv'
    BY <1>14 DEF Clear
  <1>15. ASSUME NEW t \in Threads, Exit(t) PROVE IInv'
    BY <1>15 DEF Exit
  <1>16. CASE UNCHANGED vars
    BY <1>16 DEF vars
  <1>17. QED
    BY <1>1, <1>2, <1>3, <1>4, <1>5, <1>6, <1>7, <1>8, <1>9, <1>10, <1>11, <1>12, <1>13,
       <1>14, <1>15, <1>16 DEF Next, CallStep, EntryStep

\* WorkerThread's state is always well-formed and its locking protocol is intact.
THEOREM Invariance == Spec => []IInv
  <1>1. QED
    BY InitIInv, NextIInv, PTL DEF Spec

\* TypeOK, for every set of threads.
THEOREM TypeCorrectness == Spec => []TypeOK
  <1>1. IInv => TypeOK
    BY DEF IInv
  <1>2. QED
    BY <1>1, Invariance, PTL

\* C33, C39: no schedule of start(), join(), withHandle() and destructor calls, from
\* outside threads or from the loop, ends in std::terminate.
THEOREM NoTerminate == Spec => []NeverTerminates
  <1>1. IInv => NeverTerminates
    BY DEF IInv, NeverTerminates
  <1>2. QED
    BY <1>1, Invariance, PTL

\* At most one loop body runs at any time.
THEOREM OneLoop == Spec => []AtMostOneLoop
  <1>1. IInv => AtMostOneLoop
    <2> SUFFICES ASSUME IInv, NEW t \in Loops, NEW u \in Loops PROVE t = u
      BY DEF AtMostOneLoop
    <2>1. QED
      BY DEF IInv, HandleInv, Loops, TypeOK
  <1>2. QED
    BY <1>1, Invariance, PTL

\* C41/C42: the published id always names a live loop.
THEOREM PublishedId == Spec => []PublishedIdIsTheLoop
  <1>1. IInv => PublishedIdIsTheLoop
    BY DEF IInv, IdInv, TypeOK, OptThread, Alive, Loops, PublishedIdIsTheLoop
  <1>2. QED
    BY <1>1, Invariance, PTL

\* A call from inside the loop never blocks.
THEOREM SelfCallsReturn == Spec => []SelfCallNeverBlocks
  <1>1. IInv => SelfCallNeverBlocks
    BY DEF IInv, RoleInv, Alive, Loops, SelfCallNeverBlocks, LockPC, HeldPC, JoinPC, CheckPC, EntryPC
  <1>2. QED
    BY <1>1, Invariance, PTL

-------------------------------------------------------------------------------
(* What a call has waited for when it returns.                                *)

\* The destructor is the only call in progress once it has begun, and a loop it
\* detached is seen by no call.
DtorInv ==
  /\ \A t, u \in Threads : destroyed /\ pc[t] \in CallPC /\ pc[u] \in CallPC => t = u
  /\ \A t, u \in Threads : role[t] = "detached" => pc[u] \notin CallPC

\* before[t] holds loops that still run, and none is left once t is past its join.
BeforeInv ==
  \A t \in Threads :
    /\ \A u \in before[t] : role[u] \in Alive
    /\ pc[t] \in {"start_before", "start_spawn", "start_unlock", "join_unlock", "dtor_unlock"}
       => before[t] = {}

BInv == DtorInv /\ BeforeInv

LEMMA InitBInv == Init => BInv
  BY DEF Init, BInv, DtorInv, BeforeInv, CallPC, CheckPC, LockPC, HeldPC, JoinPC

LEMMA NextBInv == IInv /\ BInv /\ [Next]_vars => BInv'
  <1> SUFFICES ASSUME IInv, BInv, [Next]_vars PROVE BInv'
    OBVIOUS
  <1> USE DEF IInv, TypeOK, HandleInv, IdInv, RoleInv, CallInv, OptThread, Roles, BInv, DtorInv,
              BeforeInv, PCs, CallPC, CheckPC, LockPC, HeldPC, JoinPC, EntryPC, Alive
  <1>1. CASE RequestStop
    BY <1>1 DEF RequestStop
  <1>2. ASSUME NEW t \in Threads, ClientBorn(t) PROVE BInv'
    BY <1>2 DEF ClientBorn
  <1>3. ASSUME NEW t \in Threads, ClientExit(t) PROVE BInv'
    BY <1>3 DEF ClientExit
  <1>4. ASSUME NEW t \in Threads, NEW op \in CheckPC \cup LockPC, Call(t, op) PROVE BInv'
    <2>1. CASE op = "dtor_check"
      BY <1>4, <2>1 DEF Call, Home, Ops, Loops
    <2>2. CASE op # "dtor_check"
      BY <1>4, <2>2 DEF Call, Home, Ops, Loops
    <2>3. QED
      BY <2>1, <2>2
  <1>5. ASSUME NEW t \in Threads, SelfCheck(t) PROVE BInv'
    BY <1>5 DEF SelfCheck, Home, Return, isOnThisThread
  <1>6. ASSUME NEW t \in Threads, DtorSelfCheck(t) PROVE BInv'
    <2>1. CASE threadId = t
      BY <1>6, <2>1, DetachStep
    <2>2. CASE threadId # t
      BY <1>6, <2>2 DEF DtorSelfCheck, isOnThisThread
    <2>3. QED
      BY <2>1, <2>2
  <1>7. ASSUME NEW t \in Threads, LockHandle(t) PROVE BInv'
    BY <1>7 DEF LockHandle, Locked
  <1>8. ASSUME NEW t \in Threads, JoinHandle(t) PROVE BInv'
    BY <1>8 DEF JoinHandle, Joined
  <1>9. ASSUME NEW t \in Threads, BeforeSpawn(t) PROVE BInv'
    BY <1>9 DEF BeforeSpawn
  <1>10. ASSUME NEW t \in Threads, NEW w \in Threads, Spawn(t, w) PROVE BInv'
    BY <1>10 DEF Spawn
  <1>11. ASSUME NEW t \in Threads, UnlockHandle(t) PROVE BInv'
    BY <1>11 DEF UnlockHandle, Return, Home
  <1>12. ASSUME NEW t \in Threads, Publish(t) PROVE BInv'
    BY <1>12 DEF Publish
  <1>13. ASSUME NEW t \in Threads, LoopExit(t) PROVE BInv'
    BY <1>13 DEF LoopExit
  <1>14. ASSUME NEW t \in Threads, Clear(t) PROVE BInv'
    BY <1>14 DEF Clear
  <1>15. ASSUME NEW t \in Threads, Exit(t) PROVE BInv'
    BY <1>15 DEF Exit
  <1>16. CASE UNCHANGED vars
    BY <1>16 DEF vars
  <1>17. QED
    BY <1>1, <1>2, <1>3, <1>4, <1>5, <1>6, <1>7, <1>8, <1>9, <1>10, <1>11, <1>12, <1>13,
       <1>14, <1>15, <1>16 DEF Next, CallStep, EntryStep

LEMMA BInvariance == Spec => [](IInv /\ BInv)
  <1>1. QED
    BY InitIInv, NextIInv, InitBInv, NextBInv, PTL DEF Spec

\* An outside thread's start(), join() or destructor call never returns while a loop
\* that ran when it was made is still running.
THEOREM CallsReclaim == Spec => CallReclaims
  <1> DEFINE Reclaims == \A t \in Threads :
               role[t] = "client" /\ pc[t] \in CallPC \ {"with_lock", "with_run"} /\ pc'[t] = "idle"
               => before[t] = {}
  <1>1. IInv /\ BInv /\ [Next]_vars => [Reclaims]_vars
    <2> SUFFICES ASSUME IInv, BInv, Next, NEW t \in Threads, role[t] = "client",
                        pc[t] \in CallPC \ {"with_lock", "with_run"}, pc'[t] = "idle"
                 PROVE before[t] = {}
      BY DEF Reclaims
    <2> USE DEF IInv, TypeOK, IdInv, OptThread, BInv, BeforeInv, CallPC, CheckPC, LockPC,
                HeldPC, JoinPC, EntryPC, Alive
    <2>1. CASE RequestStop
      BY <2>1 DEF RequestStop
    <2>2. ASSUME NEW u \in Threads, ClientBorn(u) \/ ClientExit(u) PROVE before[t] = {}
      BY <2>2 DEF ClientBorn, ClientExit
    <2>3. ASSUME NEW u \in Threads, NEW op \in CheckPC \cup LockPC, Call(u, op) PROVE before[t] = {}
      BY <2>3 DEF Call
    <2>4. ASSUME NEW u \in Threads, SelfCheck(u) PROVE before[t] = {}
      BY <2>4 DEF SelfCheck, Return, isOnThisThread
    <2>5. ASSUME NEW u \in Threads, DtorSelfCheck(u) PROVE before[t] = {}
      BY <2>5 DEF DtorSelfCheck, isOnThisThread
    <2>6. ASSUME NEW u \in Threads, LockHandle(u) PROVE before[t] = {}
      BY <2>6 DEF LockHandle, Locked
    <2>7. ASSUME NEW u \in Threads, JoinHandle(u) PROVE before[t] = {}
      BY <2>7 DEF JoinHandle, Joined
    <2>8. ASSUME NEW u \in Threads, BeforeSpawn(u) PROVE before[t] = {}
      BY <2>8 DEF BeforeSpawn
    <2>9. ASSUME NEW u \in Threads, NEW w \in Threads, Spawn(u, w) PROVE before[t] = {}
      BY <2>9 DEF Spawn
    <2>10. ASSUME NEW u \in Threads, UnlockHandle(u) PROVE before[t] = {}
      BY <2>10 DEF UnlockHandle, Return, Home
    <2>11. ASSUME NEW u \in Threads, EntryStep(u) PROVE before[t] = {}
      BY <2>11 DEF EntryStep, Publish, LoopExit, Clear, Exit
    <2>12. QED
      BY <2>1, <2>2, <2>3, <2>4, <2>5, <2>6, <2>7, <2>8, <2>9, <2>10, <2>11 DEF Next, CallStep
  <1>2. QED
    BY <1>1, BInvariance, PTL DEF Spec, CallReclaims

-------------------------------------------------------------------------------
(* WorkerThread implements LoopContract.                                      *)

LEMMA RefinesInit == Init => Contract!Init
  BY DEF Init, Contract!Init, phase

LEMMA RefinesNext ==
  IInv /\ BInv /\ IInv' /\ BInv' /\ [Next]_vars => [Contract!Next]_<<phase, running>>
  <1> SUFFICES ASSUME IInv, BInv, IInv', BInv', [Next]_vars
               PROVE  Contract!Next \/ (phase' = phase /\ running' = running)
    OBVIOUS
  <1> USE DEF IInv, TypeOK, HandleInv, CallInv, RoleInv, DtorInv, BInv, OptThread, Roles, CallPC,
              CheckPC, LockPC, HeldPC, JoinPC, EntryPC, Alive, phase
  <1> DEFINE Good == Contract!Next \/ (phase' = phase /\ running' = running)
  <1>1. CASE RequestStop
    BY <1>1 DEF RequestStop, Contract!Next, Contract!Lower
  <1>2. ASSUME NEW t \in Threads, ClientBorn(t) \/ ClientExit(t) PROVE Good
    BY <1>2 DEF ClientBorn, ClientExit
  <1>3. ASSUME NEW t \in Threads, NEW op \in CheckPC \cup LockPC, Call(t, op) PROVE Good
    BY <1>3 DEF Call
  <1>4. ASSUME NEW t \in Threads, SelfCheck(t) \/ LockHandle(t) \/ UnlockHandle(t) PROVE Good
    BY <1>4 DEF SelfCheck, LockHandle, UnlockHandle
  <1>5. ASSUME NEW t \in Threads, DtorSelfCheck(t) PROVE Good
    <2>1. CASE threadId = t
      BY <1>5, <2>1, DetachStep DEF Contract!Next, Contract!Abandon
    <2>2. CASE threadId # t
      BY <1>5, <2>2 DEF DtorSelfCheck, isOnThisThread
    <2>3. QED
      BY <2>1, <2>2
  <1>6. ASSUME NEW t \in Threads, JoinHandle(t) PROVE Good
    BY <1>6 DEF JoinHandle, Contract!Next, Contract!Reap
  <1>7. ASSUME NEW t \in Threads, BeforeSpawn(t) PROVE Good
    BY <1>7 DEF BeforeSpawn, Contract!Next, Contract!Raise
  <1>8. ASSUME NEW t \in Threads, NEW w \in Threads, Spawn(t, w) PROVE Good
    BY <1>8 DEF Spawn, Contract!Next, Contract!Begin
  <1>9. ASSUME NEW t \in Threads, Publish(t) \/ LoopExit(t) \/ Clear(t) PROVE Good
    BY <1>9 DEF Publish, LoopExit, Clear
  <1>10. ASSUME NEW t \in Threads, Exit(t) PROVE Good
    BY <1>10 DEF Exit, Contract!Next, Contract!End, Contract!Fade
  <1>11. CASE UNCHANGED vars
    BY <1>11 DEF vars
  <1>12. QED
    BY <1>1, <1>2, <1>3, <1>4, <1>5, <1>6, <1>7, <1>8, <1>9, <1>10, <1>11
       DEF Next, CallStep, EntryStep

\* Every behaviour of WorkerThread is one its owner may expect: one loop at a time,
\* reaped before the next, and no flag raised under a loop on its way out.
THEOREM Refinement == Spec => ImplementsContract
  <1>1. QED
    BY RefinesInit, RefinesNext, BInvariance, PTL DEF Spec, ImplementsContract, Contract!Spec
=============================================================================
