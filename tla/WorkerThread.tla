---------------------------- MODULE WorkerThread ----------------------------
(***************************************************************************)
(* axonvex::core::detail::WorkerThread: one std::thread handle, the id the *)
(* loop publishes about itself, and the mutex that serialises everything   *)
(* which touches the handle.                                               *)
(*                                                                         *)
(* A member of Threads is an operating-system thread id.  Ids are reused:  *)
(* an id whose thread has been joined can become a client or a new worker, *)
(* which is what makes a stale published id dangerous.                     *)
(***************************************************************************)
EXTENDS Naturals, FiniteSets

CONSTANTS Threads,      \* thread ids the operating system hands out
          NoThread,     \* std::thread::id{}: nobody
          MaxClients    \* bound: threads outside the worker alive at once

ASSUME NoThreadAssumption == NoThread \notin Threads
ASSUME ClientsAssumption  == MaxClients \in Nat

VARIABLES
  role,         \* role[t]: "free", "client", "worker", "exited" (not yet joined), "detached"
  pc,           \* pc[t]: where thread t is in a call or in the worker's entry function
  handle,       \* handle_: the thread it is joinable to, NoThread when it is not joinable
  threadId,     \* threadId_, the published atomic
  handleMutex,  \* owner of handleMutex_
  running,      \* the owner's stop flag, which the loop polls and beforeSpawn raises
  destroyed,    \* ~WorkerThread has begun
  terminated,   \* std::terminate was called
  before        \* history: before[t], loops running when t's call began and still running

vars == <<role, pc, handle, threadId, handleMutex, running, destroyed, terminated, before>>

OptThread == Threads \cup {NoThread}
Roles     == {"free", "client", "worker", "exited", "detached"}
CheckPC   == {"start_check", "join_check", "dtor_check"}
LockPC    == {"start_lock", "join_lock", "with_lock", "dtor_lock"}
JoinPC    == {"start_join", "join_join", "dtor_join"}
HeldPC    == JoinPC \cup {"start_before", "start_spawn", "start_unlock",
                          "join_unlock", "with_run", "dtor_unlock"}
CallPC    == CheckPC \cup LockPC \cup HeldPC
EntryPC   == {"publish", "clear", "exit"}
PCs       == {"idle", "loop"} \cup CallPC \cup EntryPC

Loops == {t \in Threads : role[t] \in {"worker", "detached"}}

TypeOK ==
  /\ role \in [Threads -> Roles]
  /\ pc \in [Threads -> PCs]
  /\ handle \in OptThread
  /\ threadId \in OptThread
  /\ handleMutex \in {t \in Threads : role[t] = "client"} \cup {NoThread}
  /\ running \in BOOLEAN
  /\ destroyed \in BOOLEAN
  /\ terminated \in BOOLEAN
  /\ before \in [Threads -> SUBSET Threads]

Init ==
  /\ role = [t \in Threads |-> "free"]
  /\ pc = [t \in Threads |-> "idle"]
  /\ handle = NoThread
  /\ threadId = NoThread
  /\ handleMutex = NoThread
  /\ running = FALSE
  /\ destroyed = FALSE
  /\ terminated = FALSE
  /\ before = [t \in Threads |-> {}]

-----------------------------------------------------------------------------
(* The environment: threads come and go, and the owner lowers its flag.     *)

ClientBorn(t) ==
  /\ role[t] = "free"
  /\ Cardinality({u \in Threads : role[u] = "client"}) < MaxClients
  /\ role' = [role EXCEPT ![t] = "client"]
  /\ UNCHANGED <<pc, handle, threadId, handleMutex, running, destroyed, terminated, before>>

ClientExit(t) ==
  /\ role[t] = "client" /\ pc[t] = "idle"
  /\ role' = [role EXCEPT ![t] = "free"]
  /\ UNCHANGED <<pc, handle, threadId, handleMutex, running, destroyed, terminated, before>>

RequestStop ==
  /\ running
  /\ running' = FALSE
  /\ UNCHANGED <<role, pc, handle, threadId, handleMutex, destroyed, terminated, before>>

-----------------------------------------------------------------------------
(* Calls.  A client calls from "idle", the worker from inside its loop.     *)

Home(t) == IF role[t] = "client" THEN "idle" ELSE "loop"

\* withHandle's contract is for threads outside the worker; start(), join() and
\* the destructor are written to survive a call from inside it.
Ops(t) == IF role[t] = "client" THEN {"start_check", "join_check", "with_lock", "dtor_check"}
                                ELSE {"start_check", "join_check", "dtor_check"}

Call(t, op) ==
  /\ ~terminated /\ ~destroyed
  /\ role[t] \in {"client", "worker"} /\ pc[t] = Home(t)
  /\ op \in Ops(t)
  \* C++ lifetime: nobody may be inside a member function when the destructor runs
  /\ op = "dtor_check" => \A u \in Threads : pc[u] \notin CallPC
  /\ pc' = [pc EXCEPT ![t] = op]
  /\ before' = [before EXCEPT ![t] = Loops]
  /\ destroyed' = (op = "dtor_check")
  /\ UNCHANGED <<role, handle, threadId, handleMutex, running, terminated>>

Return(t) == pc' = [pc EXCEPT ![t] = Home(t)]

isOnThisThread(t) == threadId = t

\* Fault: start() goes straight for the lock; only join() refuses a self-call.
SelfCheckInJoinOnly(t) ==
  /\ ~terminated
  /\ \/ pc[t] = "start_check" /\ pc' = [pc EXCEPT ![t] = "start_lock"]
     \/ pc[t] = "join_check"  /\ (IF isOnThisThread(t) THEN Return(t)
                                  ELSE pc' = [pc EXCEPT ![t] = "join_lock"])
  /\ UNCHANGED <<role, handle, threadId, handleMutex, running, destroyed, terminated, before>>

\* The lock-free self-check at the head of start() and join().
SelfCheck(t) ==
  /\ ~terminated
  /\ \/ pc[t] = "start_check" /\ (IF isOnThisThread(t) THEN Return(t)
                                  ELSE pc' = [pc EXCEPT ![t] = "start_lock"])
     \/ pc[t] = "join_check"  /\ (IF isOnThisThread(t) THEN Return(t)
                                  ELSE pc' = [pc EXCEPT ![t] = "join_lock"])
  /\ UNCHANGED <<role, handle, threadId, handleMutex, running, destroyed, terminated, before>>

\* ~WorkerThread on the worker's own thread: detach instead of joining.
DtorSelfCheck(t) ==
  /\ ~terminated
  /\ pc[t] = "dtor_check"
  /\ IF isOnThisThread(t)
       THEN /\ pc' = [pc EXCEPT ![t] = "loop"]
            /\ role' = [u \in Threads |-> IF u = handle THEN "detached" ELSE role[u]]
            /\ handle' = NoThread
       ELSE /\ pc' = [pc EXCEPT ![t] = "dtor_lock"]
            /\ UNCHANGED <<role, handle>>
  /\ UNCHANGED <<threadId, handleMutex, running, destroyed, terminated, before>>

Locked == [start_lock |-> "start_join", join_lock |-> "join_join",
           with_lock |-> "with_run",    dtor_lock |-> "dtor_join"]

\* Fault: start() raises the owner's flag before the stale loop has been joined.
LockHandleRaisingFlag(t) ==
  /\ ~terminated
  /\ pc[t] \in LockPC
  /\ handleMutex = NoThread
  /\ handleMutex' = t
  /\ pc' = [pc EXCEPT ![t] = Locked[pc[t]]]
  /\ running' = (running \/ pc[t] = "start_lock")
  /\ UNCHANGED <<role, handle, threadId, destroyed, terminated, before>>

LockHandle(t) ==
  /\ ~terminated
  /\ pc[t] \in LockPC
  /\ handleMutex = NoThread
  /\ handleMutex' = t
  /\ pc' = [pc EXCEPT ![t] = Locked[pc[t]]]
  /\ UNCHANGED <<role, handle, threadId, running, destroyed, terminated, before>>

Joined == [start_join |-> "start_before", join_join |-> "join_unlock", dtor_join |-> "dtor_unlock"]

\* Fault: start() assumes that a handle whose loop was asked to stop needs no join.
JoinHandleNotInStart(t) ==
  /\ ~terminated
  /\ pc[t] \in JoinPC
  /\ pc' = [pc EXCEPT ![t] = Joined[pc[t]]]
  /\ \/ /\ handle = NoThread \/ (pc[t] = "start_join" /\ ~running)
        /\ UNCHANGED <<role, handle>>
     \/ /\ handle # NoThread /\ handle # t /\ role[handle] = "exited"
        /\ role' = [role EXCEPT ![handle] = "free"]
        /\ handle' = NoThread
  /\ UNCHANGED <<threadId, handleMutex, running, destroyed, terminated, before>>

\* Fault: the stale handle is detached, not joined.
JoinHandleByDetach(t) ==
  /\ ~terminated
  /\ pc[t] \in JoinPC
  /\ pc' = [pc EXCEPT ![t] = Joined[pc[t]]]
  /\ role' = [u \in Threads |-> IF u # handle THEN role[u]
                                ELSE IF role[u] = "exited" THEN "free" ELSE "detached"]
  /\ handle' = NoThread
  /\ UNCHANGED <<threadId, handleMutex, running, destroyed, terminated, before>>

\* handle_->joinable() and std::thread::join(): blocks until the thread has exited,
\* and calling it on one's own thread ends the process.
JoinHandle(t) ==
  /\ ~terminated
  /\ pc[t] \in JoinPC
  /\ \/ /\ handle = NoThread
        /\ pc' = [pc EXCEPT ![t] = Joined[pc[t]]]
        /\ UNCHANGED <<role, handle, terminated>>
     \/ /\ handle # NoThread /\ handle # t /\ role[handle] = "exited"
        /\ pc' = [pc EXCEPT ![t] = Joined[pc[t]]]
        /\ role' = [role EXCEPT ![handle] = "free"]
        /\ handle' = NoThread
        /\ UNCHANGED terminated
     \/ /\ handle = t
        /\ terminated' = TRUE
        /\ UNCHANGED <<pc, role, handle>>
  /\ UNCHANGED <<threadId, handleMutex, running, destroyed, before>>

BeforeSpawn(t) ==
  /\ ~terminated
  /\ pc[t] = "start_before"
  /\ running' = TRUE
  /\ pc' = [pc EXCEPT ![t] = "start_spawn"]
  /\ UNCHANGED <<role, handle, threadId, handleMutex, destroyed, terminated, before>>

\* handle_ = std::make_unique<std::thread>(...): destroying a handle that is still
\* joinable ends the process.
Spawn(t, w) ==
  /\ ~terminated
  /\ pc[t] = "start_spawn"
  /\ role[w] = "free"
  /\ terminated' = (handle # NoThread)
  /\ handle' = w
  /\ role' = [role EXCEPT ![w] = "worker"]
  /\ pc' = [pc EXCEPT ![t] = "start_unlock", ![w] = "publish"]
  /\ UNCHANGED <<threadId, handleMutex, running, destroyed, before>>

UnlockHandle(t) ==
  /\ ~terminated
  /\ pc[t] \in {"start_unlock", "join_unlock", "with_run", "dtor_unlock"}
  /\ handleMutex' = NoThread
  /\ Return(t)
  /\ UNCHANGED <<role, handle, threadId, running, destroyed, terminated, before>>

-----------------------------------------------------------------------------
(* The worker's entry function: ThreadIdGuard around the caller's loop.     *)

Publish(w) ==
  /\ ~terminated
  /\ pc[w] = "publish"
  /\ threadId' = w
  /\ pc' = [pc EXCEPT ![w] = "loop"]
  /\ UNCHANGED <<role, handle, handleMutex, running, destroyed, terminated, before>>

\* The caller's loop polls its own flag and leaves when it is down.
LoopExit(w) ==
  /\ ~terminated
  /\ pc[w] = "loop" /\ ~running
  /\ pc' = [pc EXCEPT ![w] = "clear"]
  /\ UNCHANGED <<role, handle, threadId, handleMutex, running, destroyed, terminated, before>>

\* Fault: a loop leaves its id behind.
ClearForgotten(w) ==
  /\ ~terminated
  /\ pc[w] = "clear"
  /\ pc' = [pc EXCEPT ![w] = "exit"]
  /\ UNCHANGED <<role, handle, threadId, handleMutex, running, destroyed, terminated, before>>

Clear(w) ==
  /\ ~terminated
  /\ pc[w] = "clear"
  /\ threadId' = NoThread
  /\ pc' = [pc EXCEPT ![w] = "exit"]
  /\ UNCHANGED <<role, handle, handleMutex, running, destroyed, terminated, before>>

Exit(w) ==
  /\ ~terminated
  /\ pc[w] = "exit"
  /\ pc' = [pc EXCEPT ![w] = "idle"]
  /\ role' = [role EXCEPT ![w] = IF @ = "detached" THEN "free" ELSE "exited"]
  /\ before' = [t \in Threads |-> before[t] \ {w}]
  /\ UNCHANGED <<handle, threadId, handleMutex, running, destroyed, terminated>>

-----------------------------------------------------------------------------

CallStep(t) == \/ SelfCheck(t) \/ DtorSelfCheck(t) \/ LockHandle(t) \/ JoinHandle(t)
               \/ BeforeSpawn(t) \/ UnlockHandle(t)
               \/ \E w \in Threads : Spawn(t, w)

EntryStep(w) == Publish(w) \/ LoopExit(w) \/ Clear(w) \/ Exit(w)

Next ==
  \/ RequestStop
  \/ \E t \in Threads : \/ ClientBorn(t) \/ ClientExit(t)
                        \/ \E op \in CheckPC \cup LockPC : Call(t, op)
                        \/ CallStep(t)
                        \/ EntryStep(t)

Spec == Init /\ [][Next]_vars

\* Every thread is scheduled; the loop polls its flag again and again even when
\* its body keeps calling this class ("the loop must poll its own stop condition").
Fairness == \A t \in Threads : /\ WF_vars(CallStep(t))
                               /\ WF_vars(Publish(t)) /\ WF_vars(Clear(t)) /\ WF_vars(Exit(t))
                               /\ SF_vars(LoopExit(t))
                               /\ SF_vars(LockHandle(t))

FairSpec == Spec /\ Fairness

-----------------------------------------------------------------------------
(* What the class promises.                                                 *)

\* C39, C33: no call, from any thread, assigns over a joinable handle or joins the
\* calling thread; each is a std::terminate nothing can catch.
NeverTerminates == ~terminated

\* Two loop bodies never run over the same owner at once, however start() and
\* join() of several threads and of the loop itself interleave.
AtMostOneLoop == \A t, u \in Loops : t = u

\* C41/C42: the published id is that of a thread still inside its loop, so a thread
\* that got a dead worker's id is never mistaken for the worker.
PublishedIdIsTheLoop == threadId # NoThread => threadId \in Loops

\* When an outside thread's start(), join() or destructor call returns, every loop
\* that ran when the call began has left its entry function: no such call comes back
\* early because of a stale id or of somebody else's join.
CallReclaims ==
  [][\A t \in Threads :
       role[t] = "client" /\ pc[t] \in CallPC \ {"with_lock", "with_run"} /\ pc'[t] = "idle"
       => before[t] = {}]_vars

\* A self-call never blocks: the running loop is never stuck on the mutex of the very
\* thread that is joining it, and never waits for itself.
SelfCallNeverBlocks ==
  \A t \in Loops : pc[t] \notin LockPC \cup HeldPC

\* The phases of LoopContract: an owner sees a single loop that is reaped before
\* the next begins, and beforeSpawn raises the flag only when no old loop can see it.
phase ==
  IF handle # NoThread THEN IF role[handle] = "exited" THEN "ended" ELSE "running"
  ELSE IF \E t \in Threads : role[t] = "detached" THEN "abandoned" ELSE "none"

Contract == INSTANCE LoopContract WITH flag <- running
ImplementsContract == Contract!Spec

\* Once the flag is down, a thread waiting in std::thread::join gets its answer.
JoinReturns ==
  \A t \in Threads : (pc[t] \in JoinPC /\ ~running) ~> (pc[t] \notin JoinPC)
=============================================================================
