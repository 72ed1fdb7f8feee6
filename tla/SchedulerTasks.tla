---------------------------- MODULE SchedulerTasks ----------------------------
(***************************************************************************)
(* The tasks of axonvex::core::RealTimeScheduler: pool-owned descriptors,  *)
(* the tasks_ map from ids to them, the cycle of the scheduler loop that   *)
(* claims, executes and finalises them, and TimingController's map from    *)
(* units to ids, on behalf of the owner of the units.                      *)
(*                                                                         *)
(* Each critical section of tasksMutex_ and of unitMapMutex_ is one        *)
(* action; user code runs between them with no lock held.  Time is         *)
(* abstract: due and cool say whether nextExecution and reactivationTime   *)
(* have passed.  The order a policy gives the ready set is left open.      *)
(***************************************************************************)
EXTENDS Naturals, FiniteSets, Functions

CONSTANTS Units,        \* ProcessingUnit objects
          Blocks,       \* blocks of taskPool_
          NoBlock,      \* nullptr
          MaxTasks,     \* bound: ids that addTask() may issue
          MaxFailures   \* kMaxConsecutiveFailures

ASSUME BlocksAssumption == IsFiniteSet(Blocks) /\ NoBlock \notin Blocks
ASSUME BoundsAssumption == MaxTasks \in Nat /\ MaxFailures \in Nat \ {0}

Ids == 1..MaxTasks

VARIABLES
  custom,   \* policy_ is CUSTOM
  stage,    \* stage[u]: "none", "idle" (alive, unscheduled), "added", "in" (mapped), "unmapped"
  idOf,     \* unitToTaskId_, or the id a caller in mid-operation holds
  nextId,   \* nextTaskId_
  tasks,    \* tasks_
  free,     \* blocks in taskPool_
  desc,     \* the SchedulerTask in each block
  loopPc,   \* the loop: "select", "pick", "run", "report"
  ready,    \* readyTaskIds_ not yet visited
  budget,   \* iterations left in this cycle
  cur,      \* the claimed block
  outcome,  \* TaskFinalizeOutcome::unit
  issued,   \* history: the unit each id was issued for
  ranId     \* history: the id whose task was claimed last

tvars == <<stage, idOf, nextId, tasks, free, desc, issued>>
lvars == <<loopPc, ready, budget, cur, outcome, ranId>>
taskVars == <<custom, tvars, lvars>>

Descriptors == [unit : Units, active : BOOLEAN, executing : BOOLEAN, pendingRemoval : BOOLEAN,
                failures : 0..MaxFailures, due : BOOLEAN, cool : BOOLEAN]

TasksTypeOK ==
  /\ custom \in BOOLEAN
  /\ stage \in [Units -> {"none", "idle", "added", "in", "unmapped"}]
  /\ idOf \in [Units -> 0..MaxTasks]
  /\ nextId \in 1..(MaxTasks + 1)
  /\ DOMAIN tasks \subseteq 1..(nextId - 1) /\ \A id \in DOMAIN tasks : tasks[id] \in Blocks \ free
  /\ free \subseteq Blocks
  /\ DOMAIN desc = Blocks \ free /\ \A d \in DOMAIN desc : desc[d] \in Descriptors
  /\ loopPc \in {"select", "pick", "run", "report"}
  /\ ready \subseteq Ids /\ budget \in 0..MaxTasks
  /\ cur \in (Blocks \ free) \cup {NoBlock}
  /\ issued \in [Ids -> Units] /\ ranId \in 0..MaxTasks

TasksInit ==
  /\ custom \in BOOLEAN
  /\ stage = [u \in Units |-> "none"] /\ idOf = [u \in Units |-> 0]
  /\ nextId = 1 /\ tasks = <<>> /\ free = Blocks /\ desc = <<>>
  /\ loopPc = "select" /\ ready = {} /\ budget = 0 /\ cur = NoBlock
  /\ outcome \in Units /\ issued \in {[id \in Ids |-> u] : u \in Units} /\ ranId = 0

Without(f, x) == Restrict(f, DOMAIN f \ {x})

-----------------------------------------------------------------------------
(* The owner of the units and the task API; any thread, the task included.  *)

Create(u) ==
  /\ stage[u] = "none" /\ stage' = [stage EXCEPT ![u] = "idle"]
  /\ UNCHANGED <<custom, idOf, nextId, tasks, free, desc, issued, lvars>>

\* addTask(); with an exhausted pool it returns 0 and changes nothing.
addTask(u) ==
  /\ stage[u] = "idle" /\ nextId \in Ids
  /\ \E d \in free :
       /\ free' = free \ {d}
       /\ desc' = [b \in Blocks \ free' |-> IF b # d THEN desc[b] ELSE
                     [unit |-> u, active |-> TRUE, executing |-> FALSE, pendingRemoval |-> FALSE,
                      failures |-> 0, due |-> FALSE, cool |-> TRUE]]
       /\ tasks' = [id \in DOMAIN tasks \cup {nextId} |-> IF id = nextId THEN d ELSE tasks[id]]
  /\ idOf' = [idOf EXCEPT ![u] = nextId]
  /\ issued' = [issued EXCEPT ![nextId] = u]
  /\ nextId' = nextId + 1
  /\ stage' = [stage EXCEPT ![u] = "added"]
  /\ UNCHANGED <<custom, lvars>>

\* The second half of scheduleProcessingUnit(), and the first of removeProcessingUnit(unit).
mapUnit(u, from, to) ==
  /\ stage[u] = from /\ stage' = [stage EXCEPT ![u] = to]
  /\ UNCHANGED <<custom, idOf, nextId, tasks, free, desc, issued, lvars>>

\* Fault: a removed block goes back to the pool whatever the loop is doing with it.
releaseAtOnce(removed) ==
  /\ free' = free \cup removed
  /\ desc' = [d \in Blocks \ free' |-> desc[d]]

\* Taken out of tasks_: a block that is executing is left to the loop.
release(removed) ==
  /\ free' = free \cup {d \in removed : ~desc[d].executing}
  /\ desc' = [d \in Blocks \ free' |->
                IF d \in removed THEN [desc[d] EXCEPT !.active = FALSE, !.pendingRemoval = TRUE]
                ELSE desc[d]]

\* removeProcessingUnit(unit) has erased the mapping first; removeProcessingUnit(id) does it last.
removeTask(u) ==
  /\ stage[u] \in {"unmapped", "in"}
  /\ stage' = [stage EXCEPT ![u] = "idle"]
  /\ idOf' = [idOf EXCEPT ![u] = 0]
  /\ IF idOf[u] \in DOMAIN tasks
       THEN tasks' = Without(tasks, idOf[u]) /\ release({tasks[idOf[u]]})
       ELSE UNCHANGED <<tasks, free, desc>>
  /\ UNCHANGED <<custom, nextId, issued, lvars>>

removeAllTasks ==
  /\ tasks # <<>> /\ tasks' = <<>> /\ release(Range(tasks))
  /\ UNCHANGED <<custom, stage, idOf, nextId, issued, lvars>>

updateTaskConstraints(id) ==
  /\ id \in DOMAIN tasks
  /\ \E due \in BOOLEAN : desc' = [desc EXCEPT ![tasks[id]].due = due]
  /\ UNCHANGED <<custom, stage, idOf, nextId, tasks, free, issued, lvars>>

\* AxonVexSystem::unregisterProcessingUnit destroys the unit when the scheduler let it go.
Destroy(u) ==
  /\ stage[u] = "idle" /\ stage' = [stage EXCEPT ![u] = "none"]
  /\ UNCHANGED <<custom, idOf, nextId, tasks, free, desc, issued, lvars>>

\* A period, or a back-off, runs out.
Elapse(d) ==
  /\ d \in Blocks \ free
  /\ \/ desc' = [desc EXCEPT ![d].due = TRUE]
     \/ desc' = [desc EXCEPT ![d].cool = TRUE]
  /\ UNCHANGED <<custom, stage, idOf, nextId, tasks, free, issued, lvars>>

-----------------------------------------------------------------------------
(* One cycle of schedulerLoop().                                            *)

\* Fault: the back-off is not waited for.
cooledAlways(t) == ~t.active /\ t.failures > 0

cooled(t) == ~t.active /\ t.failures > 0 /\ t.cool

reactivated(d) ==
  IF d \in Range(tasks) /\ cooled(desc[d]) THEN [desc[d] EXCEPT !.active = TRUE, !.failures = 0]
  ELSE desc[d]

\* Fault: one task a cycle, as before the ready set (C1).
selectOneTask ==
  /\ loopPc = "select"
  /\ desc' = [d \in DOMAIN desc |-> reactivated(d)]
  /\ LET isReady(t) == t.active /\ ~t.executing /\ t.due
         all == {id \in DOMAIN tasks : isReady(desc'[tasks[id]])}
     IN  /\ ready' = {id \in all : ~custom /\ \A other \in all : id <= other}
         /\ budget' = IF custom THEN Cardinality(DOMAIN tasks) ELSE Cardinality(ready')
  /\ loopPc' = "pick"
  /\ UNCHANGED <<custom, stage, idOf, nextId, tasks, free, issued, cur, outcome, ranId>>

selectReadyTasksForCycle ==
  /\ loopPc = "select"
  /\ desc' = [d \in DOMAIN desc |-> reactivated(d)]
  /\ LET isReady(t) == t.active /\ ~t.executing /\ t.due
     IN  ready' = {id \in DOMAIN tasks : ~custom /\ isReady(desc'[tasks[id]])}
  /\ budget' = IF custom THEN Cardinality(DOMAIN tasks) ELSE Cardinality(ready')
  /\ loopPc' = "pick"
  /\ UNCHANGED <<custom, stage, idOf, nextId, tasks, free, issued, cur, outcome, ranId>>

EndTaskCycle ==
  \* out of iterations, or the custom scheduler returned 0
  /\ loopPc = "pick" /\ (budget = 0 \/ custom)
  /\ loopPc' = "select"
  /\ UNCHANGED <<custom, tvars, ready, budget, cur, outcome, ranId>>

\* A selected id is looked up again under the lock; a custom scheduler may return any id.
claim(id) ==
  /\ loopPc = "pick" /\ budget > 0
  /\ IF custom THEN UNCHANGED ready ELSE id \in ready /\ ready' = ready \ {id}
  /\ budget' = budget - 1
  /\ IF id \in DOMAIN tasks /\ desc[tasks[id]].active /\ ~desc[tasks[id]].executing
       THEN /\ cur' = tasks[id] /\ ranId' = id /\ loopPc' = "run"
            /\ desc' = [desc EXCEPT ![tasks[id]].executing = TRUE]
       ELSE UNCHANGED <<cur, ranId, loopPc, desc>>
  /\ UNCHANGED <<custom, stage, idOf, nextId, tasks, free, issued, outcome>>

\* Bookkeeping of a finished execution, then the claim is released.
finalized(t, success, due) ==
  IF success THEN [t EXCEPT !.executing = FALSE, !.due = due, !.failures = 0]
  ELSE LET n == IF t.failures < MaxFailures THEN t.failures + 1 ELSE MaxFailures
       IN  [t EXCEPT !.executing = FALSE, !.failures = n,
                     !.active = t.active /\ n < MaxFailures, !.cool = t.cool /\ n < MaxFailures]

\* Fault: a task removed while it ran is not given back.
finalizeLeaking(success, due) ==
  /\ loopPc = "run"
  /\ outcome' = desc[cur].unit
  /\ desc' = [desc EXCEPT ![cur] = finalized(desc[cur], success, due)]
  /\ cur' = NoBlock
  /\ loopPc' = IF success THEN "pick" ELSE "report"
  /\ UNCHANGED <<custom, stage, idOf, nextId, tasks, free, issued, ready, budget, ranId>>

finalizeTaskExecution(success, due) ==
  /\ loopPc = "run"
  /\ outcome' = desc[cur].unit
  /\ free' = free \cup {d \in {cur} : desc[d].pendingRemoval}
  /\ desc' = [d \in Blocks \ free' |->
                IF d = cur THEN finalized(desc[d], success, due) ELSE desc[d]]
  /\ cur' = NoBlock
  /\ loopPc' = IF success THEN "pick" ELSE "report"
  /\ UNCHANGED <<custom, stage, idOf, nextId, tasks, issued, ready, budget, ranId>>

\* errorCallback_(outcome.unit, ...), unlocked.
Report ==
  /\ loopPc = "report" /\ loopPc' = "pick"
  /\ UNCHANGED <<custom, tvars, ready, budget, cur, outcome, ranId>>

-----------------------------------------------------------------------------

Owner == \/ \E u \in Units : \/ Create(u) \/ addTask(u) \/ removeTask(u) \/ Destroy(u)
                             \/ mapUnit(u, "added", "in") \/ mapUnit(u, "in", "unmapped")
         \/ removeAllTasks
         \/ \E id \in Ids : updateTaskConstraints(id)

TaskLoop == \/ selectReadyTasksForCycle \/ EndTaskCycle \/ Report
            \/ \E id \in Ids : claim(id)
            \/ \E success, due \in BOOLEAN : finalizeTaskExecution(success, due)

TasksNext == Owner \/ TaskLoop \/ \E d \in Blocks : Elapse(d)

TasksSpec == TasksInit /\ [][TasksNext]_taskVars
TasksFairSpec == TasksSpec /\ WF_taskVars(TaskLoop)

-----------------------------------------------------------------------------
(* What the task machinery promises.                                        *)

\* C1: a block is in use exactly when an id leads to it, or when it was removed in the
\* middle of its execution and the loop still owes it to the pool: nothing leaks, and
\* nothing that the loop executes is in the free list.
PoolAccounts ==
  /\ Blocks \ free = Range(tasks) \cup {d \in {cur} \ {NoBlock} : desc[d].pendingRemoval}
  /\ \A i, j \in DOMAIN tasks : tasks[i] = tasks[j] => i = j

\* The claim marks the one block the loop executes, and only a claimed block outlives
\* its removal.
ClaimIsExact ==
  \A d \in Blocks \ free : /\ desc[d].executing <=> d = cur
                           /\ desc[d].pendingRemoval <=> d \notin Range(tasks)

\* The loop runs the unit that the id it selected was issued for, and reports an error
\* of that unit, even when the task removed itself and its block has a new owner.
RunsWhatItSelected ==
  /\ loopPc = "run" => cur \in DOMAIN desc /\ desc[cur].unit = issued[ranId]
  /\ loopPc = "report" => outcome = issued[ranId]

\* C1: the blocks of the pool, and whose unit they lead the loop to.
TasksSound == RunsWhatItSelected /\ PoolAccounts

\* A task that failed MaxFailures times in a row is not executed until its back-off is over.
BackoffHolds ==
  [][\A d \in Blocks \ free : cur = NoBlock /\ cur' = d => desc[d].cool]_taskVars

\* C1: every task that is due is executed, whatever the policy's order and whatever the
\* other tasks do, as long as the policy is not a custom one.
DueTaskRuns ==
  \A id \in Ids :
    LET due == id \in DOMAIN tasks /\ desc[tasks[id]].active /\ desc[tasks[id]].due
    IN  (~custom /\ due) ~> (~due \/ desc[tasks[id]].executing)

\* The unit whose code runs, or that is reported, has not been destroyed.
ExecutesLiveUnit ==
  /\ loopPc = "run" => stage[desc[cur].unit] # "none"
  /\ loopPc = "report" => stage[outcome] # "none"
=============================================================================
