----------------------- MODULE RealTimeSchedulerProofs -----------------------
(***************************************************************************)
(* The two halves of the scheduler, for every set of clients, calls, units *)
(* and blocks: its tasks are accounted for and run as selected, and its    *)
(* life cycle implements LoopContract.                                     *)
(***************************************************************************)
EXTENDS RealTimeScheduler, SchedulerTasks, FiniteSetTheorems, TLAPS

(* The task pool, the claims and the back-off.                               *)

\* The loop has a block in hand exactly between the claim and the end of the execution.
LoopInv ==
  /\ loopPc = "run" <=> cur # NoBlock
  /\ loopPc \in {"run", "report"} => ranId \in 1..(nextId - 1)

\* A block leads to the unit that its id was issued for, and backs off only while inactive.
UnitInv ==
  /\ \A id \in DOMAIN tasks : desc[tasks[id]].unit = issued[id]
  /\ \A d \in Blocks \ free : desc[d].active => desc[d].cool

TasksInv == TasksTypeOK /\ PoolAccounts /\ ClaimIsExact /\ RunsWhatItSelected /\ LoopInv /\ UnitInv

\* The state of a block that no id leads to, and that the loop does not execute, is free.
LEMMA InitTasksInv == TasksInit => TasksInv
<1> SUFFICES ASSUME TasksInit PROVE TasksInv
  OBVIOUS
<1>1. DOMAIN tasks = {} /\ DOMAIN desc = {} /\ free = Blocks
  BY DEF TasksInit
<1>2. TasksTypeOK
  BY <1>1, BoundsAssumption DEF TasksInit, TasksTypeOK, Ids
<1>3. PoolAccounts
  BY <1>1 DEF TasksInit, PoolAccounts, Range
<1> QED
  BY <1>1, <1>2, <1>3 DEF TasksInit, TasksInv, ClaimIsExact, RunsWhatItSelected, LoopInv, UnitInv

\* Steps that touch no block.
LEMMA UnitStep ==
  ASSUME TasksInv, NEW u \in Units,
         Create(u) \/ mapUnit(u, "added", "in") \/ mapUnit(u, "in", "unmapped") \/ Destroy(u)
  PROVE  TasksInv'
<1>1. /\ UNCHANGED <<custom, idOf, nextId, tasks, free, desc, issued, lvars>>
      /\ \E s \in {"none", "idle", "in", "unmapped"} : stage' = [stage EXCEPT ![u] = s]
  BY DEF Create, mapUnit, Destroy
<1>2. TasksTypeOK'
  BY <1>1 DEF TasksInv, TasksTypeOK, lvars
<1> QED
  BY <1>1, <1>2 DEF TasksInv, PoolAccounts, ClaimIsExact, RunsWhatItSelected, LoopInv, UnitInv, lvars

\* The end of a cycle and the error callback.
LEMMA LoopQuietStep ==
  ASSUME TasksInv, EndTaskCycle \/ Report \/ UNCHANGED taskVars
  PROVE  TasksInv'
<1>1. UNCHANGED <<custom, tvars, ready, budget, cur, outcome, ranId>>
  BY DEF EndTaskCycle, Report, taskVars, lvars
<1>2. loopPc' = loopPc \/ (loopPc \in {"pick", "report"} /\ loopPc' \in {"select", "pick"})
  BY DEF EndTaskCycle, Report, taskVars, lvars
<1>3. TasksTypeOK'
  BY <1>1, <1>2 DEF TasksInv, TasksTypeOK, tvars
<1> QED
  BY <1>1, <1>2, <1>3 DEF TasksInv, PoolAccounts, ClaimIsExact, RunsWhatItSelected, LoopInv, UnitInv, tvars

\* A new task takes a free block and a new id.
LEMMA AddStep ==
  ASSUME TasksInv, NEW u \in Units, addTask(u)
  PROVE  TasksInv'
<1>1. PICK d \in free :
        /\ free' = free \ {d}
        /\ desc' = [b \in Blocks \ free' |-> IF b # d THEN desc[b] ELSE
                     [unit |-> u, active |-> TRUE, executing |-> FALSE, pendingRemoval |-> FALSE,
                      failures |-> 0, due |-> FALSE, cool |-> TRUE]]
        /\ tasks' = [id \in DOMAIN tasks \cup {nextId} |-> IF id = nextId THEN d ELSE tasks[id]]
  BY DEF addTask
<1>2. /\ nextId \in Ids /\ nextId' = nextId + 1 /\ issued' = [issued EXCEPT ![nextId] = u]
      /\ idOf' = [idOf EXCEPT ![u] = nextId] /\ stage' = [stage EXCEPT ![u] = "added"]
      /\ UNCHANGED <<custom, loopPc, ready, budget, cur, outcome, ranId>>
  BY DEF addTask, lvars
<1>3. d \in Blocks /\ Blocks \ free' = (Blocks \ free) \cup {d} /\ d \notin Blocks \ free
  BY <1>1 DEF TasksInv, TasksTypeOK
<1>4. DOMAIN tasks \subseteq 1..(nextId - 1) /\ nextId \notin DOMAIN tasks /\ nextId \in Nat
  BY DEF TasksInv, TasksTypeOK
<1>5. /\ DOMAIN desc' = Blocks \ free' /\ \A b \in Blocks \ free : desc'[b] = desc[b]
      /\ desc'[d] = [unit |-> u, active |-> TRUE, executing |-> FALSE, pendingRemoval |-> FALSE,
                     failures |-> 0, due |-> FALSE, cool |-> TRUE]
  BY <1>1, <1>3
<1>6. /\ DOMAIN tasks' = DOMAIN tasks \cup {nextId} /\ tasks'[nextId] = d
      /\ \A id \in DOMAIN tasks : tasks'[id] = tasks[id] /\ tasks[id] \in Blocks \ free /\ tasks[id] # d
  BY <1>1, <1>3, <1>4 DEF TasksInv, TasksTypeOK
<1>7. desc'[d] \in Descriptors
  BY <1>5, BoundsAssumption DEF Descriptors
<1>8. TasksTypeOK'
  <2>1. \A b \in DOMAIN desc' : desc'[b] \in Descriptors
    BY <1>3, <1>5, <1>7 DEF TasksInv, TasksTypeOK
  <2>2. nextId' \in 1..(MaxTasks + 1) /\ nextId \in 0..MaxTasks /\ DOMAIN tasks' \subseteq 1..(nextId' - 1)
    BY <1>2, <1>4, <1>6, BoundsAssumption DEF Ids
  <2>3. \A id \in DOMAIN tasks' : tasks'[id] \in Blocks \ free'
    BY <1>3, <1>6
  <2>4. idOf' \in [Units -> 0..MaxTasks] /\ issued' \in [Ids -> Units]
    BY <1>2, <2>2 DEF TasksInv, TasksTypeOK
  <2>5. cur' \in (Blocks \ free') \cup {NoBlock}
    BY <1>2, <1>3 DEF TasksInv, TasksTypeOK
  <2> QED
    BY <1>1, <1>2, <1>5, <2>1, <2>2, <2>3, <2>4, <2>5 DEF TasksInv, TasksTypeOK
<1>9. Range(tasks') = Range(tasks) \cup {d}
  BY <1>4, <1>6 DEF Range
<1>10. cur # d
  BY <1>3, BlocksAssumption DEF TasksInv, TasksTypeOK
<1>11. PoolAccounts'
  <2>1. {x \in {cur} \ {NoBlock} : desc[x].pendingRemoval} = {x \in {cur} \ {NoBlock} : desc'[x].pendingRemoval}
    BY <1>5 DEF TasksInv, TasksTypeOK
  <2>2. Blocks \ free' = Range(tasks') \cup {x \in {cur} \ {NoBlock} : desc'[x].pendingRemoval}
    BY <1>3, <1>9, <2>1 DEF TasksInv, PoolAccounts
  <2>3. \A i, j \in DOMAIN tasks' : tasks'[i] = tasks'[j] => i = j
    BY <1>6 DEF TasksInv, PoolAccounts
  <2> QED
    BY <1>2, <2>2, <2>3 DEF PoolAccounts
<1>12. ClaimIsExact'
  BY <1>2, <1>3, <1>5, <1>9, <1>10 DEF TasksInv, ClaimIsExact
<1>13. \A i \in DOMAIN issued : i # nextId => issued'[i] = issued[i]
  BY <1>2
<1>14. RunsWhatItSelected' /\ LoopInv'
  <2>1. loopPc \in {"run", "report"} => ranId \in 1..(nextId - 1) /\ ranId \in 1..nextId /\ issued'[ranId] = issued[ranId]
    BY <1>2, <1>4 DEF TasksInv, LoopInv, TasksTypeOK, Ids
  <2>2. cur # NoBlock => desc'[cur] = desc[cur] /\ cur \in DOMAIN desc'
    BY <1>5, <1>3 DEF TasksInv, TasksTypeOK
  <2> QED
    BY <1>2, <1>4, <2>1, <2>2 DEF TasksInv, LoopInv, RunsWhatItSelected
<1>15. UnitInv'
  <2>1. issued'[nextId] = u /\ \A id \in DOMAIN tasks : issued'[id] = issued[id]
    BY <1>2, <1>4 DEF TasksInv, TasksTypeOK, Ids
  <2> QED
    BY <2>1, <1>3, <1>5, <1>6 DEF TasksInv, UnitInv
<1> QED
  BY <1>8, <1>11, <1>12, <1>14, <1>15 DEF TasksInv

\* Whatever is taken out of tasks_, its block goes back or stays with the loop.
LEMMA ReleaseStep ==
  ASSUME TasksInv, NEW removed \in SUBSET Blocks, release(removed),
         removed = Range(tasks) \ Range(tasks'),
         DOMAIN tasks' \subseteq DOMAIN tasks, \A id \in DOMAIN tasks' : tasks'[id] = tasks[id],
         UNCHANGED <<custom, nextId, issued, lvars>>,
         stage' \in [Units -> {"none", "idle", "added", "in", "unmapped"}],
         idOf' \in [Units -> 0..MaxTasks]
  PROVE  TasksInv'
<1> DEFINE kept == {d \in removed : desc[d].executing}
<1>1. removed \subseteq Blocks \ free /\ Range(tasks') \subseteq Range(tasks)
  BY DEF TasksInv, TasksTypeOK, Range
<1>2. \A d \in removed : d \in kept <=> d = cur
  BY <1>1 DEF TasksInv, ClaimIsExact
<1>3. Blocks \ free' = (Blocks \ free) \ (removed \ kept) /\ free' \subseteq Blocks
  BY <1>1 DEF release, TasksInv, TasksTypeOK
<1>4. /\ DOMAIN desc' = Blocks \ free'
      /\ \A d \in Blocks \ free' :
           desc'[d] = IF d \in removed THEN [desc[d] EXCEPT !.active = FALSE, !.pendingRemoval = TRUE]
                      ELSE desc[d]
  BY DEF release
<1>5. UNCHANGED <<custom, nextId, issued, loopPc, ready, budget, cur, outcome, ranId>>
  BY DEF lvars
<1>6. Range(tasks') \cap removed = {}
  OBVIOUS
<1>7. Range(tasks') \subseteq Blocks \ free'
  BY <1>1, <1>3, <1>6 DEF TasksInv, TasksTypeOK, Range
<1>8. cur # NoBlock => cur \in Blocks \ free'
  BY <1>2, <1>3 DEF TasksInv, TasksTypeOK
<1>9. \A d \in Blocks \ free' :
        /\ desc[d] \in Descriptors
        /\ desc'[d] \in Descriptors
        /\ desc'[d].unit = desc[d].unit
        /\ desc'[d].executing = desc[d].executing
        /\ (desc'[d].pendingRemoval <=> (desc[d].pendingRemoval \/ d \in removed))
        /\ (desc'[d].active => desc[d].active)
        /\ desc'[d].cool = desc[d].cool
  <2> TAKE d \in Blocks \ free'
  <2>1. desc[d] \in Descriptors
    BY <1>3 DEF TasksInv, TasksTypeOK
  <2>2. CASE d \in removed
    <3>1. desc'[d] = [desc[d] EXCEPT !.active = FALSE, !.pendingRemoval = TRUE]
      BY <2>2, <1>4
    <3> QED
      BY <2>1, <2>2, <3>1 DEF Descriptors
  <2>3. CASE d \notin removed
    <3>1. desc'[d] = desc[d]
      BY <2>3, <1>4
    <3> QED
      BY <2>1, <2>3, <3>1
  <2> QED
    BY <2>2, <2>3
<1>10. TasksTypeOK'
  <2>1. \A id \in DOMAIN tasks' : tasks'[id] \in Blocks \ free'
    BY <1>7 DEF Range
  <2>2. DOMAIN tasks' \subseteq 1..(nextId' - 1)
    BY <1>5 DEF TasksInv, TasksTypeOK
  <2>3. free' \subseteq Blocks /\ DOMAIN desc' = Blocks \ free' /\ \A d \in DOMAIN desc' : desc'[d] \in Descriptors
    BY <1>3, <1>4, <1>9
  <2>4. cur' \in (Blocks \ free') \cup {NoBlock}
    BY <1>5, <1>8 DEF TasksInv, TasksTypeOK
  <2> QED
    BY <1>5, <2>1, <2>2, <2>3, <2>4 DEF TasksInv, TasksTypeOK
<1>11. PoolAccounts'
  <2>1. \A d \in Blocks \ free' : d \in Range(tasks') \/ (d = cur /\ desc'[d].pendingRemoval)
    BY <1>2, <1>3, <1>9 DEF TasksInv, PoolAccounts
  <2>2. Blocks \ free' = Range(tasks') \cup {d \in {cur} \ {NoBlock} : desc'[d].pendingRemoval}
    BY <1>7, <1>8, <2>1, BlocksAssumption DEF TasksInv, TasksTypeOK
  <2> QED
    BY <1>5, <2>2 DEF TasksInv, PoolAccounts
<1>12. ClaimIsExact'
  <2> SUFFICES ASSUME NEW d \in Blocks \ free'
               PROVE  /\ (desc'[d].executing <=> d = cur)
                      /\ (desc'[d].pendingRemoval <=> d \notin Range(tasks'))
    BY <1>5 DEF ClaimIsExact
  <2>1. /\ (desc[d].executing <=> d = cur)
        /\ (desc[d].pendingRemoval <=> d \notin Range(tasks))
    BY <1>3 DEF TasksInv, ClaimIsExact
  <2> QED
    BY <1>1, <1>9, <2>1
<1>13. RunsWhatItSelected' /\ LoopInv'
  BY <1>4, <1>5, <1>8, <1>9 DEF TasksInv, RunsWhatItSelected, LoopInv
<1>14. UnitInv'
  <2>1. \A id \in DOMAIN tasks' : tasks'[id] \in Blocks \ free'
    BY <1>7 DEF Range
  <2>2. \A id \in DOMAIN tasks' : desc'[tasks'[id]].unit = issued'[id]
    BY <1>5, <1>9, <2>1 DEF TasksInv, UnitInv
  <2>3. \A d \in Blocks \ free' : desc'[d].active => desc'[d].cool
    BY <1>3, <1>9 DEF TasksInv, UnitInv
  <2> QED
    BY <2>2, <2>3 DEF UnitInv
<1> QED
  BY <1>10, <1>11, <1>12, <1>13, <1>14 DEF TasksInv

\* removeTask() of an id that is known, or not any more, and removeAllTasks().
LEMMA RemoveStep ==
  ASSUME TasksInv, (\E u \in Units : removeTask(u)) \/ removeAllTasks
  PROVE  TasksInv'
<1>1. ASSUME NEW u \in Units, removeTask(u) PROVE TasksInv'
  <2>1. /\ stage' \in [Units -> {"none", "idle", "added", "in", "unmapped"}]
        /\ idOf' \in [Units -> 0..MaxTasks]
        /\ UNCHANGED <<custom, nextId, issued, lvars>>
    BY <1>1, BoundsAssumption DEF removeTask, TasksInv, TasksTypeOK
  <2>2. CASE idOf[u] \in DOMAIN tasks
    <3>1. tasks' = [id \in DOMAIN tasks \ {idOf[u]} |-> tasks[id]] /\ release({tasks[idOf[u]]})
      BY <1>1, <2>2 DEF removeTask, Without, Restrict
    <3>2. {tasks[idOf[u]]} = Range(tasks) \ Range(tasks')
      BY <2>2, <3>1 DEF TasksInv, PoolAccounts, Range
    <3>3. {tasks[idOf[u]]} \in SUBSET Blocks
      BY <2>2 DEF TasksInv, TasksTypeOK
    <3> QED
      BY <2>1, <3>1, <3>2, <3>3, ReleaseStep
  <2>3. CASE idOf[u] \notin DOMAIN tasks
    <3>1. UNCHANGED <<custom, nextId, tasks, free, desc, issued, loopPc, ready, budget, cur, outcome, ranId>>
      BY <1>1, <2>3 DEF removeTask, lvars
    <3> QED
      BY <2>1, <3>1 DEF TasksInv, TasksTypeOK, PoolAccounts, ClaimIsExact, RunsWhatItSelected, LoopInv, UnitInv
  <2> QED
    BY <2>2, <2>3
<1>2. ASSUME removeAllTasks PROVE TasksInv'
  <2>1. DOMAIN tasks' = {} /\ Range(tasks') = {} /\ release(Range(tasks))
    BY <1>2 DEF removeAllTasks, Range
  <2>2. Range(tasks) \in SUBSET Blocks /\ UNCHANGED <<custom, nextId, issued, lvars>>
    BY <1>2 DEF TasksInv, TasksTypeOK, Range, removeAllTasks
  <2>3. /\ stage' \in [Units -> {"none", "idle", "added", "in", "unmapped"}]
        /\ idOf' \in [Units -> 0..MaxTasks]
    BY <1>2 DEF removeAllTasks, TasksInv, TasksTypeOK
  <2> QED
    BY <2>1, <2>2, <2>3, ReleaseStep
<1> QED
  BY <1>1, <1>2

\* Steps of the loop and of time that change the descriptors but neither tasks_ nor the pool.
LEMMA DescStep ==
  ASSUME TasksInv, UNCHANGED <<custom, stage, idOf, nextId, tasks, free, issued, outcome>>,
         DOMAIN desc' = DOMAIN desc, \A d \in DOMAIN desc : desc'[d] \in Descriptors,
         \A d \in DOMAIN desc : desc'[d].unit = desc[d].unit,
         \A d \in DOMAIN desc : (desc'[d].pendingRemoval <=> desc[d].pendingRemoval),
         \A d \in DOMAIN desc : (desc'[d].executing <=> d = cur'),
         \A d \in DOMAIN desc : (desc'[d].active => desc'[d].cool),
         loopPc' \in {"select", "pick", "run", "report"}, ready' \subseteq Ids, budget' \in 0..MaxTasks,
         \/ UNCHANGED <<loopPc, cur, ranId>>
         \/ loopPc' = "pick" /\ cur' = NoBlock /\ ranId' = ranId /\ cur = NoBlock
         \/ /\ loopPc' = "run" /\ cur = NoBlock /\ ranId' \in DOMAIN tasks /\ cur' = tasks[ranId']
            /\ ~desc[cur'].pendingRemoval
  PROVE  TasksInv'
<1>1. /\ DOMAIN desc = Blocks \ free /\ cur \in DOMAIN desc \cup {NoBlock}
      /\ \A id \in DOMAIN tasks : tasks[id] \in DOMAIN desc
      /\ DOMAIN tasks \subseteq 1..(nextId - 1) /\ nextId \in 1..(MaxTasks + 1)
  BY DEF TasksInv, TasksTypeOK
<1>2. cur' \in DOMAIN desc \cup {NoBlock} /\ ranId' \in 0..MaxTasks
  BY <1>1, BoundsAssumption DEF TasksInv, TasksTypeOK
<1>3. TasksTypeOK'
  BY <1>1, <1>2 DEF TasksInv, TasksTypeOK
<1>4. PoolAccounts'
  <2>1. \A d \in DOMAIN desc : d = cur' /\ desc'[d].pendingRemoval <=> d = cur /\ desc[d].pendingRemoval
    BY <1>1, BlocksAssumption
  <2>2. {d \in {cur} \ {NoBlock} : desc[d].pendingRemoval} = {d \in {cur'} \ {NoBlock} : desc'[d].pendingRemoval}
    BY <1>1, <1>2, <2>1
  <2> QED
    BY <2>2 DEF TasksInv, PoolAccounts
<1>5. ClaimIsExact'
  BY <1>1 DEF TasksInv, ClaimIsExact
<1>6. RunsWhatItSelected' /\ LoopInv'
  BY <1>1, BlocksAssumption DEF TasksInv, RunsWhatItSelected, LoopInv, UnitInv
<1>7. UnitInv'
  BY <1>1 DEF TasksInv, UnitInv
<1> QED
  BY <1>3, <1>4, <1>5, <1>6, <1>7 DEF TasksInv

\* A period or a back-off runs out, or the owner changes the constraints of a task.
LEMMA TimeStep ==
  ASSUME TasksInv, (\E id \in Ids : updateTaskConstraints(id)) \/ (\E d \in Blocks : Elapse(d))
  PROVE  TasksInv'
<1>1. PICK d \in Blocks \ free :
        \/ \E due \in BOOLEAN : desc' = [desc EXCEPT ![d].due = due]
        \/ desc' = [desc EXCEPT ![d].cool = TRUE]
  BY DEF updateTaskConstraints, Elapse, TasksInv, TasksTypeOK
<1>2. UNCHANGED <<custom, stage, idOf, nextId, tasks, free, issued, loopPc, ready, budget, cur, outcome, ranId>>
  BY DEF updateTaskConstraints, Elapse, lvars
<1>3. /\ DOMAIN desc = Blocks \ free /\ desc[d] \in Descriptors
      /\ \A b \in DOMAIN desc : desc[b] \in Descriptors
      /\ ready \subseteq Ids /\ budget \in 0..MaxTasks /\ loopPc \in {"select", "pick", "run", "report"}
  BY <1>1 DEF TasksInv, TasksTypeOK
<1>4. \A b \in DOMAIN desc : (desc[b].executing <=> b = cur) /\ (desc[b].active => desc[b].cool)
  BY <1>3 DEF TasksInv, ClaimIsExact, UnitInv
<1>5. \E due, cool \in BOOLEAN :
        /\ desc' = [desc EXCEPT ![d] = [desc[d] EXCEPT !.due = due, !.cool = cool]]
        /\ (desc[d].cool => cool)
  <2>1. CASE \E due \in BOOLEAN : desc' = [desc EXCEPT ![d].due = due]
    <3>1. PICK due \in BOOLEAN : desc' = [desc EXCEPT ![d].due = due]
      BY <2>1
    <3>2. [desc[d] EXCEPT !.due = due] = [desc[d] EXCEPT !.due = due, !.cool = desc[d].cool]
      BY <1>3 DEF Descriptors
    <3>3. desc' = [desc EXCEPT ![d] = [desc[d] EXCEPT !.due = due, !.cool = desc[d].cool]] /\ desc[d].cool \in BOOLEAN
      BY <3>1, <3>2, <1>3 DEF Descriptors
    <3> QED
      BY <3>3
  <2>2. CASE desc' = [desc EXCEPT ![d].cool = TRUE]
    <3>1. [desc[d] EXCEPT !.cool = TRUE] = [desc[d] EXCEPT !.due = desc[d].due, !.cool = TRUE]
      BY <1>3 DEF Descriptors
    <3>2. desc' = [desc EXCEPT ![d] = [desc[d] EXCEPT !.due = desc[d].due, !.cool = TRUE]] /\ desc[d].due \in BOOLEAN
      BY <2>2, <3>1, <1>3 DEF Descriptors
    <3> QED
      BY <3>2
  <2> QED
    BY <1>1, <2>1, <2>2
<1>6. PICK due, cool \in BOOLEAN :
        /\ desc' = [desc EXCEPT ![d] = [desc[d] EXCEPT !.due = due, !.cool = cool]]
        /\ (desc[d].cool => cool)
  BY <1>5
<1>7. /\ desc'[d] \in Descriptors /\ desc'[d].unit = desc[d].unit /\ desc'[d].active = desc[d].active
      /\ desc'[d].pendingRemoval = desc[d].pendingRemoval /\ desc'[d].executing = desc[d].executing
      /\ (desc[d].cool => desc'[d].cool)
  BY <1>3, <1>6 DEF Descriptors
<1>8. DOMAIN desc' = DOMAIN desc /\ \A b \in DOMAIN desc : b # d => desc'[b] = desc[b]
  BY <1>6
<1> QED
  BY <1>2, <1>3, <1>4, <1>7, <1>8, DescStep

\* The back-offs that are over end, and the ready set is collected.
LEMMA SelectStep ==
  ASSUME TasksInv, selectReadyTasksForCycle
  PROVE  TasksInv'
<1>1. /\ desc' = [d \in DOMAIN desc |-> reactivated(d)] /\ loopPc = "select" /\ loopPc' = "pick"
      /\ ready' \subseteq DOMAIN tasks
      /\ budget' = IF custom THEN Cardinality(DOMAIN tasks) ELSE Cardinality(ready')
      /\ UNCHANGED <<custom, stage, idOf, nextId, tasks, free, issued, cur, outcome, ranId>>
  BY DEF selectReadyTasksForCycle
<1>2. /\ DOMAIN tasks \subseteq Ids /\ \A d \in DOMAIN desc : desc[d] \in Descriptors
      /\ DOMAIN desc = Blocks \ free /\ cur = NoBlock
  BY <1>1, BoundsAssumption DEF TasksInv, TasksTypeOK, LoopInv, Ids
<1>3. budget' \in 0..MaxTasks
  <2>1. IsFiniteSet(Ids) /\ Cardinality(Ids) = MaxTasks
    BY FS_Interval, BoundsAssumption DEF Ids
  <2>2. \A S \in SUBSET Ids : Cardinality(S) \in 0..MaxTasks
    BY <2>1, FS_Subset, FS_CardinalityType, BoundsAssumption
  <2> QED
    BY <1>1, <1>2, <2>2
<1>4. \A d \in DOMAIN desc : desc'[d] = desc[d] \/ (cooled(desc[d]) /\ desc'[d] = [desc[d] EXCEPT !.active = TRUE, !.failures = 0])
  BY <1>1 DEF reactivated
<1>5. \A d \in DOMAIN desc :
        /\ desc'[d] \in Descriptors
        /\ desc'[d].unit = desc[d].unit
        /\ desc'[d].pendingRemoval = desc[d].pendingRemoval
        /\ desc'[d].executing = desc[d].executing
        /\ ((desc[d].active => desc[d].cool) => (desc'[d].active => desc'[d].cool))
  <2> TAKE d \in DOMAIN desc
  <2>1. CASE desc'[d] = desc[d]
    BY <2>1, <1>2
  <2>2. CASE cooled(desc[d]) /\ desc'[d] = [desc[d] EXCEPT !.active = TRUE, !.failures = 0]
    <3>1. desc[d].cool /\ desc[d] \in Descriptors /\ 0 \in 0..MaxFailures
      BY <2>2, <1>2, BoundsAssumption DEF cooled
    <3>2. desc'[d] \in Descriptors
      BY <2>2, <3>1 DEF Descriptors
    <3>3. /\ desc'[d].unit = desc[d].unit /\ desc'[d].pendingRemoval = desc[d].pendingRemoval
          /\ desc'[d].executing = desc[d].executing /\ desc'[d].cool = desc[d].cool
      BY <2>2, <3>1 DEF Descriptors
    <3> QED
      BY <3>1, <3>2, <3>3
  <2> QED
    BY <1>4, <2>1, <2>2
<1>6. \A d \in DOMAIN desc : (desc[d].executing <=> d = cur) /\ (desc[d].active => desc[d].cool)
  BY <1>2 DEF TasksInv, ClaimIsExact, UnitInv
<1>7. DOMAIN desc' = DOMAIN desc
  BY <1>1
<1> QED
  BY <1>1, <1>2, <1>3, <1>5, <1>6, <1>7, DescStep

\* A selected id is looked up again, and its task claimed when it may run.
LEMMA ClaimStep ==
  ASSUME TasksInv, NEW id \in Ids, claim(id)
  PROVE  TasksInv'
<1>1. /\ loopPc = "pick" /\ budget > 0 /\ budget' = budget - 1 /\ ready' \subseteq ready
      /\ UNCHANGED <<custom, stage, idOf, nextId, tasks, free, issued, outcome>>
  BY DEF claim
<1>2. /\ budget' \in 0..MaxTasks /\ ready' \subseteq Ids /\ cur = NoBlock
      /\ DOMAIN desc = Blocks \ free
      /\ \A d \in DOMAIN desc : desc[d] \in Descriptors
      /\ \A d \in DOMAIN desc : (desc[d].executing <=> d = cur) /\ (desc[d].active => desc[d].cool)
  BY <1>1, BoundsAssumption DEF TasksInv, TasksTypeOK, LoopInv, ClaimIsExact, UnitInv
<1>3. CASE UNCHANGED <<cur, ranId, loopPc, desc>>
  BY <1>1, <1>2, <1>3, DescStep DEF TasksInv, TasksTypeOK
<1>4. CASE /\ id \in DOMAIN tasks /\ cur' = tasks[id] /\ ranId' = id /\ loopPc' = "run"
           /\ desc' = [desc EXCEPT ![tasks[id]].executing = TRUE]
  <2>1. tasks[id] \in DOMAIN desc /\ tasks[id] \in Range(tasks)
    BY <1>2, <1>4 DEF TasksInv, TasksTypeOK, Range
  <2>2. ~desc[cur'].pendingRemoval
    BY <1>2, <1>4, <2>1 DEF TasksInv, ClaimIsExact
  <2>3. desc'[cur'] = [desc[cur'] EXCEPT !.executing = TRUE] /\ desc[cur'] \in Descriptors
    BY <1>2, <1>4, <2>1
  <2>4. /\ desc'[cur'] \in Descriptors /\ desc'[cur'].unit = desc[cur'].unit /\ desc'[cur'].executing
        /\ desc'[cur'].pendingRemoval = desc[cur'].pendingRemoval
        /\ desc'[cur'].active = desc[cur'].active /\ desc'[cur'].cool = desc[cur'].cool
    BY <2>3 DEF Descriptors
  <2>5. DOMAIN desc' = DOMAIN desc /\ \A d \in DOMAIN desc : d # cur' => desc'[d] = desc[d]
    BY <1>4
  <2>6. \A d \in DOMAIN desc : ~desc[d].executing
    BY <1>2, BlocksAssumption
  <2> QED
    BY <1>1, <1>2, <1>4, <2>2, <2>4, <2>5, <2>6, DescStep
<1> QED
  BY <1>3, <1>4 DEF claim

\* What the bookkeeping of an execution leaves in a descriptor.
LEMMA FinalizedDescriptor ==
  ASSUME NEW t \in Descriptors, NEW success \in BOOLEAN, NEW due \in BOOLEAN
  PROVE  /\ finalized(t, success, due) \in Descriptors
         /\ finalized(t, success, due).unit = t.unit
         /\ ~finalized(t, success, due).executing
         /\ finalized(t, success, due).pendingRemoval = t.pendingRemoval
         /\ ((t.active => t.cool) =>
               (finalized(t, success, due).active => finalized(t, success, due).cool))
<1>1. CASE success
  <2>1. finalized(t, success, due) = [t EXCEPT !.executing = FALSE, !.due = due, !.failures = 0]
    BY <1>1 DEF finalized
  <2>2. 0 \in 0..MaxFailures
    BY BoundsAssumption
  <2>3. /\ finalized(t, success, due) \in Descriptors
        /\ finalized(t, success, due).unit = t.unit
        /\ finalized(t, success, due).executing = FALSE
        /\ finalized(t, success, due).pendingRemoval = t.pendingRemoval
        /\ finalized(t, success, due).active = t.active
        /\ finalized(t, success, due).cool = t.cool
    BY <2>1, <2>2 DEF Descriptors
  <2> QED
    BY <2>3
<1>2. CASE ~success
  <2> DEFINE n == IF t.failures < MaxFailures THEN t.failures + 1 ELSE MaxFailures
  <2>1. finalized(t, success, due) =
          [t EXCEPT !.executing = FALSE, !.failures = n,
                    !.active = t.active /\ n < MaxFailures, !.cool = t.cool /\ n < MaxFailures]
    BY <1>2 DEF finalized
  <2>2. n \in 0..MaxFailures
    BY BoundsAssumption DEF Descriptors
  <2> HIDE DEF n
  <2>3. (t.active /\ n < MaxFailures) \in BOOLEAN /\ (t.cool /\ n < MaxFailures) \in BOOLEAN
    OBVIOUS
  <2> DEFINE a == t.active /\ n < MaxFailures
             c == t.cool /\ n < MaxFailures
  <2>4. /\ (a => t.active) /\ (a => n < MaxFailures) /\ (t.cool /\ n < MaxFailures => c)
        /\ a \in BOOLEAN /\ c \in BOOLEAN
    OBVIOUS
  <2>5. finalized(t, success, due) = [t EXCEPT !.executing = FALSE, !.failures = n, !.active = a, !.cool = c]
    BY <2>1
  <2> HIDE DEF a, c
  <2>6. /\ finalized(t, success, due) \in Descriptors
        /\ finalized(t, success, due).unit = t.unit
        /\ finalized(t, success, due).executing = FALSE
        /\ finalized(t, success, due).pendingRemoval = t.pendingRemoval
        /\ finalized(t, success, due).active = a
        /\ finalized(t, success, due).cool = c
    BY <2>2, <2>4, <2>5 DEF Descriptors
  <2> QED
    BY <2>4, <2>6
<1> QED
  BY <1>1, <1>2

\* The end of an execution: a block that was removed meanwhile goes back to the pool.
LEMMA FinalizeStep ==
  ASSUME TasksInv, NEW success \in BOOLEAN, NEW due \in BOOLEAN, finalizeTaskExecution(success, due)
  PROVE  TasksInv'
<1> DEFINE back == {d \in {cur} : desc[d].pendingRemoval}
<1>1. /\ loopPc = "run" /\ outcome' = desc[cur].unit /\ free' = free \cup back /\ cur' = NoBlock
      /\ loopPc' = IF success THEN "pick" ELSE "report"
      /\ desc' = [d \in Blocks \ free' |->
                    IF d = cur THEN finalized(desc[d], success, due) ELSE desc[d]]
      /\ UNCHANGED <<custom, stage, idOf, nextId, tasks, issued, ready, budget, ranId>>
  BY DEF finalizeTaskExecution
<1>2. /\ cur \in Blocks \ free /\ DOMAIN desc = Blocks \ free /\ free \subseteq Blocks
      /\ \A d \in Blocks \ free : desc[d] \in Descriptors
  BY <1>1 DEF TasksInv, TasksTypeOK, LoopInv
<1>3. \A d \in Blocks \ free : /\ (desc[d].executing <=> d = cur)
                               /\ (desc[d].pendingRemoval <=> d \notin Range(tasks))
                               /\ (desc[d].active => desc[d].cool)
  BY DEF TasksInv, ClaimIsExact, UnitInv
<1>4. Blocks \ free' = Range(tasks) /\ free' \subseteq Blocks
  <2>1. Blocks \ free = Range(tasks) \cup back
    BY <1>1, <1>2, BlocksAssumption DEF TasksInv, PoolAccounts
  <2>2. back \cap Range(tasks) = {}
    BY <1>2, <1>3
  <2> QED
    BY <1>1, <1>2, <2>1, <2>2
<1>5. DOMAIN desc' = Blocks \ free' /\ Blocks \ free' \subseteq Blocks \ free
  BY <1>1
<1>6. \A d \in Blocks \ free' :
        /\ desc'[d] \in Descriptors
        /\ desc'[d].unit = desc[d].unit
        /\ ~desc'[d].executing
        /\ ~desc'[d].pendingRemoval
        /\ (desc'[d].active => desc'[d].cool)
  <2> TAKE d \in Blocks \ free'
  <2>1. desc[d] \in Descriptors /\ ~desc[d].pendingRemoval /\ (desc[d].active => desc[d].cool)
    BY <1>2, <1>3, <1>4, <1>5
  <2>2. CASE d = cur
    <3>1. desc'[d] = finalized(desc[d], success, due)
      BY <1>1, <2>2
    <3> QED
      BY <2>1, <3>1, FinalizedDescriptor
  <2>3. CASE d # cur
    <3>1. desc'[d] = desc[d]
      BY <1>1, <2>3
    <3> QED
      BY <1>3, <1>5, <2>1, <2>3, <3>1
  <2> QED
    BY <2>2, <2>3
<1>7. \A id \in DOMAIN tasks : tasks[id] \in Range(tasks)
  BY DEF Range
<1>8. TasksTypeOK'
  <2>1. outcome' \in Units
    BY <1>1, <1>2 DEF Descriptors
  <2> QED
    BY <1>1, <1>4, <1>5, <1>6, <1>7 DEF TasksInv, TasksTypeOK
<1>9. PoolAccounts'
  BY <1>1, <1>4 DEF TasksInv, PoolAccounts
<1>10. ClaimIsExact'
  BY <1>1, <1>4, <1>6, BlocksAssumption DEF ClaimIsExact
<1>11. RunsWhatItSelected' /\ LoopInv'
  BY <1>1 DEF TasksInv, RunsWhatItSelected, LoopInv
<1>12. UnitInv'
  BY <1>1, <1>4, <1>6, <1>7 DEF TasksInv, UnitInv
<1> QED
  BY <1>8, <1>9, <1>10, <1>11, <1>12 DEF TasksInv

\* Every step of the owner, of the loop and of time keeps the invariant.
LEMMA NextTasksInv == TasksInv /\ [TasksNext]_taskVars => TasksInv'
<1> SUFFICES ASSUME TasksInv, [TasksNext]_taskVars PROVE TasksInv'
  OBVIOUS
<1>1. ASSUME Owner PROVE TasksInv'
  BY <1>1, UnitStep, AddStep, RemoveStep, TimeStep DEF Owner
<1>2. ASSUME TaskLoop PROVE TasksInv'
  BY <1>2, SelectStep, LoopQuietStep, ClaimStep, FinalizeStep DEF TaskLoop
<1> QED
  BY <1>1, <1>2, TimeStep, LoopQuietStep DEF TasksNext

LEMMA TasksInvariance == TasksSpec => []TasksInv
  BY InitTasksInv, NextTasksInv, PTL DEF TasksSpec

\* Every reachable state has the declared types.
THEOREM TypeCorrect == TasksSpec => []TasksTypeOK
<1>1. TasksInv => TasksTypeOK
  BY DEF TasksInv
<1> QED
  BY <1>1, TasksInvariance, PTL

\* No block of taskPool_ leaks or is freed while the loop executes it, and the loop runs and
\* reports the unit of the id it selected, whoever removes tasks in between.
THEOREM TasksAreSound == TasksSpec => []TasksSound
<1>1. TasksInv => TasksSound
  BY DEF TasksInv, TasksSound
<1> QED
  BY <1>1, TasksInvariance, PTL

\* The claim marks exactly the block that the loop executes.
THEOREM ClaimExact == TasksSpec => []ClaimIsExact
<1>1. TasksInv => ClaimIsExact
  BY DEF TasksInv
<1> QED
  BY <1>1, TasksInvariance, PTL

\* finalizeTaskExecution() puts a task that failed too often to sleep, and no claim wakes it
\* before its back-off is over.
THEOREM BackoffIsKept == TasksSpec => BackoffHolds
<1> DEFINE Kept == \A d \in Blocks \ free : cur = NoBlock /\ cur' = d => desc[d].cool
<1>1. TasksInv /\ [TasksNext]_taskVars => [Kept]_taskVars
  <2> SUFFICES ASSUME TasksInv, [TasksNext]_taskVars, NEW d \in Blocks \ free, cur = NoBlock, cur' = d
               PROVE  desc[d].cool
    OBVIOUS
  <2>1. PICK id \in Ids : claim(id)
    <3>1. cur' # cur
      BY BlocksAssumption
    <3> QED
      BY <3>1, BlocksAssumption
      DEF TasksNext, Owner, TaskLoop, taskVars, lvars, tvars, Create, addTask, mapUnit, removeTask, removeAllTasks,
          updateTaskConstraints, Destroy, Elapse, selectReadyTasksForCycle, EndTaskCycle,
          finalizeTaskExecution, Report
  <2>2. desc[d].active
    BY <2>1, BlocksAssumption DEF claim
  <2> QED
    BY <2>2 DEF TasksInv, UnitInv
<1> QED
  BY <1>1, TasksInvariance, PTL DEF TasksSpec, BackoffHolds

-----------------------------------------------------------------------------
(* The life cycle.                                                          *)

\* The scheduler's own thread is in no call that waits for an outside thread, and an outside
\* thread is in no loop.
PlaceInv ==
  /\ TaskNeverWaitsForItsJoiner /\ pc[Sched] # "idle"
  /\ \A t \in Clients : pc[t] \in {"idle"} \cup CallPC

\* lifecycleMutex_ and the worker's lock are owned by the one thread between lock and unlock.
MutexInv ==
  \A t \in Actors : /\ pc[t] \in LifecyclePC <=> lifecycleMutex = t
                    /\ pc[t] \in HandlePC <=> handleMutex = t

\* What start() and stop() know at each point under the mutexes: the flag that start() will
\* raise is down, the one that stop() lowered stays down, and behind a join there is no loop.
HeldInv ==
  \A t \in Actors :
    /\ pc[t] \in {"start_handle", "start_join", "start_before"} => ~running
    /\ pc[t] \in {"stop_notify", "stop_handle", "stop_join", "stop_release", "stop_unlock"} => ~running
    /\ pc[t] \in {"start_before", "start_spawn", "stop_release", "stop_unlock"} => pc[Sched] = "off"

IInv == TypeOK /\ PlaceInv /\ MutexInv /\ HeldInv /\ RunningHasLoop

USE ActorsAssumption, OpsAssumption

LEMMA InitIInv == Init => IInv
  BY DEF Init, IInv, TypeOK, PlaceInv, TaskNeverWaitsForItsJoiner, MutexInv, HeldInv, RunningHasLoop,
         Actors, PCs, LoopPC, CallPC, LifecyclePC, HandlePC, StartHandlePC, StartHeldPC, StopHeldPC, StopPC

LEMMA NextIInv == IInv /\ [Next]_vars => IInv'
  <1> SUFFICES ASSUME IInv, [Next]_vars PROVE IInv'
    OBVIOUS
  <1> USE DEF IInv, TypeOK, PlaceInv, TaskNeverWaitsForItsJoiner, MutexInv, HeldInv, RunningHasLoop,
              Actors, PCs, LoopPC, CallPC, LifecyclePC, HandlePC, StartHandlePC, StartHeldPC,
              StopHeldPC, StopPC, Home, From, Goto
  <1>1. ASSUME NEW t \in Actors, NEW op \in Ops, Call(t, op) PROVE IInv'
    <2> DEFINE l == IF op = "normal" THEN Home(t) ELSE Entry[op]
    <2>1. /\ l \in {Home(t), "start_check", "stop_halt", "halt_flag", "pause_flag", "resume_flag",
                   "wake_notify", "tune_lock"}
          /\ pc[t] = Home(t) /\ pc' = [pc EXCEPT ![t] = l]
      <3>1. op # "normal" => Entry[op] \in {"start_check", "stop_halt", "halt_flag", "pause_flag",
                                            "resume_flag", "wake_notify", "tune_lock"}
        BY DEF Ops, Entry
      <3>2. QED
        BY <1>1, <3>1 DEF Call
    <2>2. realTimeMode' \in BOOLEAN /\ UNCHANGED <<running, paused, lifecycleMutex, handleMutex>>
      BY <1>1 DEF Call
    <2> HIDE DEF l
    <2>3. QED
      BY <2>1, <2>2
  <1>2. ASSUME NEW t \in Actors, LowerFlag(t) PROVE IInv'
    <2>1. /\ \/ From(t, "halt_flag", "halt_notify")
             \/ From(t, "stop_halt", "stop_halted")
             \/ From(t, "stop_flag", "stop_notify")
          /\ running' = FALSE
          /\ UNCHANGED <<paused, realTimeMode, lifecycleMutex, handleMutex>>
      BY <1>2 DEF LowerFlag
    <2>2. CASE From(t, "halt_flag", "halt_notify")
      BY <2>1, <2>2
    <2>3. CASE From(t, "stop_halt", "stop_halted")
      BY <2>1, <2>3
    <2>4. CASE From(t, "stop_flag", "stop_notify")
      BY <2>1, <2>4
    <2>5. QED
      BY <2>1, <2>2, <2>3, <2>4
  <1>3. ASSUME NEW t \in Actors, SetPaused(t) PROVE IInv'
    <2>1. CASE From(t, "pause_flag", Home(t)) /\ paused' = TRUE
      BY <1>3, <2>1 DEF SetPaused
    <2>2. CASE From(t, "resume_flag", "resume_notify") /\ paused' = FALSE
      BY <1>3, <2>2 DEF SetPaused
    <2>3. QED
      BY <1>3, <2>1, <2>2 DEF SetPaused
  <1>4. ASSUME NEW t \in Actors, Notify(t) PROVE IInv'
    BY <1>4 DEF Notify, NotifyFrom, Woken
  <1>5. ASSUME NEW t \in Actors, SelfCheck(t) PROVE IInv'
    BY <1>5 DEF SelfCheck, isOnSchedulerThread
  <1>6. ASSUME NEW t \in Actors, LockLifecycle(t) PROVE IInv'
    BY <1>6 DEF LockLifecycle
  <1>7. ASSUME NEW t \in Actors, UnlockLifecycle(t) PROVE IInv'
    BY <1>7 DEF UnlockLifecycle
  <1>8. ASSUME NEW t \in Actors, AlreadyRunning(t) PROVE IInv'
    BY <1>8 DEF AlreadyRunning
  <1>9. ASSUME NEW t \in Actors, LockHandle(t) PROVE IInv'
    BY <1>9 DEF LockHandle
  <1>10. ASSUME NEW t \in Actors, JoinWorker(t) PROVE IInv'
    BY <1>10 DEF JoinWorker
  <1>11. ASSUME NEW t \in Actors, BeforeSpawn(t) PROVE IInv'
    BY <1>11 DEF BeforeSpawn
  <1>12. ASSUME NEW t \in Actors, Spawn(t) PROVE IInv'
    BY <1>12 DEF Spawn
  <1>13. ASSUME NEW t \in Actors, ReleaseHandle(t) PROVE IInv'
    BY <1>13 DEF ReleaseHandle
  <1>14. CASE Loop
    BY <1>14 DEF Loop, LoopStep, Timeout, SpuriousWakeup, BeginTask, EndCycle, EndTask
  <1>15. CASE UNCHANGED vars
    BY <1>15 DEF vars
  <1>16. QED
    BY <1>1, <1>2, <1>3, <1>4, <1>5, <1>6, <1>7, <1>8, <1>9, <1>10, <1>11, <1>12, <1>13, <1>14,
       <1>15 DEF Next, Step

LEMMA Invariance == Spec => []IInv
  BY InitIInv, NextIInv, PTL DEF Spec

\* C46: whatever calls race, stop() leaves no loop and no flag behind, and running_ is never
\* left true with no loop to run.
THEOREM FlagIsFollowed == Spec => []LoopFollowsFlag
  <1>1. IInv => LoopFollowsFlag
    BY DEF IInv, HeldInv, LoopFollowsFlag, StopReclaims
  <1>2. QED
    BY <1>1, Invariance, PTL

\* A task's own start() or stop() takes no lock that an external stop() holds while it joins
\* the task's thread.
THEOREM TasksDoNotWait == Spec => []TaskNeverWaitsForItsJoiner
  <1>1. IInv => TaskNeverWaitsForItsJoiner
    BY DEF IInv, PlaceInv
  <1>2. QED
    BY <1>1, Invariance, PTL

\* Two start() calls never spawn two loops, and none spawns under a stop() about to return.
THEOREM SpawnsAreExclusive == Spec => []SpawnIsExclusive
  <1>1. IInv => SpawnIsExclusive
    BY DEF IInv, MutexInv, HeldInv, SpawnIsExclusive, Joinable, LifecyclePC, StartHeldPC,
           StopHeldPC, StartHandlePC
  <1>2. QED
    BY <1>1, Invariance, PTL

-----------------------------------------------------------------------------
(* RealTimeScheduler implements LoopContract.                                *)

LEMMA RefinesInit == Init => Contract!Init
  BY DEF Init, Contract!Init, phase, Actors

LEMMA RefinesNext == IInv /\ [Next]_vars => [Contract!Next]_<<phase, running>>
  <1> SUFFICES ASSUME IInv, [Next]_vars
               PROVE  Contract!Next \/ (phase' = phase /\ running' = running)
    OBVIOUS
  <1> USE DEF IInv, TypeOK, PlaceInv, TaskNeverWaitsForItsJoiner, MutexInv, HeldInv, Actors,
              PCs, LoopPC, CallPC, LifecyclePC, HandlePC, StartHandlePC, StartHeldPC, StopHeldPC,
              StopPC, Home, From, Goto, phase
  <1> DEFINE Good == Contract!Next \/ (phase' = phase /\ running' = running)
  <1>1. ASSUME NEW t \in Actors, NEW op \in Ops, Call(t, op) PROVE Good
    <2>1. pc'[Sched] \notin {"off", "gone"} <=> pc[Sched] \notin {"off", "gone"}
      <3>1. op # "normal" => Entry[op] \notin {"off", "gone"}
        BY DEF Ops, Entry
      <3>2. QED
        BY <1>1, <3>1 DEF Call
    <2>2. pc'[Sched] = pc[Sched] \/ t = Sched
      BY <1>1 DEF Call
    <2>3. QED
      BY <1>1, <2>1, <2>2 DEF Call
  <1>2. ASSUME NEW t \in Actors, LowerFlag(t) PROVE Good
    <2>1. running' = FALSE /\ phase' = phase
      BY <1>2 DEF LowerFlag
    <2>2. QED
      BY <2>1 DEF Contract!Next, Contract!Lower
  <1>3. ASSUME NEW t \in Actors, SetPaused(t) \/ SelfCheck(t) \/ LockLifecycle(t) \/ UnlockLifecycle(t)
        PROVE  Good
    BY <1>3 DEF SetPaused, SelfCheck, LockLifecycle, UnlockLifecycle, isOnSchedulerThread
  <1>4. ASSUME NEW t \in Actors, Notify(t) PROVE Good
    BY <1>4 DEF Notify, NotifyFrom, Woken
  <1>5. ASSUME NEW t \in Actors, AlreadyRunning(t) \/ LockHandle(t) \/ ReleaseHandle(t) PROVE Good
    BY <1>5 DEF AlreadyRunning, LockHandle, ReleaseHandle
  <1>6. ASSUME NEW t \in Actors, JoinWorker(t) PROVE Good
    BY <1>6 DEF JoinWorker, Contract!Next, Contract!Reap
  <1>7. ASSUME NEW t \in Actors, BeforeSpawn(t) PROVE Good
    BY <1>7 DEF BeforeSpawn, Contract!Next, Contract!Raise
  <1>8. ASSUME NEW t \in Actors, Spawn(t) PROVE Good
    BY <1>8 DEF Spawn, Contract!Next, Contract!Begin
  <1>9. CASE Loop
    BY <1>9 DEF Loop, LoopStep, Timeout, SpuriousWakeup, BeginTask, EndCycle, EndTask,
                Contract!Next, Contract!End
  <1>10. CASE UNCHANGED vars
    BY <1>10 DEF vars
  <1>11. QED
    BY <1>1, <1>2, <1>3, <1>4, <1>5, <1>6, <1>7, <1>8, <1>9, <1>10 DEF Next, Step

\* Whoever relies on LoopContract may rely on the scheduler: one loop, reaped before the next,
\* and no flag raised under a loop that has not been joined.
THEOREM Refinement == Spec => ImplementsContract
  <1>1. QED
    BY RefinesInit, RefinesNext, Invariance, PTL DEF Spec, ImplementsContract, Contract!Spec
=============================================================================
