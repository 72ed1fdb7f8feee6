\* Two outside threads and the loop with the task it runs.
SPECIFICATION FairSpec
CONSTANTS
  Clients = {c1, c2}
  Sched = Sched
  NoThread = NoThread
  \* "realtime" takes the path of "affinity", and a task's wakeup that of a client.
  ClientOps = {"start", "stop", "halt", "pause", "resume", "realtime", "normal"}
  \* What a task may call without touching the thread handle.
  TaskOps = {"start", "stop", "halt", "pause", "resume", "wake"}
INVARIANTS
  LoopFollowsFlag
PROPERTIES
  ImplementsContract
  StopReturnsOrSleeps
