SPECIFICATION TasksFairSpec
CONSTANTS
  Units = {u1, u2}
  Blocks = {b1, b2}
  NoBlock = NoBlock
  MaxTasks = 3
  MaxFailures = 2
INVARIANTS
  TasksSound
  
PROPERTIES
  BackoffHolds
  DueTaskRuns
CHECK_DEADLOCK FALSE
