SPECIFICATION TasksSpec
CONSTANTS
  Units = {u1, u2}
  Blocks = {b1, b2}
  NoBlock = NoBlock
  MaxTasks = 2
  MaxFailures = 1
INVARIANTS
  ExecutesLiveUnit
CHECK_DEADLOCK FALSE
