SPECIFICATION FairSpec
CONSTANTS
  Periods = {1, 2, 3}
  MaxLag = 2
  MaxCalls = 3
INVARIANTS
  NoFalseAlarm
PROPERTIES
  SilenceIsReported
  StopReturns
CHECK_DEADLOCK FALSE
