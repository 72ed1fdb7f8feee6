SPECIFICATION Spec
CONSTANTS
  Alarms = {a1}
  Units = {u1}
  NoUnit = NoUnit
  MaxRecoveries = 1
  Environments <- Safe
INVARIANTS
  NothingFreedInUse
  EStopHalts
  
CHECK_DEADLOCK FALSE
