SPECIFICATION FairSpec
CONSTANTS
  Alarms = {a1}
  Units = {}
  NoUnit = NoUnit
  MaxRecoveries = 1
  Environments <- Anytime
PROPERTIES
  CallsReturn
  FatalStopsLoops
CHECK_DEADLOCK FALSE
