SPECIFICATION FairSpec
CONSTANTS
  Threads = {t1, t2, t3}
  NoThread = NoThread
  MaxClients = 2
INVARIANTS
  NeverTerminates
  PublishedIdIsTheLoop
PROPERTIES
  CallReclaims
  ImplementsContract
  JoinReturns
CHECK_DEADLOCK FALSE
