SPECIFICATION FairSpec
CONSTANTS
  Worker = Worker
  Nobody = Nobody
  Clients = {t1, t2}
  Policies = {p1}
  ClientOps = {"start", "stop", "trigger", "evaluate"}
  UserOps = {"stop", "trigger", "evaluate", "reset"}
  HookJoins = {}
  MaxDepth = 2
  Env = {}
INVARIANTS
  SafetyHolds
  ClearedHookIsQuiet
  OneCycle
PROPERTIES
  CallsReturn
CHECK_DEADLOCK FALSE
