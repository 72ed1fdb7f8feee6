SPECIFICATION FairSpec
CONSTANTS
  Nobody = Nobody
  Publishers = {p1, p2}
  Clients = {c1}
  PoolSize = 3
  QueueSize = 2
  MaxEvents = 2
  MaxInits = 2
  MaxIds = 1
  Straddle = FALSE
  SelfStop = TRUE

  
PROPERTIES
  InOrder
  
CHECK_DEADLOCK FALSE
