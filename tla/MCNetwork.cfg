SPECIFICATION NetSpec
CONSTANTS
  Subjects = {"tcp", "udp", "bus", "barrier", "adapter", "plugins"}
  Users = {"c1", "c2"}
  MaxConnects = 2
  MaxFrames = 2
  Families = {"v4", "v6"}
  MaxBinds = 2
  Channels = {"a", "b"}
  Publishers = {"p1", "p2"}
  Operators = {"o1", "o2"}
  QueueRoom = 2
  MaxStarts = 2
  Receiver = "c2"
  Messages = {"m1", "m2"}
  Errors = {"e"}
  MaxDispatches = 2
  Subscribers = {"s1", "s2"}
  Pairs = {"pair1", "pair2"}
  MaxSubscribed = 2
  MaxCasters = 2
  Managers = {"g1", "g2"}
  Names = {"n1", "n2"}
  MaxLoads = 3
  MaxScan = 2
INVARIANTS
  
  HandlersSound
PROPERTIES
  StepsAreClean
  WaitersReturn
CHECK_DEADLOCK FALSE
