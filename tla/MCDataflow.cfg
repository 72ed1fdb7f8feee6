SPECIFICATION MCSpec
CONSTANTS
  Subjects = {"mission", "ports", "registry", "caller", "logger", "errors", "spec", "config", "timer", "builtin", "trace", "dirs", "files", "sizes",
              "pool", "queue", "ring"}
  Threads = {t1, t2}
  Size = 3
  NullIndex = Null
  MaxHeld = 2
  MaxTag = 6
  Users = {t1, t2, t3}
  Capacity = 2
  Unbuilt = Unbuilt
  MaxPos = 4
  RingItems = {a, b}
  RingCapacity = 4
  NoItem = NoItem
INVARIANTS
  
  PipelineSound
  PortsSound
  RegistriesSound
  
  LayoutSound
  
  MeasuresSound
PROPERTY RingIsFifo
CHECK_DEADLOCK FALSE
