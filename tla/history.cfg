SPECIFICATION Spec

CONSTANTS
  queue_size = 2
  batch_size = 2
  roll = 1
  Second = 2
  MaxFrames = 4
  MaxSessions = 2
  MaxTime = 3
  Sentinel = Sentinel
  CloseItem = CloseItem
  None = None

INVARIANTS
  TypeOK
  NothingLost
  OneSessionPerFile
  
  StopIsComplete
  

PROPERTIES
  ReachesDisk
  ImplementsLog

CHECK_DEADLOCK FALSE
