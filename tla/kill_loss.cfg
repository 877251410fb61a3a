SPECIFICATION Spec

CONSTANTS
  queue_size = 2
  batch_size = 2
  roll = 1
  Second = 2
  MaxFrames = 4
  MaxSessions = 2
  MaxTime = 3
  Sentinel = Sentinel
  CloseItem = CloseItem
  None = None

INVARIANTS
  KillLosesABatch

CHECK_DEADLOCK FALSE
