SPECIFICATION Spec

CONSTANTS
  reconnect_min_s = 1
  reconnect_max_s = 3
  MaxFrames = 2
  MaxChanges = 2
  MaxFailures = 3
  queue_size = 1

INVARIANTS
  TypeOK
  Accounted
  SessionEndsWithConnection
  BackoffIsExponential

PROPERTIES
  KeepsReconnecting
  IngestDrains
  ShutdownCompletes

CHECK_DEADLOCK FALSE
