SPECIFICATION LiveSpec

CONSTANTS
  interval = 2
  Times <- MCTimes
  None = None
  Clients = {c1, c2}
  HighWater = 1

INVARIANTS
  OnePerSlot
  CaughtUp
  NeverMissBoundary
  BoundedBuffer

PROPERTIES
  BroadcastEnds
  
