SPECIFICATION Spec

CONSTANTS
  stale_timeout_s = 2
  MaxSilence = 1
  MaxDelay = 1
  None = None

INVARIANTS
  DeadPagesGoQuiet

PROPERTIES
  NoFalseAlarm
  
  DeadSimNoticed
  StatusSurfaces
