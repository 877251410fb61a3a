SPECIFICATION AdapterSpec

CONSTANTS
  Ticks <- MCTicks
  Times <- MCTimes
  Laps <- MCLaps
  Configs <- MCConfigs
  Scenarios <- MCScenarios
  MaxSessions = 4
  None = None
  MaxTick = 4
  MaxMockTick = 11
  MaxStints = 3
  MaxLap = 2
  Jitter = 2

INVARIANTS
  SessionsAsScripted
PROPERTIES
  
  PauseSurfaces
CHECK_DEADLOCK FALSE
