SPECIFICATION SampledSpec

CONSTANTS
  Ticks <- MCTicks
  Times <- MCTimes
  Laps <- MCLaps
  Configs <- MCDefaultConfig
  MaxSessions = 3
  None = None
  MaxTick = 4
  MaxStints = 2
  MaxLap = 2
  Jitter = 2

INVARIANTS
  LapIdAligned
