SPECIFICATION Spec

CONSTANTS
  Ticks <- MCTicks
  Times <- MCTimes
  Laps <- MCLaps
  Configs <- MCConfigs
  MaxSessions = 2
  None = None

INVARIANTS
  TypeOK
  OpenMeansRemembered
  ConsumersInStep
  LapIdTracksSim

PROPERTIES
  PauseAnnounced
  NoRowTwice
  PauseBracketed
  ImplementsFeed
