\* One tick is 15 s: a beat per tick, stale after 6, a check every 2, a call at most 1.
SPECIFICATION FairSpec
CONSTANTS
  Symbols = {btc, eth}
  Beat = 1
  Jitter = 1
  MaxAge = 6
  Check = 2
  CallMax = 1
  Horizon = 26
  MaxFaults = 1
  MaxBuys = 1
INVARIANTS
  TypeOK
  FlattenedInTime
PROPERTIES
  SurvivesRestart
  DeadMeansFlat
