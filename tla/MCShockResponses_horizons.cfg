SPECIFICATION FairSpec
CONSTANTS
  Ids <- TwoShocks
  Horizons <- TwoHorizons
  GapAllow = 1
  Capacity = 1
  ProcessMax = 2
  HistoryMax = 3
  MaxSecond = 3
  MaxTick = 6
  None = None
INVARIANTS
  TypeOK
  OncePerHorizon
  FromBothSides
PROPERTIES
  EveryHorizonAnswered
CHECK_DEADLOCK FALSE
