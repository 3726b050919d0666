SPECIFICATION Spec
CONSTANTS
  Types <- TwoTypes
  Measured <- FirstType
  PairIds <- TwoPairs
  Cooldown = 2
  PeakWindow = 2
  HistoryMax = 4
  MaxSecond = 5
  MaxMetric = 1
  None = None
INVARIANTS
  TypeOK
  IdsOfOpenRows
  EpisodeTraced
  OpenOrSuperseded
CHECK_DEADLOCK FALSE
