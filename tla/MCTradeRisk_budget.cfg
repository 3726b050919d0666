\* Two live engines and part fills, or a dry run of one engine.
CONSTANTS
  e1 = e1
  e2 = e2
  p1 = p1
  p2 = p2
  p3 = p3
  None = None
  Engines <- TwoEngines
  Pairs <- ThreePairs
  Configs <- LiveOrDry
  MaxOpen = 2
  GlobalCap = 4
  PairCap = 3
  StrategyCap = 3
  Pool = 3
  TradeCap = 2
  MaxSecond = 3
SPECIFICATION Spec
INVARIANTS TypeOK LedgersAgree 
PROPERTY PairsExposed
CHECK_DEADLOCK FALSE
