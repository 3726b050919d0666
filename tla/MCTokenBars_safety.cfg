\* Two tokens whose events lag, lead and overtake each other and the ticks.
CONSTANTS
  t1 = t1
  t2 = t2
  Tokens <- TwoTokens
  LateBuffer = 2
  QueueCap = 2
  Behind = 2
  Ahead = 1
  LastEvent = 6
  MaxTime = 6
  MaxEvents = 4
SPECIFICATION Spec
SYMMETRY Interchangeable
INVARIANTS TypeOK BarsContiguous EventsAccounted
PROPERTY LateOnlyBehindBuffer
CHECK_DEADLOCK FALSE
