\* One token with two price levels.
CONSTANTS
  t1 = t1
  Tokens <- OneToken
  FirstBooks <- OneBidOneAsk
  MaxLevel = 1
  QueueCap = 2
  BatchSize = 1
  MaxChanges = 2
  MaxConnects = 2
SPECIFICATION FairSpec
INVARIANTS TypeOK CachesExact CrossedIsFlagged
 
CHECK_DEADLOCK FALSE
