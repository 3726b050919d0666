\* One token with one price level: its two sides can cross.
CONSTANTS
  t1 = t1
  Tokens <- OneToken
  FirstBooks <- OneBid
  Configs <- DefaultAndExample
  MaxLevel = 0
  Concurrency = 1
  MaxChanges = 2
  MaxConnects = 1
  MaxLimited = 1
SPECIFICATION FairSpec
INVARIANTS TypeOK
PROPERTIES BookRecovers OnDemandServed
CHECK_DEADLOCK FALSE
