\* One pair over three seconds; one key at a time is flushed and built.
CONSTANTS
  p1 = p1
  None = None
  Pairs <- OnePair
  LateBuffer = 1
  ExtraCap = 1
  FlushMax = 1
  BuildMax = 1
  MaxSecond = 3
  MaxTick = 5
SPECIFICATION FairSpec
INVARIANTS TypeOK Tracked SplitOnlyIfLate
PROPERTY JoinsHalves
CHECK_DEADLOCK FALSE
