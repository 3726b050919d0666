\* A token bar committed just before a restart is inserted again.
CONSTANTS
  Kinds <- BarKinds
  WriterCap = 2
  FetchBatch = 2
  MaxMsgs = 1
  MaxRestarts = 1
  MaxAmbiguous = 0
SPECIFICATION FairSpec
PROPERTY RowsLeave
CHECK_DEADLOCK FALSE
