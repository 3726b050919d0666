\* Shocks and their updates among rows that are not captured or do not decode,
\* a restart and a commit of unknown outcome.
CONSTANTS
  Kinds <- MixedKinds
  WriterCap = 2
  FetchBatch = 3
  MaxMsgs = 4
  MaxRestarts = 1
  MaxAmbiguous = 1
SPECIFICATION FairSpec
INVARIANTS TypeOK HandedOverOnce UpdateAfterInsert CountersExact
PROPERTIES DeliversDurably RowsLeaveUnlessBlocked
CHECK_DEADLOCK FALSE
