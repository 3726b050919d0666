\* Fills are polled; nothing goes wrong at the venue.
CONSTANTS
  r1 = r1
  r2 = r2
  o1 = o1
  o2 = o2
  o3 = o3
  NoReq = NoReq
  NoOrder = NoOrder
  Reqs <- TwoReqs
  Orders <- ThreeOrders
  MaxQty = 1
  Settings <- WholePolled
  UserChannel = FALSE
  Trouble <- NoTrouble
SPECIFICATION FairSpec
INVARIANTS NoOrphans
PROPERTY EntryEnds
CHECK_DEADLOCK FALSE
