\* Fills in parts or whole, the user channel, and everything that goes wrong at the venue.
CONSTANTS
  r1 = r1
  r2 = r2
  o1 = o1
  o2 = o2
  o3 = o3
  NoReq = NoReq
  NoOrder = NoOrder
  Reqs <- TwoReqs
  Orders <- ThreeOrders
  MaxQty = 2
  Settings <- PartsOrWhole
  UserChannel = TRUE
  Trouble <- AllTrouble
SPECIFICATION Spec
SYMMETRY Interchangeable
INVARIANTS TypeOK BookedOnce AwaitedInFlight
PROPERTIES FilledNotCancelled KeepsExposure
CHECK_DEADLOCK FALSE
