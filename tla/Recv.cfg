SPECIFICATION LiveSpec
CONSTANTS
  r1 = r1
  r2 = r2
  r3 = r3
  Reqs = {r2, r3}
  NumSlots = 4
  NumBlocks = 3
  Recv <- Mixed
  Ratio = 2
  MayFail = TRUE
  MayAbort = TRUE
  NONE = NONE
CHECK_DEADLOCK FALSE
INVARIANT
  ReceivedIntact
PROPERTY
  LeaseSpec
  TakenReadReported
