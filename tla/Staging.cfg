SPECIFICATION LiveSpec
CONSTANTS
  r1 = r1
  r2 = r2
  r3 = r3
  Reqs = {r1, r2, r3}
  NumSlots = 3
  Need <- TwoSlots
  Chunks <- R2Chunked
  Decodes <- R3Decodes
  MaxSeqs = 2
  Lookahead = 0
  MaxPreempts = 0
  MayStop = FALSE
  MayExpire = FALSE
  Sparse = FALSE
  NONE = NONE
INVARIANT
  ReadIntact
PROPERTY
  LeaseSpec
  NothingStuck
