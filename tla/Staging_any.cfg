SPECIFICATION Spec
CONSTANTS
  r1 = r1
  r2 = r2
  r3 = r3
  Reqs = {r1, r2}
  NumSlots = 3
  Need <- TwoSlots
  Chunks <- R2Chunked
  Decodes <- R2Decodes
  MaxSeqs = 2
  Lookahead = 1
  MaxPreempts = 1
  MayStop = TRUE
  MayExpire = TRUE
  Sparse = TRUE
  NONE = NONE
INVARIANT
  SlotsPartition
