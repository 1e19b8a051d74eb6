SPECIFICATION Spec
CONSTANTS
  Reqs = {r1, r2}
  NumBlocks = 4
  MaxNew = 2
  MaxRefs = 2
  Threshold = 0
  MaxSwap = 2
  PrefixCaching = TRUE
  Resubmit = FALSE
  NONE = NONE
SYMMETRY ReqSymmetry
CHECK_DEADLOCK FALSE
INVARIANT
  MappingInverse
  RefCountExact
  DataPreserved
PROPERTY
  MovesCompact
