SPECIFICATION Spec
CONSTANTS
  Reqs = {r1, r2}
  NumBlocks = 4
  MaxNew = 2
  MaxRefs = 2
  Threshold = 1
  MaxSwap = 1
  PrefixCaching = FALSE
  Resubmit = FALSE
  NONE = NONE
SYMMETRY ReqSymmetry
CHECK_DEADLOCK FALSE
INVARIANT
  TypeOK
  IInv
  MappingInverse
  RefCountExact
  DataPreserved
PROPERTY
  MovesCompact
