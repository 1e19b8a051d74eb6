SPECIFICATION Spec
CONSTANTS
  r1 = r1
  r2 = r2
  r3 = r3
  Reqs = {r1, r2, r3}
  MaxReqs = 2
  HasGenerator = {}
  HasBadWords = {}
  Restricted = {}
  PromptLen <- R2Two
  MaxOut = 2
  HasPenalty = {r1, r2}
  MaxPreempts = 1
  Hits = {0}
  Chunked = TRUE
  MayPause = FALSE
  MayStop = TRUE
  MayDiscard = FALSE
  NONE = NONE
CHECK_DEADLOCK FALSE
INVARIANT
  FedOwn
PROPERTY
  StreamSpec
  EveryoneFinishes
