SPECIFICATION Spec
CONSTANTS
  r1 = r1
  r2 = r2
  r3 = r3
  Reqs = {r1, r2, r3}
  MaxReqs = 3
  HasGenerator = {r1}
  HasBadWords = {r2}
  Restricted = {}
  PromptLen <- R2Two
  MaxOut = 2
  Structured = {}
  MaxPrefillBatch = 1
  MaxPreempts = 1
  Hits = {0}
  Chunked = TRUE
  MayPause = FALSE
  MayAbort = FALSE
  FcfsResume = TRUE
  NONE = NONE
CHECK_DEADLOCK FALSE
INVARIANT
  RowsOwn
PROPERTY
  OneTokenPerStep
