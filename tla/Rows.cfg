SPECIFICATION SpecBoth
CONSTANTS
  r1 = r1
  r2 = r2
  r3 = r3
  Reqs = {r1, r2, r3}
  MaxReqs = 2
  HasGenerator = {r1}
  HasBadWords = {r2}
  Restricted = {}
  PromptLen <- Short
  MaxOut = 2
  Structured = {}
  MaxPrefillBatch = 2
  MaxPreempts = 1
  Hits = {0, 1}
  Chunked = FALSE
  MayPause = TRUE
  MayAbort = TRUE
  FcfsResume = TRUE
  NONE = NONE
  Requests = {1, 2, 3, 4}
  Adapter <- MCAdapter
  WithLogprobs = {1, 3}
  RowPromptLen <- MCRowPromptLen
  MaxLen = 4
  MaxLoras = 2
  MaxPrefills = 2
  RowConfigs <- MCRowConfigs
CHECK_DEADLOCK FALSE
INVARIANTS
  SampledWithOwn
  AdaptersOwn
  GrammarOwn
  PromptLogprobsOwn
PROPERTY
  GdnOwn
