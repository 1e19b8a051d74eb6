SPECIFICATION Spec
CONSTANTS
  Requests = {1, 2}
  PromptLen <- MCPromptLen
  MaxLen = 7
  Common = 2
  BlockSize = 2
  NumBlocks = 5
  MaxPrefills = 2
  MaxTokens = 4
  StepConfigs <- MCStepConfigs
  OffloadRequests = {1, 2, 3}
  Prompt <- MCPrompt
  Length <- MCLength
  Factor = 2
  GpuBlocks = 6
  CpuChunks = 2
  Layers <- MCLayers
  MaxQueue = 1
  OffloadConfigs <- MCOffloadConfigs
  StatePromptLen <- MCStatePromptLen
  StateMaxLen = 6
  Groups = {0, 1}
  StateLen = 2
  StateConfigs <- MCStateConfigs
INVARIANTS
  KvOwn
  ReadsOwnHistory
  LoadedIntact
  StoredIntact
  StatesOwn
CHECK_DEADLOCK FALSE
