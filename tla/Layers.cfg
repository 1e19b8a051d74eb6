SPECIFICATION Spec
CONSTANTS
  P = 31
  Root = 3
  TopK = 2
  NumGroups = 2
  TopGroups = 1
  ScalingFactor = 3
  ExpertChunk = 3
  TokenTile = 2
  GatherTokens = 1
  Buckets = {1, 2, 4}
  ExpertWeights <- MCExperts
  Correction <- MCCorrection
  PadToken <- MCPad
  Steps <- MCSteps
  RankConfigs <- MCRankConfigs
  BucketConfigs <- MCBucketConfigs
  MaxLookups = 2
  CheckpointMax = 448
  DeviceMax = 240
  WeightConfigs <- MCWeightConfigs
  Value <- MCValue
  ScaleOf <- MCScaleOf
  ZeroOf <- MCZeroOf
  InputOf <- MCInputOf
  KDim = 2
  Scale = 2
  NeumannIters = 2
  D = 3
  A <- MCA
  Weights <- MCWeights
  DeltaStreams <- MCDeltaStreams
  SsmStreams <- MCSsmStreams
  Junk <- MCJunk
  ScanConfigs <- MCScanConfigs
INVARIANTS
  BucketHolds
  NoRepeatedMiss
  SpecPrepared
  Lockstep
  ExpertsExact
  WeightsExact
  ScansExact
