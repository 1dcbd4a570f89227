SPECIFICATION MCSpec
CONSTANTS
  WorkerCount = 2
  MaxNodeId = 3
  OpLists <- MCOpLists
  ConnRetries = 2
  MaxPreFaults = 1
  PromptActions = TRUE
  DatasetSizes = {1, 4, 5}
  ShardSizes = {1, 2, 3}
  ShardLimits = {1, 2, 3}
  MaxPasses = 2
  ShardLists <- MCShardLists
  BatchRecords = {1, 2, 3}
  MaxCallFaults = 1
  SampleCounts = {4, 5, 6}
  BatchSizes = {1, 2}
  Worlds = {1, 2, 3}
  EpochCount = 3
  MaxCrashes = 2
INVARIANTS
  PassNeedsCleanRound
  PassedJobNotAborted
  EveryRecordOncePerEpoch
  ReportedTasksTrained
  NoTaskLeftPending
  IterationDealsTheRest
  ResumesWhereItStopped
PROPERTY
  PreCheckWaitEnds
CHECK_DEADLOCK FALSE
