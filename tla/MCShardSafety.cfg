SPECIFICATION FairSpec
CONSTANTS
  Workers = {w1, w2}
  NoWorker = none
  NumShards = 2
  NumEpochs = 1
  MaxTaskRetries = 1
  TaskType = "evaluation"
  MaxFaults = 1
  MaxCheckpoints = 1
  LockedReads = FALSE
  LateRequests = TRUE
INVARIANTS
  DoneWasProcessed
PROPERTY
  DispatchedTaskReturns
CHECK_DEADLOCK FALSE
