SPECIFICATION Spec
CONSTANTS
  Workers = {w1, w2}
  NoWorker = none
  NumShards = 2
  NumEpochs = 2
  MaxTaskRetries = 1
  TaskType = "training"
  MaxFaults = 2
  MaxCheckpoints = 1
  LockedReads = TRUE
  LateRequests = FALSE
SYMMETRY WorkerSymmetry
INVARIANTS
  IdsUnique
  Conserved
  CompletedMeansAllDone
  
PROPERTY
  ImplementsLedger
CHECK_DEADLOCK FALSE
