SPECIFICATION NetFairSpec
CONSTANTS
  Ranks = {0, 1, 2, 3}
  ExcludeStraggler = TRUE
  Suspects = {1}
  MaxPods = 2
  MaxChecks = 8
  MaxNetFaults = 1
INVARIANTS
  BadNodesKeptOut
  GroupAgreement
PROPERTIES
  OnlyFaultyNodesExit
  TrainingWorldPresent
  CheckedJobTrains
CHECK_DEADLOCK FALSE
