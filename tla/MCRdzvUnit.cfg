SPECIFICATION Spec
CONSTANTS
  Ranks = {0, 1, 2, 3}
  MinNodes = 2
  MaxNodes = 4
  NodeUnit = 2
  MaxIncarnation = 1
  MaxRound = 8
  MaxFaults = 1
  FinitePend = FALSE
  Prompt = TRUE
INVARIANTS
  WorldSizeOK
  NoSplitBrain
CHECK_DEADLOCK FALSE
