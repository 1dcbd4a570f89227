SPECIFICATION FairSpec
CONSTANTS
  Ranks = {0, 1, 2}
  MinNodes = 2
  MaxNodes = 3
  NodeUnit = 1
  MaxIncarnation = 2
  MaxRound = 8
  MaxFaults = 1
  FinitePend = TRUE
  Prompt = TRUE
INVARIANTS
  WaitingEntriesJustified
PROPERTY Converges
CHECK_DEADLOCK FALSE
