SPECIFICATION WgSpec
CONSTANTS
  Ranks = {0, 1, 2}
  MinNodes = 2
  MaxNodes = 3
  NodeUnit = 1
  MaxIncarnation = 1
  MaxRound = 2
  MaxFaults = 2
  FinitePend = TRUE
  Prompt = FALSE
  Asw <- MCAsw
  Procs <- MCProcs
  MaxErrors = 2
INVARIANTS
  WorldAgreement
  SameMaster
  RanksConsecutive
  BarrierHolds
CHECK_DEADLOCK FALSE
