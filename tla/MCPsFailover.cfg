SPECIFICATION MCPsSpec
CONSTANTS
  NumPs = 2
  MaxPsId = 4
  Trainers = {"chief", "w1"}
  MaxPsRelaunch = 1
  MaxPsEvents = 2
INVARIANTS
  AddressesBacked
PROPERTY
  PsJobSettles
CHECK_DEADLOCK FALSE
