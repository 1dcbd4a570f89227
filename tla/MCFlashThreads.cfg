CONSTANTS
  Nodes = {0}
  Local = {0}
  MaxStep = 2
  MaxFaults = 1
  SaveAtBreakpoint = {TRUE}
  Orderly = FALSE
SPECIFICATION FairSpec
INVARIANTS
  LocksOwned

  
CHECK_DEADLOCK FALSE
