CONSTANTS
  Nodes = {0, 1}
  Local = {0}
  MaxStep = 2
  MaxFaults = 1
  SaveAtBreakpoint = {TRUE, FALSE}
  Orderly = TRUE
SPECIFICATION Spec
INVARIANTS
  TrackedComplete
  
  
  
PROPERTY
  TrackerMonotone
CHECK_DEADLOCK FALSE
