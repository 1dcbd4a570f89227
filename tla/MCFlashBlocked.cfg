CONSTANTS
  Nodes = {0}
  Local = {0, 1}
  MaxStep = 4
  MaxFaults = 0
  SaveAtBreakpoint = {FALSE}
  Orderly = FALSE
SPECIFICATION FairSpec
PROPERTY
  TrainingResumes
CHECK_DEADLOCK FALSE
