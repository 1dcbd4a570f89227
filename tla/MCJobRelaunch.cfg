\* One or two happenings of every kind, in a job of two workers.
SPECIFICATION StartedFairSpec
CONSTANTS
  N = 2
  MaxId = 4
  MinNodes = 1
  MaxRelaunch = 1
  Critical = {0}
  RemoveExited = TRUE
  Suspects = {0}
  FailReasons = {"Unknown", "Fatal"}
  Scenarios <- JobScenarios
INVARIANTS
  LaunchesKnown
  NoRankForgotten
PROPERTY JobSettles
\* The master ends.
CHECK_DEADLOCK FALSE
