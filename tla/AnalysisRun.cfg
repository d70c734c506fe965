SPECIFICATION Spec
CONSTANTS
  Runs = {"worker", "command"}
  Count <- MCCount
  Tasks <- MCTasks
  Cap = 1
  MaxCost = 1
\* The model stops when the runs are over.
CHECK_DEADLOCK FALSE
INVARIANTS
  OvershootBounded
  LoneStragglers
  CallsBounded
  RunGoesOn
