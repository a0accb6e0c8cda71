SPECIFICATION Spec
CONSTANTS
  NumTasks = 4
  MaxBlocks = 3
CHECK_DEADLOCK FALSE
INVARIANTS OnePlace
PROPERTIES EveryTaskRuns
