SPECIFICATION SharedSpec
CONSTANTS
  Thieves = {worker}
  Owner = owner
  Worker = worker
  Capacity = 2
  MaxPushes = 2
CHECK_DEADLOCK FALSE
PROPERTIES StillMoreThanOne
