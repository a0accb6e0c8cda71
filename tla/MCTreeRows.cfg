CONSTANTS
  Keys = {0, 1, 2, 3, 4, 5, 6, 7, 8}
  MaxKeys = 6
  SizeMod = 256
  Clients = {"insert", "insertRange", "append", "erase", "eraseRange", "eraseUnordered",
             "clear", "iterate"}
  Asserts = TRUE
SPECIFICATION Spec
CHECK_DEADLOCK FALSE
INVARIANTS
  Bounds
  BalanceMends
  SortedUnlessFlagged
