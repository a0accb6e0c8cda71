CONSTANTS
  Keys = {0, 1, 2, 3, 4, 5, 6, 7, 8}
  MaxKeys = 4
  SizeMod = 256
  Clients = {"insert", "insertRange", "append", "erase", "eraseRange", "clear"}
  Asserts = FALSE
SPECIFICATION Spec
INVARIANTS
  TypeOK
  PathFresh
  HaveNeighbors
PROPERTIES
  IndexImplemented
