CONSTANTS
  Keys = {0, 1, 2, 3, 4, 5, 6}
  MaxKeys = 4
  SizeMod = 256
  Clients = {"insertRange", "eraseRange", "eraseUnordered"}
  Asserts = FALSE
SPECIFICATION Spec
INVARIANTS
  BalanceAssertion
