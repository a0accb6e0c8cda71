SPECIFICATION MCSpec
CONSTANTS
  Thieves = {a1, a2}
  Owner = owner
  Capacity = 2
  MaxPushes = 4
  Nodes = {n1, n2, n3}
  Procs = {p1, p2}
  Null = null
  TagMod = 4
  MaxStale = 3
INVARIANTS NothingLost SwapIsFresh
PROPERTIES DequeImplemented PopNullIsEmpty StackImplemented LockFree
