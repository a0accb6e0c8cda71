CONSTANTS
  a = a
  b = b
  Components = {a, b}
  MaxId = 3
  MaxHandles = 2
  MaxDead = 1
  Plans <- MCPlans
SPECIFICATION Spec
INVARIANTS
  UniqueKeys
  DeadStayDead
  QueryExact
