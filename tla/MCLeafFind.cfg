CONSTANTS
  Keys = {1, 2, 3, 4}
  MaxRows = 4
  InsertionSortMax = 24
  LinearRowSearchMax = 24
SPECIFICATION Spec
INVARIANTS
  FindReturnsRow
