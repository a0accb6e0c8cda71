CONSTANTS
  Keys = {1, 2, 3, 4, 5, 6}
  MaxRows = 6
  InsertionSortMax = 2
  LinearRowSearchMax = 2
SPECIFICATION Spec
INVARIANTS
  SortedUnlessFlagged
  FindRowExact
  PrepareExact
  SortExact
