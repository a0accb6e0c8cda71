SPECIFICATION Spec
CONSTANTS
  MaxStep = 12
  MinStep = 2
  MaxSubsteps = 3
  WindowSize = 3
  Rounding = 1
  RenderTimes = {1, 8}
  UpdateTimes = {0, 5, 15}
  MaxOversleep = 1
INVARIANTS Follows
PROPERTIES BreakEven GameAdvances
