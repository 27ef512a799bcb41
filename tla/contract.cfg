SPECIFICATION Spec
CONSTANTS
  Crew = {1, 2}
  Plots = {p1}
  Crops = {c1}
  Strange = Strange
  None = None
  Limit <- MCLimit
  MaxWater = 1
  MaxWork = 1
  Stations = 2
  Actions <- MCActions
  Waters = {2}
  MaxPieces = 2
  MaxVersion = 1
INVARIANT OnlyTheWorldRefuses
CHECK_DEADLOCK FALSE
