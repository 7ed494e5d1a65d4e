SPECIFICATION Spec
CONSTANTS
  GRID_WIDTH = 8
  GRID_HEIGHT = 4
  Colors = {"red"}
  Groups <- MCGroups
  MaxBlocks = 6
INVARIANTS
  BlockInside
  ScreenAgrees
PROPERTIES
  CellsConserved
  BlocksLand
CHECK_DEADLOCK FALSE
