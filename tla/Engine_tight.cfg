SPECIFICATION Spec
CONSTANTS
  Cols = 2
  Cells = {1, 2, 3, 4, 5, 6, 7}
  Settings <- MCTight
  WDepth = 2
  ADepth = 2
  ODepth = 2
  Period = 4
  BDepth = 1
  PadCells = {1}
INVARIANTS
  ServedFirst
