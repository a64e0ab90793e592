CONSTANTS
  Cell = {c1, c2, c3, c4}
  NULL = NULL
  Wild = Wild
  FreshTails <- Nulls
  MallocMayFail = TRUE
  Width = 4
  Register = {x, y}
  Elem = {0, 1, 2, 3, 4, 5}
  Computes <- Numbered
  ElemType = "INT"
  Foreign <- OnlyAppend
  MaxNesting = 1
SPECIFICATION Spec
INVARIANT TypeOK
PROPERTY ListsOnlyGrow
SYMMETRY Symmetry
CHECK_DEADLOCK FALSE
