CONSTANTS
  Cell = {c1, c2, c3}
  NULL = NULL
  Wild = Wild
  FreshTails <- NullOrWild
  MallocMayFail = TRUE
  Width = 2
  Register = {x, y}
  Elem = {0, 1}
  Computes <- Ones
  ElemType = "INT"
  Foreign <- Library
  MaxNesting = 0
SPECIFICATION Spec
PROPERTY OnlyBadListsKill
SYMMETRY Symmetry
CHECK_DEADLOCK FALSE
