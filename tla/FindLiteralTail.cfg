CONSTANTS
  Cell = {c1, c2}
  NULL = NULL
  Wild = Wild
  FreshTails <- NullOrWild
  MallocMayFail = FALSE
  Width = 4
  Register = {x}
  Elem = {0, 1, 2, 3, 4, 5}
  Computes <- Numbered
  ElemType = "INT"
  Foreign <- NoFunctions
  MaxNesting = 1
SPECIFICATION Spec
INVARIANT QuotedListsEnd
SYMMETRY Symmetry
CHECK_DEADLOCK FALSE
