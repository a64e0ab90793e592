CONSTANTS
  Cell = {c1, c2, c3, c4, c5}
  NULL = NULL
  Wild = Wild
  FreshTails <- Nulls
  MallocMayFail = FALSE
  Width = 4
  Register = {x}
  Elem = {0, 1, 2, 3, 4, 5}
  Computes <- Numbered
  ElemType = "INT"
  Foreign <- NoFunctions
  MaxNesting = 2
SPECIFICATION Spec
INVARIANTS ListsEnd GrowingListsAreUnshared
PROPERTIES ImplementsListStore OnlyGrowingListsChange
SYMMETRY Symmetry
CHECK_DEADLOCK FALSE
