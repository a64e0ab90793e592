CONSTANTS Width = 3 MaxLen = 4
SPECIFICATION Spec
INVARIANTS FoldsAreExactModulo DivisionIsByTheProduct
PROPERTY FoldsEnd
CHECK_DEADLOCK FALSE
