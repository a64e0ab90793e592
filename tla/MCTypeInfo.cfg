CONSTANT MaxDepth = 3
SPECIFICATION Spec
INVARIANTS ClosedFormIsTheRecursion
PROPERTY WrappingKeepsConversions
CHECK_DEADLOCK FALSE
