CONSTANT Programs <- ExamplePrograms
SPECIFICATION Spec
INVARIANT ScopesNest
CHECK_DEADLOCK FALSE
