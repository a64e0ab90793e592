CONSTANT Programs <- SharedNamePrograms
SPECIFICATION CompilerSpec
INVARIANT VariablesAreRead
CHECK_DEADLOCK FALSE
