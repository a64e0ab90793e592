CONSTANT Inputs <- ParsedInputs
SPECIFICATION ParserSpec
INVARIANTS ParserTypeOK TreesAreOwned EveryNodeIsFreedOnce OnlyWhenLoopsUseFreedNodes ParserBuildsTheTree
CHECK_DEADLOCK FALSE
