CONSTANT Programs <- AnalyzedPrograms
SPECIFICATION FairSpec
INVARIANTS
  TypeOK ScopeUnique ScopesLeadOutwards LexicalResolution
  AcceptedIsComplete AcceptedReferencesAgree AcceptedIsWellTyped
  
PROPERTIES HandlersStartOnce AnalysisEnds ImplementsTraversal
CHECK_DEADLOCK FALSE
