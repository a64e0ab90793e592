CONSTANT Programs <- AllPrograms
SPECIFICATION FairCompilerSpec
INVARIANTS
  CodegenTypeOK SupportedProgramsCompile
  ReferencesMeanTheirDefinition CallsReachTheirCallee
  PhisMatchPredecessors BlocksAreComplete
PROPERTY GenerationEnds
CHECK_DEADLOCK FALSE
