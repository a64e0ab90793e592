CONSTANTS
  old = old new = new bad = bad broken = broken
  Sources <- AllSources Verdict <- AllVerdicts
  MaxRuns = 2 MaxEdits = 1 MaxFaults = 2
  None = None Empty = Empty
SPECIFICATION Spec
INVARIANTS TypeOK OneWorksOthersWait OutputsComeFromAcceptedSources
PROPERTIES BuildsAreCurrent ProcessesEnd
CHECK_DEADLOCK FALSE
