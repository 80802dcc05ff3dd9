SPECIFICATION Spec
CONSTANTS
  Size = 2
  Canceller = {"x"}
  Tries = 2
  MaxResumes = 1
  FaultKinds = {"submit", "rerun", "timeout", "count", "cancel_job"}
  MaxFaults = 2
CHECK_DEADLOCK FALSE
INVARIANTS
  PostedOnce
  SummaryIsFinal
  ToldOnce
PROPERTIES
  NeverReopened
  BatchEnds
