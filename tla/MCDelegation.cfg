SPECIFICATION Spec
CONSTANTS
  root = root
  a = a
  b = b
  c = c
  Call <- MCCall
  Root = root
  Parent <- MCParent
  Depth <- MCDepth
  MaxDepth = 2
  MaxIterations = 1
  FaultKinds = {"redis", "db", "cancel", "crash"}
  MaxStrikes = 1
CHECK_DEADLOCK FALSE
INVARIANTS
  CheckpointWaits
  ResumeOnce
  ResumeHasResults
  CallsAnsweredOnce
  OneTurn
  ExecutionEndsLast
PROPERTIES
  JoinSteps
