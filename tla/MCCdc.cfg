SPECIFICATION Spec
CONSTANTS
  Row = {"r", "s"}
  Task = {"t", "u"}
  BatchSize = 1
  MaxValue = 3
  MaxRequests = 1
  MaxUpdates = 2
  MaxFaults = 1
CHECK_DEADLOCK FALSE
INVARIANTS
  OneTask
  RepeatedOnlyIfUnsaved
  ActiveIsPolled
PROPERTIES
  BookmarkSteps
  CatchesUp
