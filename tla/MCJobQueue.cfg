SPECIFICATION Spec
CONSTANTS
  Waited = TRUE
  Retrier = {"r", "s"}
  MaxRetries = 2
  MaxCancels = 1
  MaxFlushes = 1
  MaxFaults = 2
CHECK_DEADLOCK FALSE
INVARIANTS
  CallerToldTruth
  NoLostWakeup
  DeadLetterIsDead
