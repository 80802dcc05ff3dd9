SPECIFICATION Spec
CONSTANTS
  w = w
  outer = outer
  inner = inner
  nobody = nobody
  c = c
  Worker = {w}
  Exec = {outer, inner}
  Enqueued = {inner}
  ProcOf <- MCProcOf
  Parent <- MCParent
  Nobody = nobody
  Asks = {outer}
  Client = {c}
  DefaultWorkers = 2
  Reserve = 1
  Target = {1, 3}
  MaxEvents = 1
  MaxTries <- MCMaxTries
CHECK_DEADLOCK FALSE
INVARIANTS
  CompletedRan
  OneRunPerTry
  SlotsHeld
CONSTRAINT
  TwoAtMost
