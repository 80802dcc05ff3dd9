SPECIFICATION Spec
CONSTANTS
  w = w
  f = f
  g = g
  x = x
  Worker = {w}
  Exec = {f, g, x}
  Code = {x}
  ProcOf <- MCProcOf
  Request = {"r"}
  Target = {0, 2}
  MinSize = 1
  MinIdle = 1
  MaxSize = 2
  MaxExecutions = 2
  MaxFaults = 1
  MaxRestarts = 1
CHECK_DEADLOCK FALSE
INVARIANTS
  HeldOnce
  WithinMaximum
PROPERTY
  PoolRefills
CONSTRAINT
  TwoAtMost
