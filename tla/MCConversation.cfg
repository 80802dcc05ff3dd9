SPECIFICATION Spec
CONSTANTS
  Call = {x, y}
  NeedsApproval = {x}
  Sequential = {y}
  Streamed = {s}
  Plain = {p}
  Approver = {a, b}
  Window = 3
  Recent = 1
  MaxIterations = 1
  MaxFaults = 2
CONSTRAINT ThreeAtMost
CHECK_DEADLOCK FALSE
INVARIANTS
  AnswersFollowCalls
  NothingRunsUnasked
  AnsweredPerRound
