SPECIFICATION Spec
CONSTANTS
  u1 = u1
  u2 = u2
  w1 = w1
  w2 = w2
  d1 = d1
  q1 = q1
  ann = ann
  bob = bob
  Upload = {u1, u2}
  Tool = {w1, w2}
  Edit = {w2}
  Delete = {d1}
  DeleteTool = {}
  Reader = {q1}
  Private = {u1}
  Updating = {u2}
  Signed = {q1}
  AllFiles = {d1}
  UserOf <- MCUserOf
  HasFilter = TRUE
  MaxTotal = 2
  NoFile = NoFile
  MaxFaults = 1
CHECK_DEADLOCK FALSE
INVARIANTS
  ServedAsRecorded
  CurrentIsLatest
  ContentAccountedFor
