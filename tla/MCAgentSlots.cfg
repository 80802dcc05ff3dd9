SPECIFICATION SlotsSpec
CONSTANTS
  u = u
  v = v
  a = a
  b = b
  c = c
  d = d
  Call <- MCCall
  User <- MCUser
  Parent <- MCParent
  Depth <- MCDepth
  MaxDepth = 2
  SubQueue = TRUE
  Slots <- MCSlots
  MaxCrashes = 1
CHECK_DEADLOCK FALSE
INVARIANTS
  StarvedByDelegated
PROPERTY
  JobsEnd
