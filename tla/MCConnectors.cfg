SPECIFICATION ConnectorsSpec
CONSTANTS
  p = p
  q = q
  a = a
  b = b
  c = c
  Process = {p, q}
  Call <- MCCall
  Home <- MCHome
  PoolSize = 2
  Consent = {"s", "t"}
  MaxExpiries = 1
  MaxFailures = 1
CHECK_DEADLOCK FALSE
INVARIANTS
  TokensKept
PROPERTY
  CallsEnd
