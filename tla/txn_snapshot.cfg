SPECIFICATION Spec
CONSTANTS
  c1 = c1
  c2 = c2
  k1 = k1
  k2 = k2
  Client <- TwoClients
  Session <- TwoClients
  SessionOf <- OwnSession
  Key <- OneKey
  GcCalls = TRUE
  Slow = {1}
  MaxTs = 5
  MaxTxn = 3
SYMMETRY Perms
CHECK_DEADLOCK FALSE
INVARIANTS
  GainsOnlyPending
  SessionsMatch
  RivalsAreActive
  StampsDistinct
