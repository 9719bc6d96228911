SPECIFICATION Spec
CONSTANTS
  k1 = k1
  k2 = k2
  Key <- Keys
  Val <- Vals
  Alias <- NoAlias
  Uses <- Versions
  Latest = 100
  MaxMem = 2
  L0Stop = 8
  SyncEvery = TRUE
  BatchSize = 1
  CrashPoints = {"manifest"}
  TornWrites = FALSE
  Reuse = FALSE
  MaxCrashes = 2
CHECK_DEADLOCK FALSE
INVARIANTS
  Durable
