SPECIFICATION Spec
CONSTANTS
  k1 = k1
  k2 = k2
  Key <- Keys
  Val <- Vals
  Alias <- NoAlias
  Uses <- EveryUse
  Latest = 100
  MaxMem = 2
  L0Stop = 2
  SyncEvery = TRUE
  BatchSize = 1
  CrashPoints <- CoveredPoints
  TornWrites = FALSE
  Reuse = FALSE
  MaxCrashes = 1
SYMMETRY Perms
CHECK_DEADLOCK FALSE
INVARIANTS
  TypeOK
  Durable
  
PROPERTIES
  IsKvStore
