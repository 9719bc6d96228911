SPECIFICATION Spec
CONSTANTS
  k1 = k1
  k2 = k2
  Key <- Keys
  Val <- Vals
  Alias <- NoAlias
  Uses <- GroupCommit
  Latest = 100
  MaxMem = 2
  L0Stop = 8
  SyncEvery = FALSE
  BatchSize = 2
  CrashPoints <- EveryPoint
  TornWrites = TRUE
  Reuse = FALSE
  MaxCrashes = 2
SYMMETRY Perms
CHECK_DEADLOCK FALSE
INVARIANTS
  KeptOnDisk
PROPERTIES
  LosesOnlySuffix
