SPECIFICATION FairSpec
CONSTANTS
  NoOne = NoOne
  Client = {c1, c2}
  Kinds <- TreeFirst
  Errors = TRUE
  MaxStatements = 3
CHECK_DEADLOCK FALSE
INVARIANTS
  SeesAckedData
  DefinitionsDurable
PROPERTIES
  Completes
