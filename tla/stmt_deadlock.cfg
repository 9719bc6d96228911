SPECIFICATION FairSpec
CONSTANTS
  NoOne = NoOne
  Client = {c1, c2}
  Kinds = {"select", "dml"}
  Errors = FALSE
  MaxStatements = 2
CHECK_DEADLOCK FALSE
PROPERTIES
  Completes
