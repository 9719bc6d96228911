SPECIFICATION Spec
CONSTANTS
  n1 = n1
  n2 = n2
  n3 = n3
  Server = {n1, n2, n3}
  Nil = Nil
  Noop = Noop
  Command = {}
  ConfChange <- AddN3
  InitConfig <- Joining
  CompactThreshold = 64
  MaxAppendBatch = 64
  Candidates = {n1, n3}
  Crashers = {n1}
  Readers = {}
  MaxInFlight = 2
  MaxTerm = 2
  MaxLog = 1
INVARIANTS TypeOK OneLeaderPerTerm
CHECK_DEADLOCK FALSE
