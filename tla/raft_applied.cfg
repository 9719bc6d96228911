SPECIFICATION SpecLed
CONSTANTS
  n1 = n1
  n2 = n2
  n3 = n3
  Server = {n1, n2, n3}
  Nil = Nil
  Noop = Noop
  Command = {c1, c2}
  ConfChange = {}
  InitConfig <- Static
  CompactThreshold = 64
  MaxAppendBatch = 64
  Candidates = {n2}
  Crashers = {}
  Readers = {}
  MaxInFlight = 2
  MaxTerm = 2
  MaxLog = 2
INVARIANT AppliedPrefix
CHECK_DEADLOCK FALSE
