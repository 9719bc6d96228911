SPECIFICATION SpecLed
CONSTANTS
  n1 = n1
  n2 = n2
  n3 = n3
  Server = {n1, n2, n3}
  Nil = Nil
  Noop = Noop
  Command = {}
  ConfChange = {}
  InitConfig <- Static
  CompactThreshold = 1
  MaxAppendBatch = 64
  Candidates = {n2}
  Crashers = {n1, n3}
  Readers = {n1, n2}
  MaxInFlight = 1
  MaxTerm = 2
  MaxLog = 2
INVARIANTS TermCoversLog
PROPERTIES VotesAreFinal LeaderAppendOnly
CHECK_DEADLOCK FALSE
