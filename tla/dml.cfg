SPECIFICATION Spec
CONSTANTS
  Session = {s1, s2}
  RowId = {1, 2}
  Val = {"a", "b"}
  Definitions <- Tables
  Inserts <- Rows
  Updates <- Changes
  Deletes <- Filters
  Puts <- Cells
  Calls <- Everything
  MaxTs = 8
  MaxCalls = 5
  Seldom <- Other
  MaxSeldom = 1
  NoTable = NoTable
  NoTxn = NoTxn
  Idle = Idle
  Gone = Gone
SYMMETRY Perms
CHECK_DEADLOCK FALSE
INVARIANT TypeOK
INVARIANT IndexExact
 
INVARIANT UniqueKept
INVARIANT CountKept
