SPECIFICATION Spec
CONSTANTS
  Jumprefs <- MCJumprefs
  Requests <- MCRequests
INVARIANTS
  TextKept
  RecordsShown
  RowsInPlace
PROPERTIES
  MenusComplete
CHECK_DEADLOCK FALSE
