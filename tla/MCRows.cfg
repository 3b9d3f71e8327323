SPECIFICATION Spec
CONSTANTS
  Lines = {l1, l2}
  RowCounts = {1, 3}
  ClearTicks = 3
  Modes <- AllModes
\* A destroyed display does nothing more.
CHECK_DEADLOCK FALSE
INVARIANTS
  TypeOK
  ShowsRows
  ThreadGone
PROPERTIES
  ClearedWhenOld
  StopReturns
