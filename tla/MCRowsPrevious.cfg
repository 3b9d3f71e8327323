SPECIFICATION Spec
CONSTANTS
  Lines = {l1, l2}
  RowCounts = {1, 3}
  ClearTicks = 3
  Modes <- ApartModes
\* A destroyed display does nothing more.
CHECK_DEADLOCK FALSE
INVARIANT
  PreviousRowsShown
