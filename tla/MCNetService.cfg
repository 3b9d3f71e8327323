SPECIFICATION Spec
CONSTANTS
  Callers = {c1, c2}
  MaxCalls = 3
\* The process ends.
CHECK_DEADLOCK FALSE
INVARIANTS
  SyncIsBarrier
  EventOutlivesNotify
PROPERTIES
  SyncReturns
  CloseEnds
