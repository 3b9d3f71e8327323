SPECIFICATION Spec
CONSTANTS
  Channels = {c1, c2}
  ClearTicks = 1
  Failures = 1
  MaxLost = 1
  NoChannel = NoChannel
SYMMETRY Symmetry
INVARIANTS
  TypeOK
  StoppedClean
  RunningIsCaptured
  TextIsCounted
CHECK_DEADLOCK FALSE
