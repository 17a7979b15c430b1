SPECIFICATION Spec
CONSTANTS
  GraceSeconds = 1
  TicksPerSecond = 2
  MaxTries = 2
  Faults = TRUE
  MaxEpoch = 2
  MaxDrops = 2
  MaxTime = 3
CHECK_DEADLOCK FALSE
INVARIANTS WholeWindow ParkedIsExplained
