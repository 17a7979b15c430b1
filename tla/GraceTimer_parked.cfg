SPECIFICATION Spec
CONSTANTS
  GraceSeconds = 2
  TicksPerSecond = 2
  MaxTries = 2
  Faults = FALSE
  MaxEpoch = 1
  MaxDrops = 1
  MaxTime = 8
CHECK_DEADLOCK FALSE
INVARIANT NotParked
