SPECIFICATION Spec
CONSTANTS
  d1 = d1
  d2 = d2
  c1 = c1
  c2 = c2
  Tracks <- TwoTracks
  Deliveries <- TwoDeliveries
  Completers <- TwoCompleters
  MaxTries = 1
CHECK_DEADLOCK FALSE
SYMMETRY Interchangeable
INVARIANTS OneKnownEgress FinalizedWasFound
