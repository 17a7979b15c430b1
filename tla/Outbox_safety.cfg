SPECIFICATION FairSpec
CONSTANTS
  handled = handled
  unrouted = unrouted
  NoEvent = NoEvent
  c1 = c1
  c2 = c2
  d1 = d1
  d2 = d2
  Events <- MCEvents
  Callers <- MCCallers
  Dispatchers <- MCDispatchers
  Handled <- MCHandled
  Ignored <- MCIgnored
  MaxAttempts = 2
  Batch = 1
  MaxFaults = 2
CHECK_DEADLOCK FALSE
INVARIANTS DiscardedStaysDead AttemptsBounded
PROPERTIES ImplementsAtLeastOnce EventuallySettled
