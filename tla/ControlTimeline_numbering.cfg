SPECIFICATION Spec
CONSTANTS
  p1 = p1
  p2 = p2
  g1 = g1
  a1 = a1
  a2 = a2
  None = None
  Posts <- TwoPosts
  Agents <- OneAgent
  Attempts <- OneChain
  Named <- NothingNamed
  MaxEvents = 4
  MaxEpoch = 2
CHECK_DEADLOCK FALSE
INVARIANT NumberingNotShared
