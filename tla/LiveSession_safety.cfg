CONSTANTS
  s1 = s1
  s2 = s2
  i1 = i1
  i2 = i2
  r1 = r1
  c1 = c1
  Starters <- OneStarter
  Ingesters <- TwoIngesters
  Resumers <- OneResumer
  Completers <- OneCompleter
  Attempts <- TwoAttempts
  Mortal <- NoRequest
  MaxTries = 2
  MaxSequence = 2
SPECIFICATION Spec
CHECK_DEADLOCK FALSE
SYMMETRY Interchangeable
INVARIANTS CompletedOnce GapsCoverMissing
PROPERTIES FollowsDiagram
