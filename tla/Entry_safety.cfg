SPECIFICATION EntrySpec
CONSTANTS
  p1 = p1
  x1 = x1
  x2 = x2
  y1 = y1
  y2 = y2
  a1 = a1
  s1 = s1
  t1 = t1
  t2 = t2
  h1 = h1
  NoUpload = NoUpload
  None = None
  NoOne = NoOne
  NoQuota = NoQuota
  Unlimited = Unlimited
  LinkTokens <- OneLinkToken
  CodeTokens <- TwoThings
  Presentations <- Three
  MaxWrong = 2
  Uploads <- TwoThings
  VersionRequests <- TwoActors
  Spans <- OneSpan
  MaxAttempts = 2
  MaxFaults = 2
  MaxReviews = 1
  Links <- TwoThings
  Clerks <- TwoActors
  Takers <- TwoTakers
  Visits <- Three
  MaxGrants = 2
  MaxStartFaults = 1
  Interviews <- TwoThings
  Starts <- TwoActors
  Resumes <- OneResume
  Limits <- OneUnit
  MaxRetries = 1
  MaxChanges = 1
  MaxPolicy = 2
  Releases <- OneResume
  Bodies <- TwoThings
  Calls <- TwoActors
  Openers <- OneSpan
  Campaigns <- OneLinkToken
  NoArtifact = NoArtifact
  Deciders <- TwoThings
  Appellants <- TwoActors
  Seats <- Three
  Reviewers <- Three
  Nobody = Nobody
SYMMETRY Alike
CHECK_DEADLOCK FALSE
INVARIANTS OneEffect WorkingTokens RowsMatchStore FactsMatchOutcome
  WorkingLinksOverlap SessionIsAdmitted WithinLimit MeteredIsStarted ToldIsStamped
  PinsResolve AnsweredIndependently
PROPERTIES ReviewsKept EndingsStand
