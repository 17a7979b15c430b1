SPECIFICATION WorkflowsSpec
CONSTANTS
  o1 = o1
  r1 = r1
  b1 = b1
  v1 = v1
  v2 = v2
  n1 = n1
  n2 = n2
  e1 = e1
  e2 = e2
  None = None
  Earlier = Earlier
  Ordinary <- OneOrdinary
  Redos <- OneRedo
  Digests <- OneDigest
  MaxCompositionAttempts = 3
  MaxCompositionFaults = 2
  Unknown = Unknown
  NoResult = NoResult
  Versions <- TwoVersions
  MaxAttempts = 3
  MaxFaults = 2
  Mails <- TwoMails
  Senders <- TwoSenders
  MaxSends = 2
  MaxDeaths = 1
CHECK_DEADLOCK FALSE
INVARIANTS ReadyOnce ResultOnce EvidenceSuperseded
PROPERTIES OutcomesStand EventuallyEnds
