SPECIFICATION MCSpec
CONSTANTS
  Instances = {i1, i2}
  NoInstance = NoInstance
  Operations = {o1, o2}
  Captures = {c1}
  Statuses = {"succeeded", "expired"}
  MaxOperations = 1
  Ttl = 2
  StaleAfter = 1
  MaxTime = 2
  MaxSequence = 2
  MaxConnections = 3
  Browser = i1
  Id = o1
INVARIANTS
  TypeOK
  OwnersKnown
  ReceiptsAnswerClaims
PROPERTIES
  SubmittedAsShown
  ImplementsOutcome
