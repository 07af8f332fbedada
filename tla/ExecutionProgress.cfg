SPECIFICATION FairSpec
CONSTANTS
  Operations = {o1}
  Retries = FALSE
  Edits = {}
  MaxConnections = 2
  MaxDocuments = 2
  MaxVersion = 3
  MaxFaults = 2
PROPERTIES
  AppliedIsAnswered
  ClearHappens
