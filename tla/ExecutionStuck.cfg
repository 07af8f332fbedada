SPECIFICATION FairSpec
CONSTANTS
  Operations = {o1}
  Retries = FALSE
  Edits = {"note"}
  MaxConnections = 2
  MaxDocuments = 1
  MaxVersion = 3
  MaxFaults = 1
PROPERTIES
  ClearHappens
