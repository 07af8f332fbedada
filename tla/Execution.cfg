SPECIFICATION MCSpec
CONSTANTS
  Operations = {o1, o2}
  Retries = TRUE
  Edits = {"note", "toggle", "capture"}
  MaxConnections = 2
  MaxDocuments = 2
  MaxVersion = 3
  MaxFaults = 1
  Id = o1
  MaxEdited = 2
INVARIANTS
  TypeOK
  AppliedOnce
  AnswersAreReal
PROPERTIES
  AppliedAsApproved
  AppliedNotForgotten
