SPECIFICATION Spec
CONSTANTS
  Ops = {c1}
  Origins = {a, b}
  Frames = {top}
  Documents <- MCDocuments
  Paths = {p, q}
  MaxActive = 16
  MaxSubjects = 128
  Requests = {r1}
  None = None
  Boot = Boot
  HomeOf <- MCHomeOf
  TopFrame = top
  MaxMoves = 1
  MaxFaults = 0
  StorageFails = FALSE
  Events = {"capture", "navigate", "route", "clearAll", "close"}
INVARIANTS
  SnapshotConsistent
  AckMeansClean
PROPERTIES
  WorkKept
  ReplyIsReal
CHECK_DEADLOCK FALSE
SYMMETRY PathNames
