SPECIFICATION Spec
CONSTANTS
  Ops = {c1}
  Origins = {a, b}
  Frames = {top}
  Documents <- MCDocuments
  Paths = {p}
  MaxActive = 16
  MaxSubjects = 128
  Requests = {r1, r2}
  None = None
  Boot = Boot
  HomeOf <- MCHomeOf
  TopFrame = top
  MaxMoves = 0
  MaxFaults = 0
  StorageFails = FALSE
  Events = {}
PROPERTY
  RetryIsTaken
CHECK_DEADLOCK FALSE
