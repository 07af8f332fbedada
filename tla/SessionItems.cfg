SPECIFICATION Spec
CONSTANTS
  Origins = {1}
  SavedClears = {s1}
  DurableClears = {d1}
  NoClear = NoClear
  MaxItems = 2
  ReceiptWindow = 1
  MaxActive = 1
  MaxCaptures = 3
  MaxEpoch = 3
  MaxFaults = 1
  AllStored = AllStored
  OverlapClearAll = FALSE
INVARIANTS
  TypeOK
  ProjectionBacked
PROPERTY
  ImplementsCaptureLog
