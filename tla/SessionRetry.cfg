SPECIFICATION Spec
CONSTANTS
  Origins = {1}
  SavedClears = {}
  DurableClears = {d1}
  NoClear = NoClear
  MaxItems = 2
  ReceiptWindow = 1
  MaxActive = 1
  MaxCaptures = 1
  MaxEpoch = 2
  MaxFaults = 1
  AllStored = AllStored
  OverlapClearAll = TRUE
PROPERTY
  RetryRefused
