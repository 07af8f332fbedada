SPECIFICATION FairSpec
CONSTANTS
  Origins = {1, 2}
  SavedClears = {s1}
  DurableClears = {d1}
  NoClear = NoClear
  MaxItems = 1
  ReceiptWindow = 1
  MaxActive = 1
  MaxCaptures = 1
  MaxEpoch = 2
  MaxFaults = 1
  AllStored = AllStored
  OverlapClearAll = TRUE
INVARIANTS
  EpochFence
  TombstoneOwned
  CommittedIsCleared
PROPERTY
  ClearTerminates
