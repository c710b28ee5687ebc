SPECIFICATION Spec
CONSTANTS
  v0 = v0
  v1 = v1
  Value <- Contents
  Initial = v0
  ChanCap = 2
  MaxChanges = 2
  MaxFaults = 0
INVARIANTS
  QuitSavesSettings
CHECK_DEADLOCK FALSE
