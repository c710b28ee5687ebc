SPECIFICATION FairSpec
CONSTANTS
  v0 = v0
  v1 = v1
  Value <- Contents
  Initial = v0
  ChanCap = 2
  MaxChanges = 4
  MaxFaults = 2
INVARIANTS
  AckMeansDurable
PROPERTIES
  FileKeepsUp
  LastChangeIsSaved
CHECK_DEADLOCK FALSE
