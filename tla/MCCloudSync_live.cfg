SPECIFICATION FairSpec
CONSTANTS
  k1 = k1
  e1 = e1
  e2 = e2
  p1 = p1
  NoRow = NoRow
  NoHash = NoHash
  Device <- TwoDevices
  Key <- OneKey
  Actor <- TwoEngines
  Home <- TwoHomes
  EngineActor <- TwoEngines
  MaxEdits = 2
  MaxSnaps = 4
  MaxFaults = 0
PROPERTIES
  FlagIsReleased
  Converges
