SPECIFICATION Spec
CONSTANTS
  k1 = k1
  e1 = e1
  e2 = e2
  p1 = p1
  NoRow = NoRow
  NoHash = NoHash
  Device <- TwoDevices
  Key <- OneKey
  Actor <- PanelAndEngines
  Home <- PanelHomes
  EngineActor <- TwoEngines
  MaxEdits = 1
  MaxSnaps = 3
  MaxFaults = 1
INVARIANTS
  FlagIsHeld
  LatestIsComplete
  LineageIsPublished
  RecordedPairIsPublished
  UpToDateMeansEqual
PROPERTIES
  RemoteIsAtomicStore
