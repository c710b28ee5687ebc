SPECIFICATION FairSpec
CONSTANTS
  p1 = p1
  p2 = p2
  t1 = t1
  t2 = t2
  Nowhere = Nowhere
  Project <- TwoProjects
  Terminal <- TwoTerminals
  Look <- TwoLooks
  Plain = 0
  MaxCloses = 2
  MaxReloads = 1
INVARIANTS
  NoTerminalLost
  OnePlaceEach
  RestoredPaneIsReaped
PROPERTIES
  ShellsLiveOnce
  SoftCloseIsSettled
CHECK_DEADLOCK FALSE
