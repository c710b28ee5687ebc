SPECIFICATION FairSpec
CONSTANTS
  i1 = i1
  i2 = i2
  Install <- OneInstall
  MaxFaults = 1
INVARIANTS
  OneCheckAtATime
  ReadyIsOnDisk
  OneFailureLeavesABinary
  ReadyMeansInstalled
PROPERTIES
  RefusalEnds
