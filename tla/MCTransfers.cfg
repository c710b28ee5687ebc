SPECIFICATION FairSpec
CONSTANTS
  r = r
  t = t
  s1 = s1
  Dest <- Places
  KindOf <- Kinds
  Session <- OneSession
  MaxBegun = 2
  MaxClicks = 2
  MaxRuns = 2
CHECK_DEADLOCK FALSE
INVARIANTS
  RunningIsShown
  CompleteMeansWhole
  HistoryIsTrue
PROPERTIES
  RemovalIsFinal
  TransfersSettle
