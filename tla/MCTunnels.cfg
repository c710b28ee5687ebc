SPECIFICATION FairSpec
CONSTANTS
  l = l
  m = m
  r = r
  s1 = s1
  s2 = s2
  p1 = p1
  Tunnel <- Three
  Remote <- JustR
  Session <- TwoSessions
  SessionOf <- MApart
  PortOf <- OnePort
  MaxTasks = 3
  MaxTransports = 2
  MaxDrops = 1
CHECK_DEADLOCK FALSE
INVARIANTS
  HandlesAreTrue
  NoTransportLeaks
PROPERTIES
  PoolLends
  ComesToRest
