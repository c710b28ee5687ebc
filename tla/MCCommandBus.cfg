SPECIFICATION FairSpec
CONSTANTS
  a = a
  b = b
  poll = poll
  long = long
  w1 = w1
  w2 = w2
  s1 = s1
  NoJob = NoJob
  NoScope = NoScope
  Worker <- TwoWorkers
  Job <- TwoJobs
  Lane <- TwoLanes
  WorkerLane <- TwoPools
  JobLane <- ALong
  Scope <- OneScope
  JobScope <- SameScope
  Timed <- JustB
  Hangs <- JustA
  Chatty <- JustB
  Daemon <- None
  MaxFaults = 1
PROPERTIES
  OneRunOneAnswer
  CancelledFirstNeverRuns
  CallsAreAnswered
INVARIANTS
  NoStrayChild
  ScopeKnowsItsJobs
