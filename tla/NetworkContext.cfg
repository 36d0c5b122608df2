SPECIFICATION FairSpec
CONSTANTS
  Workers = {"w1", "w2"}
  Clients = {"c1", "c2"}
  MaxPosts = 2
  MaxOps = 2
  HandlersThrow = TRUE
  ThreadsFail = TRUE
INVARIANTS
  WaitMeansDone
PROPERTIES
  OneWayLifeCycle
  WaitReturns
  ForceStopEndsWorkers
  DestructorReturns
CHECK_DEADLOCK FALSE
