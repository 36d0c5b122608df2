SPECIFICATION FairSpec
CONSTANTS
  Workers = {"w1", "w2"}
  ClientMayCome = TRUE
  WorldFirst = TRUE
INVARIANT
  NothingRunsAfterMain
PROPERTY
  ShutdownCompletes
CHECK_DEADLOCK FALSE
