SPECIFICATION FairSpec
CONSTANTS
  Workers = {"w1", "w2"}
  ClientMayCome = FALSE
  WorldFirst = FALSE
PROPERTIES
  ShutdownCompletes
CHECK_DEADLOCK FALSE
