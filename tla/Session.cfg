SPECIFICATION FairSpec
CONSTANTS
  MaxSessions = 1
  MaxSends = 2
  MaxReads = 2
  Reads <- ManyFrames
  EncodeFails = TRUE
INVARIANTS
  OneOperationAtATime
  DeliveredInOrder
  GoneOnce
  GoneLeavesNothingPending
PROPERTIES
  BrokenConnectionReaped
CHECK_DEADLOCK FALSE
