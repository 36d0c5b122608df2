SPECIFICATION FairSpec
CONSTANTS
  Callers = {"c1", "c2"}
  MaxCalls = 5
  MaxQueue = 1
  TickModulus = 2
  TimerMayFail = TRUE
INVARIANTS
  NoOrphanTimer
  AtMostOneLateTick
  SingleChain
PROPERTIES
  LastStopQuiesces
  KeepsTicking
CHECK_DEADLOCK FALSE
