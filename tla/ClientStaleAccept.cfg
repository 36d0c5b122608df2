CONSTANTS
  MaxConnects = 7
  MaxCalls = 3
  MaxMessages = 1
  Polite = FALSE
SPECIFICATION Spec
INVARIANT JoinBeforeGame
CHECK_DEADLOCK FALSE
