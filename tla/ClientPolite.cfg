CONSTANTS
  MaxConnects = 9
  MaxCalls = 3
  MaxMessages = 3
  Polite = TRUE
SPECIFICATION Spec
INVARIANTS
  ShutdownSticks
  JoinBeforeGame
  AgreesAtRest
CHECK_DEADLOCK FALSE
