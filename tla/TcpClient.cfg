\* Two connects among five calls: a connect refused while another is under
\* way, and one started again after a disconnect, with sends around them.
CONSTANTS
  MaxConnects = 2
  MaxCalls = 5
  MaxMessages = 1
SPECIFICATION FairSpec
INVARIANTS
  OneOperationAtATime
  ConnectionIsServed
PROPERTY
  EveryConnectAnsweredOnce
CHECK_DEADLOCK FALSE
