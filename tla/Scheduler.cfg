CONSTANTS
  m = m
  w = w
  Main = m
  Threads = {m, w}
  MaxDepth = 3
SPECIFICATION FairSpec
INVARIANTS
  TypeOK
  AppNotShared
  AppHeld
  OriginalExactlyOnce
  DriverExclusive
  GateClosedDuringStartup
PROPERTIES
  ImplementsLifecycle
  HandoffIsClaimed
  FailureRetiresApp
CHECK_DEADLOCK FALSE
