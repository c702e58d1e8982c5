CONSTANTS
  m = m
  w = w
  Main = m
  Threads = {m, w}
  MaxDepth = 2
SPECIFICATION Spec
INVARIANT FailedImpliesGateClosed
CHECK_DEADLOCK FALSE
