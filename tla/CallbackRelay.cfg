CONSTANTS
  c1 = c1
  c2 = c2
  Callbacks = {c1, c2}
  MaxPending = 2
  MaxRequests = 4
SPECIFICATION FairSpec
CHECK_DEADLOCK FALSE
INVARIANTS
  PendingIsExact
  HandledOnceAnswersMatch
PROPERTY
  EveryRequestAnswered
