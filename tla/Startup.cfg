CONSTANTS
  e1 = e1
  e2 = e2
  Entries = {e1, e2}
  Emitters = {"main", e1, e2}
  Capacity = 1
  MaxEvents = 2
  Threads = {"main", "other"}
  GameRate = 60
  GameVsync = 1
SPECIFICATION FairSpec
CHECK_DEADLOCK FALSE
INVARIANTS
  ProbedOnceWhenReady
  EventsAccounted
  EndsClean
  AnswerHolds
PROPERTY
  StartSettles
