CONSTANTS
  a = a
  Ids = {a}
  MaxInbox = 2
  MaxOutbox = 2
  MaxPending = 2
  MaxFrames = 3
  MaxConnections = 2
SPECIFICATION FairSpec
CHECK_DEADLOCK FALSE
INVARIANTS
  AnsweredOnceAndHere
  NothingIsLost
  CarefulFrameIsNotRefused
  OneFramePerId
PROPERTIES
  RetiredIsNotServed
  EveryFrameAnswered
