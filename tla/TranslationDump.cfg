CONSTANTS
  c1 = c1
  t1 = t1
  t2 = t2
  scenariodump = scenariodump
  lyricsdump = lyricsdump
  Callbacks = {c1}
  Capacity = 1
  MaxSends = 2
  Keys = {1, 2}
  Texts = {t1, t2}
  Content <- ContentOf
  Dic <- DicOf
  Probes <- ProbesOf
  Skipping = {lyricsdump}
  FlushInterval = 2
  MaxCrashes = 1
SPECIFICATION FairSpec
INVARIANT
  DoneMeansAll
PROPERTIES
  TableAccumulates
  EveryTextIsSaved
CHECK_DEADLOCK FALSE
