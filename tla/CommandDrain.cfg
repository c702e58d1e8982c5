CONSTANTS
  c1 = c1
  c2 = c2
  p = p
  q = q
  Callbacks = {c1, c2}
  Table <- TableOf
  Owner <- OwnerOf
  Capacity = 2
  MaxSends = 3
SPECIFICATION FairSpec
INVARIANTS
  DrainContract
PROPERTY
  EveryValueArrives
CHECK_DEADLOCK FALSE
