CONSTANTS
  Jumps <- MCJumps
  TestJumps <- MCAllTestJumps
  Windows <- MCWindows
  Data <- MCData
  Distances <- MCFarOnly
SPECIFICATION Spec
INVARIANTS TestBitRelocated
CHECK_DEADLOCK FALSE
