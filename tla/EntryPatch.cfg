CONSTANTS
  Jumps <- MCJumps
  TestJumps <- MCTestJumps
  Windows <- MCWindows
  Data <- MCData
  Distances <- MCDistances
SPECIFICATION Spec
PROPERTY ImplementsDisplaced
CHECK_DEADLOCK FALSE
