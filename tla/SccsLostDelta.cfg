SPECIFICATION Spec
CONSTANTS
  A = A
  B = B
  C = C
  User = {A, B, C}
  Scenario <- Overlap
  NoFile = NoFile
  TRIES = 2
  MaxCuts = 0
INVARIANT NoDeltaLost
CHECK_DEADLOCK FALSE
