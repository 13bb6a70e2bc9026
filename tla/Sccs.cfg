SPECIFICATION Spec
CONSTANTS
  A = A
  B = B
  C = C
  User = {A, B, C}
  Scenario <- Scenarios
  NoFile = NoFile
  TRIES = 2
  MaxCuts = 1
INVARIANTS TypeOK OneHolder HistoryKept EditsKept SidsSound
CHECK_DEADLOCK FALSE
PROPERTY CommandsEnd
