CONSTANTS
  W = 7
  MaxPackets = 9
  MaxData = 2
  MaxAcks = 1
SPECIFICATION Spec
CONSTRAINT Bounded
CHECK_DEADLOCK FALSE
INVARIANTS InOrder NoEarlyRelease AcksAreForSent Inv
PROPERTY LinkSpec
