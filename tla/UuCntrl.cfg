SPECIFICATION Spec
CONSTANTS
  BUFSIZ = 2
  Scenarios <- CntrlScenarios
INVARIANTS TypeOK NeverLost Intact InStep
PROPERTY AllServed
