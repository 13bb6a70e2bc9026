CONSTANTS
  Scenarios <- SafetyScenarios
  GETRIES = 10
  CONNODATA = 20
  NTIMEOUT = 50
  PKMAXSTMSG = 40
SPECIFICATION Spec
INVARIANTS TypeOK OutputBuffers BuffersAccounted Negotiated
PROPERTY KeepsPromise
