CONSTANTS
  Scenarios <- LivenessScenarios
  GETRIES = 10
  CONNODATA = 20
  NTIMEOUT = 50
  PKMAXSTMSG = 40
SPECIFICATION FairSpec
PROPERTIES TurnsComplete Termination
