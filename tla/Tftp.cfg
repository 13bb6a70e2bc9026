SPECIFICATION Spec
CONSTANTS
    SEGSIZE = 2
    BLOCKS = 4
    TRIES = 5
    MaxDaemons = 4
    Scenarios <- CopyScenarios
INVARIANTS TypeOK NeverAhead GetSurvives
PROPERTIES CopiesFile AllEnd
