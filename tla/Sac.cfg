SPECIFICATION Spec
CONSTANT Scenarios <- SafScenarios
INVARIANTS TypeOK RestartLimit Agreement KeepsState
PROPERTY Settles
