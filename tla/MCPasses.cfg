SPECIFICATION Spec
CONSTANTS
    Scenarios <- MCScenarios
    StopOnError = TRUE
INVARIANTS
    NetlistIntact
    ChangedHonest
    OutputsPreserved
PROPERTIES
    SimplifyComplete
    Terminates
