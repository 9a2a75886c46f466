SPECIFICATION Spec
CONSTANTS
    Scenarios <- UnreadScenarios
    StopOnError = TRUE
INVARIANT
    PortsKeepValues
