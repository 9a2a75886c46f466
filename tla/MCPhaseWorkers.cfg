SPECIFICATION FairSpec
CONSTANTS
  Packages <- MCPackages
  MaxSteps = 2
  Requests = {0, 2, 3, 5}
  MaxCpus = 3
INVARIANTS
  NoRace
PROPERTIES
  StepSynchronous
  RefinesStep
  SimulatorEnds
CHECK_DEADLOCK FALSE
