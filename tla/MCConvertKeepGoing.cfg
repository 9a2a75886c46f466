SPECIFICATION FairSpec
CONSTANTS
  a = a
  b = b
  c = c
  Keys <- MCKeys
  Workers = {w1, w2}
  Main = main
  NoKey = nokey
  Tops <- TopsAC
  TopAliases <- MCAliases
  Children <- Diamond
  Blackbox = {b}
  ErrorKeys = {a}
  ThrowKeys = {b, c}
  AbortOnError = FALSE
  SizeMod = 100
  Names <- MCNames
  Candidate <- Colliding
INVARIANTS
  CreateNeverCollides
  ReadyMeansStored
  DesignComplete
PROPERTIES
  ScheduledSettles
  ParkedIsWoken
CHECK_DEADLOCK FALSE
