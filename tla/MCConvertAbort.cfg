SPECIFICATION FairSpec
CONSTANTS
  a = a
  b = b
  c = c
  Keys <- MCKeys
  Workers = {w1, w2}
  Main = main
  NoKey = nokey
  Tops <- TopsA
  TopAliases <- MCAliases
  Children <- Diamond
  Blackbox = {}
  ErrorKeys = {b}
  ThrowKeys = {c}
  AbortOnError = TRUE
  SizeMod = 100
  Names <- MCNames
  Candidate <- Colliding
INVARIANTS
  TypeOK
  PendingExact
  DoneMeansQuiet
  KeyInOnePlace
  DiagnosticsDelivered
PROPERTIES
  RefinesRun
  WorkersExit
CHECK_DEADLOCK FALSE
