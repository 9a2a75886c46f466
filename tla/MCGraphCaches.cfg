SPECIFICATION GraphSpec
CONSTANTS
  MaxValues = 2
  MaxOps = 2
  MaxArity = 1
  Syms = {s1, s2}
  Declarable = {s1}
  NoSym = nosym
  Stale = stale
  PortNames = {p}
  InoutNames = {q}
  Unchecked = TRUE
  PortCallsFail = FALSE
INVARIANTS
  CachesCoherent
  ThawNeverFails
  FreezeNeverFails
  FlagsExact
  BoundNeverErased
PROPERTIES
  FreezeKeepsNetlist
CHECK_DEADLOCK FALSE
