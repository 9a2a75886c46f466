SPECIFICATION Spec
CONSTANTS
  Names = {a, b}
  Contents = {blank, broken}
  Blank = blank
  Uncloneable = {broken}
  TopsByName = TRUE
  NoName = noname
  MaxGraphs = 3
SYMMETRY NameSymmetry
INVARIANTS
  TablesAgree
  TopsResolve
  CloneThrowsOnlyAtContents
  CloneIsWhole
PROPERTIES
  IdsNeverReused
CHECK_DEADLOCK FALSE
