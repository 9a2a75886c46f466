SPECIFICATION Spec
CONSTANTS
  MaxValues = 2
  MaxOps = 2
  MaxArity = 2
  Syms = {s1, s2, s3, s4}
  NoSym = nosym
  PortNames = {p}
  InoutNames = {q}
  Unchecked = TRUE
  PortCallsFail = TRUE
CONSTRAINT PortsOrSize
SYMMETRY SymSymmetry
INVARIANTS
  InoutNeverErased
  UseListExact
  DefExact
  NoDanglingEdge
  SymbolIndexExact
PROPERTIES
  RefinesNetlist
CHECK_DEADLOCK FALSE
