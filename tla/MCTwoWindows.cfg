SPECIFICATION Spec
CONSTANTS
  Pages = {p1, p2}
  Items = {i1}
  Gross <- GrossOf
  GrossAmount = 3
  Amounts = {1, 2}
  Keys = {k1, k2}
  Parts = {}
  MaxGeneration = 3
  NoKey = NoKey
CONSTRAINT Bounded
SYMMETRY Symmetry
CHECK_DEADLOCK FALSE
INVARIANTS
  EnteredIsRefunded
