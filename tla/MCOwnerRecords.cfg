SPECIFICATION Spec
CONSTANTS
  Pages = {p1}
  Items = {i1}
  Gross <- GrossOf
  GrossAmount = 2
  Amounts = {1, 2}
  Keys = {k1, k2}
  Parts = {x1}
  MaxGeneration = 3
  NoKey = NoKey
CONSTRAINT Bounded
SYMMETRY Symmetry
CHECK_DEADLOCK FALSE
INVARIANTS
  TypeOK
  ShownWasRefunded
PROPERTIES
  AddsAtMostEntered
  RepeatedRefundsNothing
  OverviewMovesOn
