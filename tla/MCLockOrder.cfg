SPECIFICATION Spec
CONSTANTS
  Sessions = {s1, s2, s3}
  Handlers <- MCOrdered
  NewestFirst <- MCIdsApart
SYMMETRY Symmetry
INVARIANTS
  NoDeadlock
