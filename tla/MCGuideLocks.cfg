SPECIFICATION Spec
CONSTANTS
  Sessions = {s1, s2}
  Handlers <- MCGuided
  NewestFirst <- MCIdsApart
INVARIANTS
  NoDeadlock
