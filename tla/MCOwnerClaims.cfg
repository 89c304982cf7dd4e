SPECIFICATION Spec
CONSTANTS
  Sessions = {s1, s2}
  Handlers <- MCListed
  NewestFirst <- MCIdsApart
INVARIANTS
  NoDeadlock
