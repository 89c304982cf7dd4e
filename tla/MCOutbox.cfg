SPECIFICATION Spec
CONSTANTS
  m1 = m1
  m2 = m2
  r1 = r1
  r2 = r2
  NoRun = NoRun
  Messages = {m1, m2}
  Codes = {m1, m2}
  Runs = {r1, r2}
  MaxAttempts = 2
  MaxFailures = 1
SYMMETRY OutboxSymmetry
INVARIANTS
  TypeOK
  TakenOnce
  ContentExact
  OnlyNewestCodeLive
PROPERTIES
  SettledIsFinal
  LeaseIsExclusive
