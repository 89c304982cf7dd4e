SPECIFICATION FairSpec
CONSTANTS
  m1 = m1
  m2 = m2
  r1 = r1
  r2 = r2
  NoRun = NoRun
  Messages = {m1}
  Codes = {}
  Runs = {r1, r2}
  MaxAttempts = 2
  MaxFailures = 2
INVARIANTS
  OutcomeIsTrue
PROPERTIES
  ComesToRest
  KnownOutcome
