SPECIFICATION Spec
CONSTANTS
  Challenges = {h1, h2}
  Codes = {x, y}
  MaxAttempts = 2
  Earnings = {e1}
  Debts = {0, 1}
  Payout <- MCPayout
  Keys = {q1, q2}
  NoChallenge = NoChallenge
SYMMETRY Symmetry
INVARIANTS
  TypeOK
  GuessRateBounded
  ClaimsAreAuthorised
PROPERTIES
  ReplacedCodeIsDead
