SPECIFICATION FairSpec
CONSTANTS
  Challenges = {h1, h2, h3}
  Codes = {x, y}
  MaxAttempts = 2
  Earnings = {e1}
  Debts = {0, 1}
  Payout <- MCPayout
  Keys = {q1, q2}
  NoChallenge = NoChallenge
  SmsAvailable = FALSE
  MaxMishaps = 1
  NoKey = NoKey
  NoMessage = NoMessage
INVARIANTS
  FlowTypeOK
PROPERTIES
  SuccessIsTrue
  PartnerGetsThrough
CHECK_DEADLOCK FALSE
