SPECIFICATION Spec
CONSTANTS
  p1 = p1
  p2 = p2
  k1 = k1
  k2 = k2
  c1 = c1
  c2 = c2
  c3 = c3
  Partners = {p1}
  Conversions = {k1, k2}
  Earnings = {1, 2, 3}
  Claims = {c1, c2, c3}
  ConversionOf <- MCConversionOf
  PartnerOf <- OnePartner
  Gross <- SmallGross
  RuleChoices <- AlwaysARule
SYMMETRY ClaimSymmetry
INVARIANTS
  DebtRecoveredOnce
