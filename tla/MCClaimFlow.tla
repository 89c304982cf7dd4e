----------------------------- MODULE MCClaimFlow -----------------------------
(***************************************************************************)
(* Small instances of ClaimFlow, with the payouts of MCOtpClaims.          *)
(***************************************************************************)
EXTENDS ClaimFlow, TLC

MCPayout ==
  [chosen \in Selections |-> [owed \in Debts |->
     IF Cardinality(chosen) > owed THEN Cardinality(chosen) - owed ELSE 0]]

Symmetry == Permutations(Codes) \cup Permutations(Earnings)
==============================================================================
