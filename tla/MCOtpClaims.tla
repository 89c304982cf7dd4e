----------------------------- MODULE MCOtpClaims -----------------------------
(***************************************************************************)
(* Small instances of OtpClaims: every earning is worth one unit, and a     *)
(* claim pays what the debt leaves of it.                                   *)
(***************************************************************************)
EXTENDS OtpClaims, TLC

MCPayout ==
  [chosen \in Selections |-> [owed \in Debts |->
     IF Cardinality(chosen) > owed THEN Cardinality(chosen) - owed ELSE 0]]

Symmetry == Permutations(Challenges) \cup Permutations(Keys) \cup Permutations(Codes) \cup Permutations(Earnings)
==============================================================================
