----------------------------- MODULE Commission -----------------------------
(***************************************************************************)
(* Commission arithmetic of domain/money.ts in integer minor units.  A     *)
(* rule snapshot is a record with its kind and its figure: the flat amount *)
(* or the basis points.  NoRule is the empty snapshot of an earning that   *)
(* found no applicable rule.                                               *)
(***************************************************************************)
EXTENDS Integers

Rule == {r \in [type : {"flat", "percentage"}, value : Nat] :
           r.type = "percentage" => r.value \in 1..10000}

NoRule == [type |-> "none", value |-> 0]

\* Half-up rounding to the nearest minor unit.
CalculatePercentage(base, basisPoints) == (base * basisPoints + 5000) \div 10000

\* A flat rule ignores the base.
CalculateCommission(rule, base) ==
  IF rule.type = "percentage" THEN CalculatePercentage(base, rule.value)
                              ELSE rule.value

Smaller(a, b) == IF a < b THEN a ELSE b
Larger(a, b) == IF a < b THEN b ELSE a
==============================================================================
