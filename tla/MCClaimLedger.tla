---------------------------- MODULE MCClaimLedger ----------------------------
(***************************************************************************)
(* Small instances of ClaimLedger for TLC.                                 *)
(***************************************************************************)
EXTENDS ClaimLedger, TLC

CONSTANTS p1, p2, k1, k2, c1, c2, c3

Percent(n) == [type |-> "percentage", value |-> 100 * n]
Flat(n) == [type |-> "flat", value |-> n]

\* Conversion k1 has the items 1 and 2, conversion k2 the item 3.
MCConversionOf == 1 :> k1 @@ 2 :> k1 @@ 3 :> k2
OnePartner == k1 :> p1 @@ k2 :> p1
PartnerEach == k1 :> p1 @@ k2 :> p2
MCGross == 1 :> 2 @@ 2 :> 1 @@ 3 :> 2
MCRuleChoices == 1 :> {Percent(100)} @@ 2 :> {Flat(1), NoRule} @@ 3 :> {Percent(50)}
SmallGross == 1 :> 1 @@ 2 :> 1 @@ 3 :> 2
AlwaysARule == 1 :> {Percent(100)} @@ 2 :> {Flat(1)} @@ 3 :> {Percent(100)}

ClaimSymmetry == Permutations(Claims)
==============================================================================
