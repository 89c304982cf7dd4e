----------------------------- MODULE MCLockOrder -----------------------------
(***************************************************************************)
(* Small instances of LockOrder: the transactions that keep to the order,  *)
(* and two groups with one that does not.                                  *)
(***************************************************************************)
EXTENDS LockOrder, TLC

MCIdsApart == <<"b", "a">>

DemoHandlers == {"advance", "reset"}
MCOrdered == DOMAIN Plans \ (DemoHandlers \cup {"owner_claims"})
MCGuided == {"advance", "hold"}
MCListed == {"owner_claims", "suspend"}
Symmetry == Permutations(Sessions)
==============================================================================
