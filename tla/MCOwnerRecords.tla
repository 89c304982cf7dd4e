---------------------------- MODULE MCOwnerRecords ----------------------------
(***************************************************************************)
(* Small instances of OwnerRecords; the constraint bounds what has none.   *)
(***************************************************************************)
EXTENDS OwnerRecords, FiniteSets, TLC

CONSTANTS GrossAmount, MaxGeneration

GrossOf == [i \in Items |-> GrossAmount]

Bounded ==
  /\ \A p \in Pages : generation[p] <= MaxGeneration
  /\ \A x \in Parts : version[x] <= MaxGeneration

Symmetry ==
  Permutations(Pages) \cup Permutations(Items) \cup Permutations(Keys) \cup Permutations(Parts)
==============================================================================
