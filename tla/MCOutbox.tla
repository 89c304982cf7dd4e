------------------------------ MODULE MCOutbox ------------------------------
(***************************************************************************)
(* Small instances of Outbox for TLC.                                      *)
(***************************************************************************)
EXTENDS Outbox, TLC

CONSTANTS m1, m2, r1, r2

\* The messages of an instance are all codes or all notices.
OutboxSymmetry == Permutations(Messages) \cup Permutations(Runs)
=============================================================================
