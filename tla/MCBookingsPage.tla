---------------------------- MODULE MCBookingsPage ---------------------------
(***************************************************************************)
(* Small instances of BookingsPage.                                        *)
(***************************************************************************)
EXTENDS BookingsPage, TLC

Symmetry == Permutations(Refs) \cup Permutations(Events) \cup Permutations(Keys)
==============================================================================
