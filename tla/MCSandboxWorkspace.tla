------------------------- MODULE MCSandboxWorkspace --------------------------
(***************************************************************************)
(* Small instances of SandboxWorkspace.                                    *)
(***************************************************************************)
EXTENDS SandboxWorkspace, TLC

\* A check by the owner, a switch to the partner, a check by the partner.
ThreeStages == <<"owner", "partner", "partner">>
\* Two checks by the owner, as for the refund and its reversal.
TwoChecks == <<"owner", "owner">>
==============================================================================
