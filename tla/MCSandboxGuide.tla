---------------------------- MODULE MCSandboxGuide ---------------------------
(***************************************************************************)
(* Small instances of SandboxGuide.                                        *)
(***************************************************************************)
EXTENDS SandboxGuide
==============================================================================
