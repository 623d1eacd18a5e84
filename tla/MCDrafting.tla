----------------------------- MODULE MCDrafting ------------------------------
(***************************************************************************)
(* Instances of Drafting for TLC.                                          *)
(***************************************************************************)
EXTENDS Drafting, TLC

CONSTANTS f1, f2, ghost
=============================================================================
