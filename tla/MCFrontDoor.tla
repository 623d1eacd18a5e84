----------------------------- MODULE MCFrontDoor -----------------------------
(***************************************************************************)
(* Instances of FrontDoor for TLC.                                         *)
(***************************************************************************)
EXTENDS FrontDoor, TLC

CONSTANTS q1, q2, k1, k2, forged
=============================================================================
