------------------------------ MODULE MCIntake ------------------------------
(***************************************************************************)
(* Instances of Intake for TLC.                                            *)
(***************************************************************************)
EXTENDS Intake, TLC

CONSTANTS e1, e2, e3, d1, d2

(* The second event tells of the same dispute as the first.                *)
TwoOfOne == e1 :> d1 @@ e2 :> d1
=============================================================================
