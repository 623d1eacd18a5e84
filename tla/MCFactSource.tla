---------------------------- MODULE MCFactSource -----------------------------
(***************************************************************************)
(* Instances of FactSource for TLC.                                        *)
(***************************************************************************)
EXTENDS FactSource, TLC

CONSTANTS d0, c1, far, old, new, b1, b2

(* It has been won, and was embedded by the model before this one.         *)
FarWon == [x \in Disputes |-> IF x = far THEN "won" ELSE "open"]
FarByTheOld == [x \in Disputes |-> IF x = far THEN old ELSE None]

(* Longer than one file may be, and two of them than the block.            *)
Pages == [size |-> 3, text |-> TRUE]
Scan == [size |-> 3, text |-> FALSE]
PagesOrScan == {Pages, Scan}

(* The form that is still out was signed between these two.                *)
TwoFiles == [k \in [at : {0, 2}, name : {1}] |-> Pages]
=============================================================================
