---------------------------- MODULE MCWorkerPool -----------------------------
(***************************************************************************)
(* Instances of WorkerPool for TLC.                                        *)
(***************************************************************************)
EXTENDS WorkerPool, TLC

CONSTANTS d1, d2, p1, p2

DueInTwo == [d \in Disputes |-> 2]
(* One dispute that is drafted, and one nobody touches.                    *)
Drafted == [d \in Disputes |-> IF d = d2 THEN 2 ELSE 0]
Once == [d \in Disputes |-> 1]
(* One deadline inside the claim window from the start, one outside.       *)
OneSoon == [d \in Disputes |-> IF d = d1 THEN 1 ELSE 2]
=============================================================================
