---------------------------- MODULE DeadlineDuty -----------------------------
(***************************************************************************)
(* What the deadline workers owe: every dispute on the clock comes off it, *)
(* argued by a person or settled by a worker, once.                        *)
(***************************************************************************)
CONSTANT Disputes

VARIABLE fate

Fate == {"absent", "open", "argued", "settled"}

Init == fate = [d \in Disputes |-> "absent"]

Becomes(d, from, to) == fate[d] = from /\ fate' = [fate EXCEPT ![d] = to]

Next ==
  \E d \in Disputes :
    \/ Becomes(d, "absent", "open")
    \/ Becomes(d, "open", "argued")
    \/ Becomes(d, "open", "settled")

(* No step but these.                                                      *)
Safety == Init /\ [][Next]_fate

(* No dispute is forgotten.                                                *)
NoneForgotten == \A d \in Disputes : fate[d] = "open" ~> fate[d] # "open"

Spec == Safety /\ NoneForgotten
=============================================================================
