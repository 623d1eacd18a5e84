-------------------------- MODULE DisputeLifecycle --------------------------
(***************************************************************************)
(* What the platform promises of one dispute, whatever processes do it:    *)
(* where it stands and what its money is doing change together, each       *)
(* dispute is settled at most once, and only a ruling or an expiry settles *)
(* a chargeback.                                                           *)
(***************************************************************************)
CONSTANTS Disputes, KindOf

VARIABLES
  stage,    (* "absent", "open", "argued", or how it ended                   *)
  money     (* "untouched", "held", and once settled: who the funds went to  *)

vars == <<stage, money>>

Init ==
  /\ stage = [d \in Disputes |-> "absent"]
  /\ money = [d \in Disputes |-> "untouched"]

Step(d, from, to, cash) ==
  /\ stage[d] = from
  /\ stage' = [stage EXCEPT ![d] = to]
  /\ money' = [money EXCEPT ![d] = cash]

Chargeback(d) == KindOf[d] = "chargeback"

File(d) == Step(d, "absent", "open", IF Chargeback(d) THEN "held" ELSE "untouched")

(* An alert may be answered with a refund, or closed because its charge    *)
(* has been refunded already.                                              *)
Answer(d) ==
  /\ ~Chargeback(d)
  /\ \E cash \in {"returned", "untouched"} : Step(d, "open", "refunded", cash)

Argue(d) == Chargeback(d) /\ Step(d, "open", "argued", "held")

Win(d) == Step(d, "argued", "won", "released")

Lose(d) == Step(d, "argued", "lost", "forfeited")

Expire(d) ==
  Step(d, "open", "expired", IF Chargeback(d) THEN "forfeited" ELSE "untouched")

Next ==
  \E d \in Disputes :
    File(d) \/ Answer(d) \/ Argue(d) \/ Win(d) \/ Lose(d) \/ Expire(d)

Spec == Init /\ [][Next]_vars
=============================================================================
