----------------------------- MODULE AtLeastOnce ----------------------------
(***************************************************************************)
(* What the outbox promises of an event: it is told only once it has been  *)
(* committed, and then it is acted on, or put where a person finds it.     *)
(***************************************************************************)
CONSTANT Rows

VARIABLES
  committed, (* events whose transaction has committed                      *)
  acted,     (* events the consumer has acted on                            *)
  parked     (* events a person has, or had and destroyed, a dead letter of *)

vars == <<committed, acted, parked>>

Init == committed = {} /\ acted = {} /\ parked = {}

Commit(x) ==
  /\ x \notin committed
  /\ committed' = committed \cup {x}
  /\ UNCHANGED <<acted, parked>>

Act(x) ==
  /\ x \in committed \ acted
  /\ acted' = acted \cup {x}
  /\ UNCHANGED <<committed, parked>>

Park(x) ==
  /\ x \in committed \ parked
  /\ parked' = parked \cup {x}
  /\ UNCHANGED <<committed, acted>>

PutBack(x) ==
  /\ x \in parked
  /\ parked' = parked \ {x}
  /\ UNCHANGED <<committed, acted>>

Next == \E x \in Rows : Commit(x) \/ Act(x) \/ Park(x) \/ PutBack(x)

Safety == Init /\ [][Next]_vars

(* No event is lost on the way.                                            *)
NoneLost == \A x \in Rows : x \in committed ~> x \in acted \cup parked

Spec == Safety /\ NoneLost
=============================================================================
