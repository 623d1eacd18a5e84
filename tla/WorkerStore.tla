----------------------------- MODULE WorkerStore -----------------------------
(***************************************************************************)
(* What a worker does to one dispute once it has claimed it                *)
(* (internal/worker/store.go, rules.go and the body of handle): load a     *)
(* snapshot, decide on it against its own clock, apply the decision only   *)
(* if the version has not moved.  The deadline index and the Redis lock    *)
(* are left out: any worker may load any open dispute at any moment, which *)
(* is what a lapsed lock allows.                                           *)
(***************************************************************************)
EXTENDS DisputeStore

CONSTANT Workers

VARIABLE worker       (* the snapshot a worker is acting on, Nil when idle *)

(* store.go's loaded, and the Decision taken on it.                        *)
Snapshot == [dispute : Disputes, state : State, resolved : BOOLEAN,
             version : Nat, remaining : Int,
             action : {"undecided", "expire", "close", "refund"}]

WorkerTypeOK == worker \in [Workers -> Snapshot \cup {Nil}]

WorkerInit == worker = [w \in Workers |-> Nil]

(* The policy.  An alert is refunded when the merchant allows the amount   *)
(* and the charge still has it; a chargeback is never the worker's.        *)
WithinCeiling(d) == CeilingOf[d] # Nil /\ AmountOf[d] <= CeilingOf[d]

Decide(s, late) ==
  LET d == s.dispute IN
  IF s.resolved \/ s.state \notin OnTheClock THEN "skip"
  ELSE IF late THEN "expire"
  ELSE IF s.state = "draft_ready" THEN "skip"
  ELSE IF KindOf[d] = "chargeback" THEN "escalate"
  ELSE IF s.remaining <= 0 THEN "close"
  ELSE IF WithinCeiling(d) /\ AmountOf[d] <= s.remaining THEN "refund"
  ELSE "escalate"

ToState(action) == IF action = "expire" THEN "expired" ELSE "refunded"

(* load.  A dispute no longer on the clock is read and skipped, which      *)
(* writes nothing, so only the others are loaded here.                     *)
WorkerLoad(w, d) ==
  /\ worker[w] = Nil
  /\ state[d] \in OnTheClock
  /\ worker' = [worker EXCEPT ![w] =
       [dispute |-> d, state |-> state[d], resolved |-> resolved[d],
        version |-> version[d],
        remaining |-> CapturedOf[ChargeOf[d]] - refunded[ChargeOf[d]],
        action |-> "undecided"]]
  /\ UNCHANGED storeVars

WorkerDecide(w) ==
  /\ worker[w] # Nil
  /\ worker[w].action = "undecided"
  /\ LET action == Decide(worker[w], clock[worker[w].dispute] = "past") IN
       worker' = [worker EXCEPT ![w] =
         IF action \in {"skip", "escalate"} THEN Nil ELSE [@ EXCEPT !.action = action]]
  /\ UNCHANGED storeVars

(* A seeded bug: the running total of the charge is not moved.             *)
TotalForgotten(d) == UNCHANGED refunded

(* addRefundToTransaction, under CHECK (refunded_minor <= amount_minor).   *)
AddRefund(d) ==
  LET c == ChargeOf[d] IN
  /\ refunded[c] + AmountOf[d] <= CapturedOf[c]
  /\ refunded' = [refunded EXCEPT ![c] = @ + AmountOf[d]]

(* The money a decision moves, or the refusal of the database.             *)
ApplyMoney(s) ==
  LET d == s.dispute IN
  \/ /\ s.action = "refund"
     /\ Postable(d, "refund")
     /\ Post(d, "refund")
     /\ AddRefund(d)
  \/ /\ s.action = "expire" /\ KindOf[d] = "chargeback"
     /\ Postable(d, "chargeback")
     /\ Post(d, "chargeback")
     /\ UNCHANGED refunded
  \/ /\ \/ s.action = "close"
        \/ s.action = "expire" /\ KindOf[d] = "alert"
     /\ PostNothing
     /\ UNCHANGED refunded

(* A seeded bug: the UPDATE has lost its "AND version = $2".               *)
AnyVersion(s) == TRUE

Fresh(s) == version[s.dispute] = s.version

(* applyTx.  No decision goes to 'represented', so all of them resolve.    *)
WorkerApply(w) ==
  LET s == worker[w]
      d == s.dispute
  IN
  /\ s # Nil
  /\ s.action # "undecided"
  /\ Fresh(s)
  /\ Move(d, ToState(s.action))
  /\ Resolve(d)
  /\ RecordEvent(d, s.state, ToState(s.action))
  /\ ApplyMoney(s)
  /\ Announce(d, ToState(s.action))
  /\ worker' = [worker EXCEPT ![w] = Nil]
  /\ UNCHANGED <<runs, clock>>

(* ErrStaleCandidate, a posting or a CHECK refused, or the process gone:   *)
(* nothing is written, and the dispute is for a later claim to look at.    *)
WorkerGiveUp(w) ==
  /\ worker[w] # Nil
  /\ worker' = [worker EXCEPT ![w] = Nil]
  /\ UNCHANGED storeVars

WorkerNext ==
  \E w \in Workers :
    \/ \E d \in Disputes : WorkerLoad(w, d)
    \/ WorkerDecide(w)
    \/ WorkerApply(w)
    \/ WorkerGiveUp(w)
=============================================================================
