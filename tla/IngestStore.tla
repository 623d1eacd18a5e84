----------------------------- MODULE IngestStore -----------------------------
(***************************************************************************)
(* The write path of the ingest service (internal/ingest/store.go): a      *)
(* delivery of dispute.opened becomes a dispute, one of dispute.resolved   *)
(* rules on it.  A delivery is identified by its idempotency key; the      *)
(* Redis guard in front of this path is another module's subject, and only *)
(* hides deliveries from it.                                               *)
(***************************************************************************)
EXTENDS DisputeStore

CONSTANT Deliveries   (* records [dispute, body, copy]; copy tells events apart *)

Body == {"opened", "won", "lost"}

ASSUME DeliveriesAssumption ==
  \A e \in Deliveries : e.dispute \in Disputes /\ e.body \in Body

VARIABLE webhook      (* webhook_events.status, "none" before the row exists *)

IngestTypeOK == webhook \in [Deliveries -> {"none", "processed", "failed"}]

IngestInit == webhook = [e \in Deliveries |-> "none"]

(* insertDelivery: ON CONFLICT (idempotency_key) DO NOTHING.  A delivery   *)
(* already on file ends here and changes nothing.                          *)
FirstDelivery(e, body) == e.body = body /\ webhook[e] = "none"

Mark(e, status) == webhook' = [webhook EXCEPT ![e] = status]

(* The charge is not ours: committed as a failure, never retried.          *)
RecordUnlinkable(e) ==
  /\ FirstDelivery(e, "opened")
  /\ ChargeOf[e.dispute] \notin Charges
  /\ Mark(e, "failed")
  /\ UNCHANGED storeVars

(* A second event for a dispute on file; whatever it says is ignored.      *)
RecordKnownDispute(e) ==
  /\ FirstDelivery(e, "opened")
  /\ ChargeOf[e.dispute] \in Charges
  /\ state[e.dispute] # "absent"
  /\ Mark(e, "processed")
  /\ UNCHANGED storeVars

(* A seeded bug: a chargeback is filed and its funds are not held.         *)
HoldForgotten(d) == PostNothing

(* A chargeback is a clawback that has already happened; an alert moves    *)
(* nothing.                                                                *)
HoldFunds(d) ==
  \/ KindOf[d] = "chargeback" /\ Postable(d, "hold") /\ Post(d, "hold")
  \/ KindOf[d] = "alert" /\ PostNothing

RecordDispute(e) ==
  LET d == e.dispute IN
  /\ FirstDelivery(e, "opened")
  /\ ChargeOf[d] \in Charges
  /\ state[d] = "absent"
  /\ state' = [state EXCEPT ![d] = "received"]
  /\ HoldFunds(d)
  /\ RecordEvent(d, "absent", "received")
  /\ Announce(d, "received")
  /\ Mark(e, "processed")
  /\ UNCHANGED <<version, resolved, refunded, runs, clock>>

(* A seeded bug: the ruling is applied to any dispute that is still open.  *)
StillOpen(d) == state[d] \in OnTheClock \cup {"represented"}

(* The WHERE clause of the ruling's UPDATE.                                *)
AwaitingRuling(d) == state[d] = "represented"

(* That UPDATE finds no row: the delivery is kept as failed, so the same   *)
(* ruling delivered again is a duplicate.                                  *)
RecordPrematureRuling(e) ==
  /\ e.body \in {"won", "lost"}
  /\ FirstDelivery(e, e.body)
  /\ ~AwaitingRuling(e.dispute)
  /\ Mark(e, "failed")
  /\ UNCHANGED storeVars

RecordRuling(e) ==
  LET d   == e.dispute
      ref == IF e.body = "lost" THEN "chargeback" ELSE "release"
  IN
  /\ e.body \in {"won", "lost"}
  /\ FirstDelivery(e, e.body)
  /\ AwaitingRuling(d)
  /\ Move(d, e.body)
  /\ Resolve(d)
  /\ Postable(d, ref)
  /\ Post(d, ref)
  /\ RecordEvent(d, "represented", e.body)
  /\ Announce(d, e.body)
  /\ Mark(e, "processed")
  /\ UNCHANGED <<refunded, runs, clock>>

IngestNext ==
  \E e \in Deliveries :
    \/ RecordUnlinkable(e)
    \/ RecordKnownDispute(e)
    \/ RecordDispute(e)
    \/ RecordPrematureRuling(e)
    \/ RecordRuling(e)
=============================================================================
