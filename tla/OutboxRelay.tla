----------------------------- MODULE OutboxRelay ----------------------------
(***************************************************************************)
(* The relay of an ingest process (internal/outbox/relay.go, sqs.go): it   *)
(* locks the oldest unpublished rows, sends them in order, and then marks  *)
(* them published and commits.                                             *)
(***************************************************************************)
EXTENDS MessageQueue

CONSTANTS
  Relays,    (* ingest processes                                            *)
  BatchSize, (* batchSize                                                   *)
  Refused    (* rows the queue never accepts: too large, say                *)

ASSUME RelayAssumption == BatchSize \in Nat \ {0} /\ Refused \subseteq Rows

VARIABLES
  outbox, (* a row: not committed yet, published_at null, or set            *)
  batch,  (* the rows a relay's transaction has locked                      *)
  sent,   (* the ids among them that made it                                *)
  stopped (* relays that met a failure in their batch                       *)

relayVars == <<outbox, batch, sent, stopped>>

RelayTypeOK ==
  /\ outbox \in [Rows -> {"absent", "unpublished", "published"}]
  /\ batch \in [Relays -> SUBSET Rows]
  /\ sent \in [Relays -> SUBSET Rows]
  /\ stopped \subseteq Relays

RelayInit ==
  /\ outbox = [x \in Rows |-> "absent"]
  /\ batch = [r \in Relays |-> {}]
  /\ sent = [r \in Relays |-> {}]
  /\ stopped = {}

(* A transaction that wrote to the outbox commits: not in the order of ids.*)
Insert(x) ==
  /\ outbox[x] = "absent"
  /\ outbox' = [outbox EXCEPT ![x] = "unpublished"]
  /\ UNCHANGED <<batch, sent, stopped, queueVars, faults>>

(* A seeded bug: FOR UPDATE SKIP LOCKED is missing.                        *)
Unpublished == {x \in Rows : outbox[x] = "unpublished"}

(* FOR UPDATE SKIP LOCKED.                                                 *)
Claimable == {x \in Rows : outbox[x] = "unpublished" /\ \A r \in Relays : x \notin batch[r]}

Oldest(n) ==
  {xs \in SUBSET Claimable :
     /\ Cardinality(xs) = IF Cardinality(Claimable) < n THEN Cardinality(Claimable) ELSE n
     /\ \A x \in xs, y \in Claimable \ xs : x < y}

Select(r) ==
  /\ batch[r] = {}
  /\ \E xs \in Oldest(BatchSize) \ {{}} : batch' = [batch EXCEPT ![r] = xs]
  /\ UNCHANGED <<outbox, sent, stopped, queueVars, faults>>

Following(r, x) ==
  /\ r \notin stopped
  /\ x \in batch[r] \ sent[r]
  /\ \A y \in batch[r] \ sent[r] : x <= y

Publish(r, x) ==
  /\ Following(r, x)
  /\ x \notin Refused
  /\ Send(x, 0)
  /\ sent' = [sent EXCEPT ![r] = @ \cup {x}]
  /\ UNCHANGED <<outbox, batch, stopped, faults>>

(* A seeded bug: the failure is carried into the next batch.               *)
StaysStopped(r) ==
  /\ batch' = [batch EXCEPT ![r] = {}]
  /\ sent' = [sent EXCEPT ![r] = {}]
  /\ UNCHANGED stopped

(* The transaction ends.                                                   *)
Done(r) ==
  /\ batch' = [batch EXCEPT ![r] = {}]
  /\ sent' = [sent EXCEPT ![r] = {}]
  /\ stopped' = stopped \ {r}

(* Stop at the first failure and commit the ones that made it.  A send     *)
(* whose answer was lost is a failure too.                                 *)
PublishFails(r, x) ==
  /\ Following(r, x)
  /\ \/ Fault /\ (UNCHANGED queueVars \/ (x \notin Refused /\ Send(x, 0)))
     \/ x \in Refused /\ UNCHANGED <<queueVars, faults>>
  /\ IF sent[r] = {} THEN Done(r)
     ELSE stopped' = stopped \cup {r} /\ UNCHANGED <<batch, sent>>
  /\ UNCHANGED outbox

(* A seeded bug: the whole batch is marked, sent or not.                   *)
MarkBatch(r) == outbox' = [x \in Rows |-> IF x \in batch[r] THEN "published" ELSE outbox[x]]

MarkPublished(r) ==
  outbox' = [x \in Rows |-> IF x \in sent[r] THEN "published" ELSE outbox[x]]

Commit(r) ==
  /\ sent[r] # {}
  /\ r \in stopped \/ sent[r] = batch[r]
  /\ MarkPublished(r)
  /\ Done(r)
  /\ UNCHANGED <<queueVars, faults>>

(* The commit fails, or only its answer is lost.                           *)
CommitFails(r) ==
  /\ sent[r] # {}
  /\ r \in stopped \/ sent[r] = batch[r]
  /\ Fault
  /\ MarkPublished(r) \/ UNCHANGED outbox
  /\ Done(r)
  /\ UNCHANGED queueVars

(* The process dies, or is told to stop: the transaction is rolled back.   *)
RelayDies(r) ==
  /\ batch[r] # {}
  /\ Fault
  /\ Done(r)
  /\ UNCHANGED <<outbox, queueVars>>

Relay(r) ==
  \/ Select(r) \/ Commit(r) \/ CommitFails(r) \/ RelayDies(r)
  \/ \E x \in Rows : Publish(r, x) \/ PublishFails(r, x)
=============================================================================
