----------------------------- MODULE ClaimBackfill ---------------------------
(***************************************************************************)
(* The embeddings of the claims of settled disputes, and the backfill that *)
(* fills them in (internal/agent/backfill.go, cmd/embed).  Nothing keeps   *)
(* two backfills apart: each selects what is missing without a lock, has   *)
(* it embedded at a price, and writes it.                                  *)
(***************************************************************************)
EXTENDS Integers, FiniteSets

CONSTANTS
  Disputes,
  Claims,        (* the disputes whose cardholder wrote something           *)
  Models,        (* the embedding models there have been                    *)
  Model,         (* the one this deployment is configured with              *)
  Backfills,     (* who runs cmd/embed, each one run after the other        *)
  BatchSize,     (* rows per request to the embedder                        *)
  OutcomeBefore, (* how cases stand at first                                *)
  EmbeddedBefore, (* and what was embedded then, by whichever model         *)
  MaxCuts,       (* bound: runs of one of them that fail or are interrupted *)
  None

ASSUME BackfillAssumption ==
  /\ Claims \subseteq Disputes
  /\ Model \in Models /\ None \notin Models
  /\ OutcomeBefore \in [Disputes -> {"open", "won", "lost", "expired"}]
  /\ EmbeddedBefore \in [Disputes -> Models \cup {None}]
  /\ BatchSize \in Nat \ {0} /\ MaxCuts \in Nat

VARIABLES
  outcome,       (* disputes.state, as far as the backfill is concerned     *)
  embedded,      (* dispute_embeddings: the model of a dispute's one row    *)
  backfill,      (* how far each backfill is                                *)
  batch,         (* the claims it has selected                              *)
  paid,          (* how often it has had a claim embedded                   *)
  cuts           (* how many runs of it failed or were interrupted          *)

backfillVars == <<outcome, embedded, backfill, batch, paid, cuts>>

BackfillTypeOK ==
  /\ outcome \in [Disputes -> {"open", "won", "lost", "expired"}]
  /\ embedded \in [Disputes -> Models \cup {None}]
  /\ backfill \in [Backfills -> {"idle", "selected", "embedded"}]
  /\ batch \in [Backfills -> SUBSET Claims]
  /\ paid \in [Backfills -> [Disputes -> Nat]]
  /\ cuts \in [Backfills -> Nat]

BackfillInit ==
  /\ outcome = OutcomeBefore
  /\ embedded = EmbeddedBefore
  /\ backfill = [r \in Backfills |-> "idle"]
  /\ batch = [r \in Backfills |-> {}]
  /\ paid = [r \in Backfills |-> [d \in Disputes |-> 0]]
  /\ cuts = [r \in Backfills |-> 0]

(* A dispute reaches its end.                                              *)
Settle(d, end) ==
  /\ outcome[d] = "open"
  /\ outcome' = [outcome EXCEPT ![d] = end]
  /\ UNCHANGED <<embedded, backfill, batch, paid, cuts>>

-----------------------------------------------------------------------------
(* Only settled disputes are embedded: an open one is no precedent.        *)
Missing == {d \in Claims : outcome[d] \in {"won", "lost"} /\ embedded[d] # Model}

(* next: no more than the batch, or -limit, has room for.                  *)
SelectBatch(r) ==
  /\ backfill[r] = "idle"
  /\ \E ds \in SUBSET Missing :
       /\ ds # {} /\ Cardinality(ds) <= BatchSize
       /\ batch' = [batch EXCEPT ![r] = ds]
  /\ backfill' = [backfill EXCEPT ![r] = "selected"]
  /\ UNCHANGED <<outcome, embedded, paid, cuts>>

(* The embedder answers with 200, which is what is charged.  An answer     *)
(* that breaks off or does not decode is not asked for again: the run ends *)
(* (CutBackfill).                                                          *)
EmbedBatch(r) ==
  /\ backfill[r] = "selected"
  /\ backfill' = [backfill EXCEPT ![r] = "embedded"]
  /\ paid' = [paid EXCEPT ![r] =
       [d \in Disputes |-> IF d \in batch[r] THEN @[d] + 1 ELSE @[d]]]
  /\ UNCHANGED <<outcome, embedded, batch, cuts>>

(* A seeded bug: ON CONFLICT leaves the row of the old model.              *)
KeepRow(d) == IF embedded[d] = None THEN Model ELSE embedded[d]

UpsertRow(d) == Model

(* One round trip and one implicit transaction: all of a batch or nothing. *)
Upsert(ds) ==
  embedded' = [d \in Disputes |-> IF d \in ds THEN UpsertRow(d) ELSE embedded[d]]

Rest(r) ==
  /\ backfill' = [backfill EXCEPT ![r] = "idle"]
  /\ batch' = [batch EXCEPT ![r] = {}]

WriteBatch(r) ==
  /\ backfill[r] = "embedded"
  /\ Upsert(batch[r])
  /\ Rest(r)
  /\ UNCHANGED <<outcome, paid, cuts>>

(* A failing call, -timeout or a signal ends the run, and the batch it is  *)
(* in may have been written before its answer was lost.  What is written   *)
(* stays, and somebody runs cmd/embed again.                               *)
CutBackfill(r) ==
  /\ backfill[r] # "idle"
  /\ cuts[r] < MaxCuts
  /\ cuts' = [cuts EXCEPT ![r] = @ + 1]
  /\ UNCHANGED embedded \/ (backfill[r] = "embedded" /\ Upsert(batch[r]))
  /\ Rest(r)
  /\ UNCHANGED <<outcome, paid>>

Backfill == \E r \in Backfills :
  SelectBatch(r) \/ EmbedBatch(r) \/ WriteBatch(r) \/ CutBackfill(r)

-----------------------------------------------------------------------------
(* "Stopping it and starting it again costs nothing and repeats nothing"   *)
(* (backfill.go:17) is not quite so: the batch a run is stopped in may be  *)
(* paid for again, and two people who run cmd/embed at once both pay for   *)
(* what both selected.  But however they overlap, whoever runs it, again   *)
(* and again, pays for a claim once, and once more for each run that was   *)
(* cut: a claim whose row is there is never paid for by who starts anew.   *)
PaidOnce == \A r \in Backfills, d \in Disputes : paid[r][d] <= 1 + cuts[r]
=============================================================================
