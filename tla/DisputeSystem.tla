---------------------------- MODULE DisputeSystem ----------------------------
(***************************************************************************)
(* The dispute lifecycle with all its writers at once: the ingest service, *)
(* the deadline workers, the drafting agents and the reviewers, over the   *)
(* same tables and the same clock.                                         *)
(***************************************************************************)
EXTENDS IngestStore, WorkerStore, AgentRuns, ReviewStore, FiniteSetsExt

vars == <<state, version, resolved, refunded, posted, books, trail, outbox,
          runs, clock, webhook, worker, listed, claim, dropped, review>>

TypeOK ==
  /\ StoreTypeOK
  /\ IngestTypeOK
  /\ WorkerTypeOK
  /\ AgentTypeOK
  /\ ReviewTypeOK

Init ==
  /\ StoreInit
  /\ IngestInit
  /\ WorkerInit
  /\ AgentInit
  /\ ReviewInit

Next ==
  \/ IngestNext /\ UNCHANGED <<worker, listed, claim, dropped, review>>
  \/ WorkerNext /\ UNCHANGED <<webhook, listed, claim, dropped, review>>
  \/ AgentNext /\ UNCHANGED <<webhook, worker, review>>
  \/ ReviewNext /\ UNCHANGED <<webhook, worker, listed, claim, dropped>>
  \/ \E d \in Disputes : Tick(d) /\ UNCHANGED <<webhook, worker, listed, claim, dropped, review>>

Spec == Init /\ [][Next]_vars

-----------------------------------------------------------------------------
(* -dispute names any dispute at all, an alert included; what the books    *)
(* promise, they promise of the disputes that come through the lifecycle   *)
(* the rest of the code expects.                                           *)
Regular(d) ==
  /\ KindOf[d] = "alert" => d \notin Manual
  /\ AccountsOf[d] = Account

Open == OnTheClock \cup {"represented"}

HeldFor(d) ==
  books[d]["disputes_payable"] =
    IF KindOf[d] = "chargeback" /\ state[d] \in Open THEN AmountOf[d] ELSE 0

(* The money held for a dispute is the disputed amount of a chargeback     *)
(* that is still open, and nothing for anything else: the "strongest       *)
(* check" of services/simulator/src/verify.ts, dispute by dispute.         *)
HeldMoney == \A d \in Disputes : Regular(d) => HeldFor(d)

(* What a dispute has cost its merchant follows from where it ended: a     *)
(* chargeback that is lost or left to expire costs the amount and the fee, *)
(* one that is won costs nothing, and no alert ever pays a fee.            *)
MerchantCharge ==
  \A d \in Disputes : Regular(d) =>
    books[d]["merchant_balance"] =
      IF KindOf[d] = "chargeback" /\ state[d] \in Open THEN -AmountOf[d]
      ELSE IF KindOf[d] = "chargeback" /\ state[d] \in {"lost", "expired"}
      THEN -(AmountOf[d] + ChargebackFee)
      ELSE IF state[d] = "refunded" /\ "refund" \in posted[d] THEN -AmountOf[d]
      ELSE 0

(* What disputes amount to together, and the ones that have refunded from  *)
(* a charge.                                                               *)
AmountSum(S) == MapThenSumSet(LAMBDA d : AmountOf[d], S)

RefundsOf(c) == {d \in Disputes : ChargeOf[d] = c /\ "refund" \in posted[d]}

(* The refund total kept on the charge is the sum of the refunds in the    *)
(* ledger, and never more than was captured.                               *)
RefundsAddUp ==
  \A c \in Charges :
    /\ refunded[c] <= CapturedOf[c]
    /\ refunded[c] = AmountSum(RefundsOf(c))

(* A dispute is before the network, or ruled on by it, exactly when one    *)
(* run of its runs was submitted by a person.                              *)
OneLetter ==
  \A d \in Disputes :
    LET submitted == {i \in DOMAIN runs[d] : runs[d][i].review = "submitted"} IN
      Cardinality(submitted) =
        IF state[d] \in {"represented", "won", "lost"} THEN 1 ELSE 0

(* A dispute waiting for a reviewer has a run the review queue shows.      *)
DraftHasRun ==
  \A d \in Disputes : state[d] = "draft_ready" =>
    /\ runs[d] # <<>>
    /\ runs[d][Len(runs[d])].review = "none"

(* dispute_events tells the story of the dispute: each event starts where  *)
(* the one before it ended, and the last one ends where the dispute is.    *)
(* The agent's claim leaves no event, so a step from 'received' to         *)
(* 'resolving' is understood.                                              *)
Follows(from, to) == from = to \/ (from = "received" /\ to = "resolving")

AuditTrail ==
  \A d \in Disputes :
    LET events == trail[d] IN
    IF events = <<>> THEN state[d] = "absent"
    ELSE /\ events[1] = <<"absent", "received">>
         /\ \A i \in 2..Len(events) : Follows(events[i - 1][2], events[i][1])
         /\ Follows(events[Len(events)][2], state[d])

(* The outbox announces a dispute's arrival once and its end once, the end *)
(* it really had; nothing in between is announced.                         *)
Announced ==
  \A d \in Disputes :
    outbox[d] = IF state[d] = "absent" THEN <<>>
                ELSE IF state[d] \in Terminal THEN <<"received", state[d]>>
                ELSE <<"received">>

(* A ruling the ingest service reported as processed is the one the        *)
(* dispute ended with, whatever was delivered or decided around it.        *)
RulingStands ==
  \A e \in Deliveries :
    e.body \in {"won", "lost"} /\ webhook[e] = "processed" => state[e.dispute] = e.body

(* A claim whose version still stands is the only one on its dispute, the  *)
(* dispute is in 'resolving' under it, and the attempt number it will      *)
(* record under is free: the promise Hold makes before any money is spent. *)
ClaimGuards ==
  \A a \in Agents : claim[a] # Nil /\ version[claim[a].dispute] = claim[a].version =>
    /\ state[claim[a].dispute] = "resolving"
    /\ claim[a].attempt = Len(runs[claim[a].dispute]) + 1
    /\ \A b \in Agents \ {a} : claim[b] # Nil /\ claim[b].dispute = claim[a].dispute =>
         claim[b].version # claim[a].version

(* disputes_resolved_has_timestamp never has to refuse a write.            *)
ResolvedIsTerminal == \A d \in Disputes : resolved[d] <=> state[d] \in Terminal

(* Nothing about a dispute changes once it has ended: not its state, its   *)
(* money, its trail, its runs or what was announced about it.              *)
TerminalFinal ==
  [][\A d \in Disputes : state[d] \in Terminal =>
       UNCHANGED <<state[d], version[d], resolved[d], posted[d], books[d],
                   trail[d], outbox[d], runs[d]>>]_vars

(* A dispute in 'resolving' has an agent working on it, or its claim was   *)
(* dropped by a hold whose answer was lost, a release that failed or a     *)
(* process that died: any other fault, of the record, of a call or of the  *)
(* run that is to be recorded, puts it back.                               *)
ClaimsReturned ==
  \A d \in Disputes : state[d] = "resolving" =>
    \E c \in {claim[a] : a \in Agents} \cup dropped :
      c # Nil /\ c.dispute = d /\ c.version = version[d]

-----------------------------------------------------------------------------
(* The promise of DisputeLifecycle, read off the tables.                   *)
StageOf(s) == IF s \in OnTheClock THEN "open"
              ELSE IF s = "represented" THEN "argued" ELSE s

MoneyOf(refs) ==
  IF "release" \in refs THEN "released"
  ELSE IF "chargeback" \in refs THEN "forfeited"
  ELSE IF "refund" \in refs THEN "returned"
  ELSE IF "hold" \in refs THEN "held"
  ELSE "untouched"

Lifecycle == INSTANCE DisputeLifecycle WITH
  stage <- [d \in Disputes |-> StageOf(state[d])],
  money <- [d \in Disputes |-> MoneyOf(posted[d])]

(* The writers together implement DisputeLifecycle.                        *)
KeepsPromise == Lifecycle!Spec
=============================================================================
