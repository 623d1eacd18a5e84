------------------------- MODULE DisputeSystemProofs -------------------------
(***************************************************************************)
(* Theorems about DisputeSystem, for any number of disputes, charges,      *)
(* deliveries and processes.                                               *)
(***************************************************************************)
EXTENDS DisputeInvariants, SequenceTheorems, FiniteSetTheorems, TLAPS

-----------------------------------------------------------------------------
(* Types.                                                                  *)

(* A transfer says of every account what it nets to.                       *)
LEMMA TransferType ==
  ASSUME NEW from, NEW to, NEW amount \in Int
  PROVE  Transfer(from, to, amount) \in [Account -> Int]
BY DEF Transfer

(* So does every entry, with accounts missing or not.                      *)
LEMMA EntryType ==
  ASSUME NEW d \in Disputes, NEW ref \in Ref
  PROVE  Entry(d, ref) \in [Account -> Int]
<1>1. AmountOf[d] \in Int /\ ChargebackFee \in Int
  BY StoreAssumption, FeeAssumption
<1>2. \A x, y \in [Account -> Int] : Plus(x, y) \in [Account -> Int]
  BY DEF Plus
<1>3. Legs(ref, AmountOf[d]) \in [Account -> Int]
  BY <1>1, <1>2, TransferType DEF Legs, Hold, ReleaseHold, SettleLoss, Refund
<1>. QED
  BY <1>3 DEF Entry, Written

(* Posting an entry keeps the types of the two tables it writes to.        *)
LEMMA PostType ==
  ASSUME StoreTypeOK, NEW d \in Disputes, NEW ref \in Ref, Post(d, ref)
  PROVE  /\ posted' \in [Disputes -> SUBSET Ref]
         /\ books' \in [Disputes -> [Account -> Int]]
<1>1. Plus(books[d], Entry(d, ref)) \in [Account -> Int]
  BY EntryType DEF StoreTypeOK, Plus
<1>. QED
  BY <1>1 DEF StoreTypeOK, Post

(* Moving a dispute to a state the schema knows keeps its types.           *)
LEMMA MoveType ==
  ASSUME StoreTypeOK, NEW d \in Disputes, NEW to \in State, Move(d, to)
  PROVE  state' \in [Disputes -> State] /\ version' \in [Disputes -> Nat]
BY DEF StoreTypeOK, Move

(* So does writing an audit event or an outbox row.                        *)
LEMMA LogType ==
  ASSUME StoreTypeOK, NEW d \in Disputes, NEW from \in State, NEW to \in State
  PROVE  /\ RecordEvent(d, from, to) => trail' \in [Disputes -> Seq(State \X State)]
         /\ Announce(d, to) => outbox' \in [Disputes -> Seq(State)]
<1>1. <<from, to>> \in State \X State
  OBVIOUS
<1>2. Append(trail[d], <<from, to>>) \in Seq(State \X State)
  BY <1>1 DEF StoreTypeOK
<1>3. Append(outbox[d], to) \in Seq(State)
  BY DEF StoreTypeOK
<1>. QED
  BY <1>2, <1>3 DEF StoreTypeOK, RecordEvent, Announce

(* A review marks one run and keeps the others, and their number.          *)
LEMMA ReviewedRuns ==
  ASSUME NEW rs \in Seq(Run), NEW i \in 1..Len(rs), NEW decision \in Decision
  PROVE  /\ Marked(rs, i, decision) \in Seq(Run)
         /\ Len(Marked(rs, i, decision)) = Len(rs)
<1>1. [rs[i] EXCEPT !.review = decision] \in Run
  <2>1. rs[i] \in Run
    BY ElementOfSeq
  <2>. QED
    BY <2>1 DEF Run, Decision, Review
<1>. QED
  BY <1>1, ExceptSeq DEF Marked

(* The initial state is typed.                                             *)
LEMMA TypeInit == Init => TypeOK
<1>. SUFFICES ASSUME Init PROVE TypeOK
  OBVIOUS
<1>1. StoreTypeOK
  BY DEF Init, StoreInit, StoreTypeOK, State, Clock, Nothing
<1>. QED
  BY <1>1 DEF Init, IngestInit, WorkerInit, AgentInit, ReviewInit, TypeOK,
     IngestTypeOK, WorkerTypeOK, AgentTypeOK, ReviewTypeOK

(* The ingest service keeps every type.                                    *)
LEMMA TypeIngest ==
  ASSUME TypeOK, IngestNext, UNCHANGED <<worker, listed, claim, dropped, review>>
  PROVE  TypeOK'
<1>. USE DEF TypeOK, IngestTypeOK, WorkerTypeOK, AgentTypeOK, ReviewTypeOK
<1>1. ASSUME NEW e \in Deliveries, NEW status \in {"processed", "failed"},
             Mark(e, status), StoreTypeOK'
      PROVE  TypeOK'
  BY <1>1 DEF Mark
<1>2. UNCHANGED storeVars => StoreTypeOK'
  BY DEF StoreTypeOK, storeVars
<1>3. ASSUME NEW e \in Deliveries, RecordUnlinkable(e) PROVE TypeOK'
  BY <1>1, <1>2, <1>3 DEF RecordUnlinkable
<1>4. ASSUME NEW e \in Deliveries, RecordKnownDispute(e) PROVE TypeOK'
  BY <1>1, <1>2, <1>4 DEF RecordKnownDispute
<1>5. ASSUME NEW e \in Deliveries, RecordPrematureRuling(e) PROVE TypeOK'
  BY <1>1, <1>2, <1>5 DEF RecordPrematureRuling
<1>6. ASSUME NEW e \in Deliveries, RecordDispute(e) PROVE TypeOK'
  <2>. DEFINE d == e.dispute
  <2>1. d \in Disputes
    BY DeliveriesAssumption
  <2>2. state' \in [Disputes -> State]
    BY <1>6, <2>1 DEF RecordDispute, StoreTypeOK, State
  <2>3. /\ posted' \in [Disputes -> SUBSET Ref]
        /\ books' \in [Disputes -> [Account -> Int]]
    BY <1>6, <2>1, PostType DEF RecordDispute, HoldFunds, PostNothing, StoreTypeOK, Ref
  <2>4. /\ trail' \in [Disputes -> Seq(State \X State)]
        /\ outbox' \in [Disputes -> Seq(State)]
    BY <1>6, <2>1, LogType DEF RecordDispute, State
  <2>5. StoreTypeOK'
    BY <1>6, <2>2, <2>3, <2>4 DEF RecordDispute, StoreTypeOK
  <2>. QED
    BY <1>1, <1>6, <2>5 DEF RecordDispute
<1>7. ASSUME NEW e \in Deliveries, RecordRuling(e) PROVE TypeOK'
  <2>. DEFINE d == e.dispute
              ref == IF e.body = "lost" THEN "chargeback" ELSE "release"
  <2>1. d \in Disputes /\ e.body \in {"won", "lost"} /\ ref \in Ref
    BY <1>7, DeliveriesAssumption DEF RecordRuling, Ref
  <2>2. state' \in [Disputes -> State] /\ version' \in [Disputes -> Nat]
    BY <1>7, <2>1, MoveType DEF RecordRuling, State
  <2>3. /\ posted' \in [Disputes -> SUBSET Ref]
        /\ books' \in [Disputes -> [Account -> Int]]
    BY <1>7, <2>1, PostType DEF RecordRuling
  <2>4. /\ trail' \in [Disputes -> Seq(State \X State)]
        /\ outbox' \in [Disputes -> Seq(State)]
    BY <1>7, <2>1, LogType DEF RecordRuling, State
  <2>5. resolved' \in [Disputes -> BOOLEAN]
    BY <1>7, <2>1 DEF RecordRuling, Resolve, StoreTypeOK
  <2>6. StoreTypeOK'
    BY <1>7, <2>2, <2>3, <2>4, <2>5 DEF RecordRuling, StoreTypeOK
  <2>. QED
    BY <1>1, <1>7, <2>6 DEF RecordRuling
<1>. QED
  BY <1>3, <1>4, <1>5, <1>6, <1>7 DEF IngestNext

(* So do the workers; that the remaining amount of a charge is a number    *)
(* rests on the foreign key.                                               *)
LEMMA TypeWorker ==
  ASSUME TypeOK, Linked, WorkerNext, UNCHANGED <<webhook, listed, claim, dropped, review>>
  PROVE  TypeOK'
<1>. USE DEF TypeOK, IngestTypeOK, WorkerTypeOK, AgentTypeOK, ReviewTypeOK
<1>1. UNCHANGED storeVars => StoreTypeOK'
  BY DEF StoreTypeOK, storeVars
<1>2. ASSUME NEW w \in Workers, NEW d \in Disputes, WorkerLoad(w, d) PROVE TypeOK'
  <2>. DEFINE left == CapturedOf[ChargeOf[d]] - refunded[ChargeOf[d]]
              s == [dispute |-> d, state |-> state[d], resolved |-> resolved[d],
                    version |-> version[d], remaining |-> left,
                    action |-> "undecided"]
  <2>1. ChargeOf[d] \in Charges
    BY <1>2 DEF Linked, WorkerLoad, OnTheClock
  <2>2. left \in Int
    BY <2>1, StoreAssumption DEF StoreTypeOK
  <2>3. s \in Snapshot
    BY <2>2 DEF Snapshot, StoreTypeOK
  <2>. QED
    BY <1>1, <1>2, <2>3 DEF WorkerLoad
<1>3. ASSUME NEW w \in Workers, WorkerDecide(w) PROVE TypeOK'
  <2>. DEFINE s == worker[w]
              action == Decide(s, clock[s.dispute] = "past")
  <2>1. s \in Snapshot
    BY <1>3 DEF WorkerDecide
  <2>2. CASE action \in {"skip", "escalate"}
    BY <1>1, <1>3, <2>2 DEF WorkerDecide
  <2>3. CASE action \notin {"skip", "escalate"}
    <3>1. action \in {"expire", "close", "refund"}
      BY <2>3 DEF Decide
    <3>2. [s EXCEPT !.action = action] \in Snapshot
      BY <2>1, <3>1 DEF Snapshot
    <3>. QED
      BY <1>1, <1>3, <2>3, <3>2 DEF WorkerDecide
  <2>. QED
    BY <2>2, <2>3
<1>4. ASSUME NEW w \in Workers, WorkerApply(w) PROVE TypeOK'
  <2>. DEFINE s == worker[w]
              d == s.dispute
              to == ToState(s.action)
  <2>1. s \in Snapshot /\ d \in Disputes /\ s.state \in State /\ to \in State
    BY <1>4 DEF WorkerApply, Snapshot, ToState, State
  <2>2. state' \in [Disputes -> State] /\ version' \in [Disputes -> Nat]
    BY <1>4, <2>1, MoveType DEF WorkerApply
  <2>3. /\ posted' \in [Disputes -> SUBSET Ref]
        /\ books' \in [Disputes -> [Account -> Int]]
        /\ refunded' \in [Charges -> Nat]
    <3>1. CASE s.action = "refund"
      <4>1. Post(d, "refund") /\ AddRefund(d)
        BY <1>4, <3>1 DEF WorkerApply, ApplyMoney
      <4>2. refunded' \in [Charges -> Nat]
        <5>1. AmountOf[d] \in Nat /\ refunded \in [Charges -> Nat]
          BY <2>1, StoreAssumption DEF StoreTypeOK
        <5>2. refunded' = [refunded EXCEPT ![ChargeOf[d]] = @ + AmountOf[d]]
          BY <4>1 DEF AddRefund
        <5>3. ASSUME NEW c \in Charges PROVE refunded'[c] \in Nat
          BY <5>1, <5>2, <5>3
        <5>. QED
          BY <5>1, <5>2, <5>3
      <4>. QED
        BY <2>1, <4>1, <4>2, PostType DEF Ref
    <3>2. CASE s.action # "refund"
      BY <1>4, <2>1, <3>2, PostType DEF WorkerApply, ApplyMoney, PostNothing, StoreTypeOK, Ref
    <3>. QED
      BY <3>1, <3>2
  <2>4. /\ trail' \in [Disputes -> Seq(State \X State)]
        /\ outbox' \in [Disputes -> Seq(State)]
    BY <1>4, <2>1, LogType DEF WorkerApply
  <2>5. resolved' \in [Disputes -> BOOLEAN]
    BY <1>4, <2>1 DEF WorkerApply, Resolve, StoreTypeOK
  <2>6. StoreTypeOK'
    BY <1>4, <2>2, <2>3, <2>4, <2>5 DEF WorkerApply, StoreTypeOK
  <2>. QED
    BY <1>4, <2>6 DEF WorkerApply
<1>5. ASSUME NEW w \in Workers, WorkerGiveUp(w) PROVE TypeOK'
  BY <1>1, <1>5 DEF WorkerGiveUp
<1>. QED
  BY <1>2, <1>3, <1>4, <1>5 DEF WorkerNext

(* So do the agents.                                                       *)
LEMMA TypeAgent ==
  ASSUME TypeOK, AgentNext, UNCHANGED <<webhook, worker, review>>
  PROVE  TypeOK'
<1>. USE DEF TypeOK, IngestTypeOK, WorkerTypeOK, AgentTypeOK, ReviewTypeOK
<1>1. UNCHANGED storeVars => StoreTypeOK'
  BY DEF StoreTypeOK, storeVars
<1>2. ASSUME NEW a \in Agents, AgentList(a) PROVE TypeOK'
  BY <1>1, <1>2 DEF AgentList, Candidates
<1>3. ASSUME NEW a \in Agents, NEW d \in Disputes, AgentHold(a, d) \/ AgentHoldUnanswered(a, d)
      PROVE  TypeOK'
  <2>1. runs[d] \in Seq(Run) /\ version[d] \in Nat
    BY DEF StoreTypeOK
  <2>2. Held(d) \in Claim
    BY <2>1, LenProperties DEF Held, Claim
  <2>3. TakeHold(a, d)
    BY <1>3 DEF AgentHold, AgentHoldUnanswered
  <2>4. state' \in [Disputes -> State] /\ version' \in [Disputes -> Nat]
    BY <2>3, MoveType DEF TakeHold, State
  <2>5. StoreTypeOK'
    BY <2>3, <2>4 DEF TakeHold, StoreTypeOK
  <2>. QED
    BY <1>3, <2>2, <2>3, <2>5 DEF AgentHold, AgentHoldUnanswered, TakeHold
<1>4. ASSUME NEW a \in Agents, NEW d \in Disputes, AgentSkip(a, d) PROVE TypeOK'
  BY <1>1, <1>4 DEF AgentSkip
<1>5. ASSUME NEW a \in Agents, NEW outcome \in Outcome, AgentRecord(a, outcome)
      PROVE  TypeOK'
  <2>. DEFINE d == claim[a].dispute
              to == NextState(outcome, claim[a].attempt)
              run == [outcome |-> outcome, review |-> "none"]
  <2>1. d \in Disputes /\ to \in State /\ "resolving" \in State
    BY <1>5 DEF AgentRecord, Claim, NextState, State
  <2>2. state' \in [Disputes -> State] /\ version' \in [Disputes -> Nat]
    BY <1>5, <2>1, MoveType DEF AgentRecord
  <2>3. trail' \in [Disputes -> Seq(State \X State)]
    BY <1>5, <2>1, LogType DEF AgentRecord
  <2>4. runs' \in [Disputes -> Seq(Run)]
    <3>1. run \in Run
      BY DEF Run, Review
    <3>2. Append(runs[d], run) \in Seq(Run)
      BY <2>1, <3>1 DEF StoreTypeOK
    <3>. QED
      BY <1>5, <2>1, <3>2 DEF AgentRecord, InsertRun, StoreTypeOK
  <2>5. StoreTypeOK'
    BY <1>5, <2>2, <2>3, <2>4 DEF AgentRecord, StoreTypeOK
  <2>. QED
    BY <1>5, <2>5 DEF AgentRecord
<1>6. ASSUME NEW a \in Agents, AgentRelease(a) PROVE TypeOK'
  <2>1. claim[a].dispute \in Disputes /\ "received" \in State
    BY <1>6 DEF AgentRelease, Claim, State
  <2>2. state' \in [Disputes -> State] /\ version' \in [Disputes -> Nat]
    BY <1>6, <2>1, MoveType DEF AgentRelease
  <2>3. StoreTypeOK'
    BY <1>6, <2>2 DEF AgentRelease, StoreTypeOK
  <2>. QED
    BY <1>6, <2>3 DEF AgentRelease
<1>7. ASSUME NEW a \in Agents,
             AgentClaimLost(a) \/ AgentReleaseFails(a) \/ AgentCrash(a)
      PROVE  TypeOK'
  BY <1>1, <1>7 DEF AgentClaimLost, AgentReleaseFails, AgentCrash, Leaves
<1>. QED
  BY <1>2, <1>3, <1>4, <1>5, <1>6, <1>7 DEF AgentNext

(* So do the reviewers.                                                    *)
LEMMA TypeReview ==
  ASSUME TypeOK, ReviewOfRun, ReviewNext, UNCHANGED <<webhook, worker, listed, claim, dropped>>
  PROVE  TypeOK'
<1>. USE DEF TypeOK, IngestTypeOK, WorkerTypeOK, AgentTypeOK, ReviewTypeOK
<1>1. UNCHANGED storeVars => StoreTypeOK'
  BY DEF StoreTypeOK, storeVars
<1>2. ASSUME NEW r \in Reviewers, NEW d \in Disputes, NEW decision \in Decision,
             NEW attempt \in DOMAIN runs[d], ReviewBegin(r, d, attempt, decision)
      PROVE  TypeOK'
  <2>1. attempt \in Nat
    BY LenProperties DEF StoreTypeOK
  <2>. QED
    BY <1>1, <1>2, <2>1 DEF ReviewBegin, Decided
<1>3. ASSUME NEW r \in Reviewers, ReviewCommit(r) PROVE TypeOK'
  <2>. DEFINE q == review[r]
              d == q.dispute
              to == IF q.decision = "submitted" THEN "represented" ELSE "received"
              marked == Marked(runs[d], q.attempt, q.decision)
  <2>1. /\ d \in Disputes /\ q.decision \in Decision
        /\ q.attempt \in 1..Len(runs[d])
        /\ to \in State /\ "draft_ready" \in State
    BY <1>3 DEF ReviewCommit, Decided, ReviewOfRun, State
  <2>2. state' \in [Disputes -> State] /\ version' \in [Disputes -> Nat]
    BY <1>3, <2>1, MoveType DEF ReviewCommit
  <2>3. trail' \in [Disputes -> Seq(State \X State)]
    BY <1>3, <2>1, LogType DEF ReviewCommit
  <2>4. runs' \in [Disputes -> Seq(Run)]
    <3>1. marked \in Seq(Run)
      BY <2>1, ReviewedRuns DEF StoreTypeOK
    <3>. QED
      BY <1>3, <2>1, <3>1 DEF ReviewCommit, StoreTypeOK
  <2>5. StoreTypeOK'
    BY <1>3, <2>2, <2>3, <2>4 DEF ReviewCommit, StoreTypeOK
  <2>. QED
    BY <1>3, <2>5 DEF ReviewCommit
<1>4. ASSUME NEW r \in Reviewers, ReviewRollback(r) PROVE TypeOK'
  BY <1>1, <1>4 DEF ReviewRollback
<1>. QED
  BY <1>2, <1>3, <1>4 DEF ReviewNext

(* So does the clock.                                                      *)
LEMMA TypeTick ==
  ASSUME TypeOK, NEW d \in Disputes, Tick(d),
         UNCHANGED <<webhook, worker, listed, claim, dropped, review>>
  PROVE  TypeOK'
<1>1. clock' \in [Disputes -> Clock]
  BY DEF Tick, TypeOK, StoreTypeOK, Clock
<1>. QED
  BY <1>1 DEF TypeOK, StoreTypeOK, Tick, IngestTypeOK, WorkerTypeOK, AgentTypeOK,
     ReviewTypeOK

-----------------------------------------------------------------------------
(* What a step does to one dispute.  Every argument below about states,    *)
(* money and announcements starts from this list, so the actions are       *)
(* opened only once, in StepEffect.                                        *)

Untouched(d) ==
  UNCHANGED <<state[d], version[d], resolved[d], posted[d], books[d],
              trail[d], outbox[d], runs[d]>>

Bumped(d) == version'[d] = version[d] + 1

NoMoney(d) == UNCHANGED <<posted[d], books[d]>>

Paid(d, ref) ==
  /\ ref \notin posted[d]
  /\ posted'[d] = posted[d] \cup {ref}
  /\ books'[d] = Plus(books[d], Entry(d, ref))

Logged(d) == trail'[d] = Append(trail[d], <<state[d], state'[d]>>)

Filed(d) ==
  /\ state[d] = "absent" /\ state'[d] = "received" /\ ChargeOf[d] \in Charges
  /\ UNCHANGED <<version[d], resolved[d], runs[d]>>
  /\ IF KindOf[d] = "chargeback" THEN Paid(d, "hold") ELSE NoMoney(d)
  /\ Logged(d)
  /\ outbox'[d] = Append(outbox[d], "received")

Claimed(d) ==
  /\ state[d] = "received" /\ state'[d] = "resolving"
  /\ KindOf[d] = "chargeback" \/ d \in Manual
  /\ UNCHANGED <<trail[d], runs[d]>>

Released(d) ==
  /\ state[d] = "resolving" /\ state'[d] = "received"
  /\ UNCHANGED <<trail[d], runs[d]>>

Recorded(d) ==
  /\ state[d] = "resolving" /\ state'[d] \in {"received", "draft_ready"}
  /\ \E outcome \in Outcome :
       runs'[d] = Append(runs[d], [outcome |-> outcome, review |-> "none"])
  /\ Logged(d)

Reviewed(d) ==
  /\ state[d] = "draft_ready" /\ state'[d] \in {"received", "represented"}
  /\ \E i \in 1..Len(runs[d]) :
       /\ runs[d][i].review = "none"
       /\ runs'[d] = Marked(runs[d], i, IF state'[d] = "represented" THEN "submitted"
                                        ELSE "discarded")
  /\ Logged(d)

Handled(d) ==
  /\ Claimed(d) \/ Released(d) \/ Recorded(d) \/ Reviewed(d)
  /\ Bumped(d)
  /\ UNCHANGED <<resolved[d], outbox[d]>>
  /\ NoMoney(d)

Ended(d) ==
  /\ Bumped(d)
  /\ resolved'[d] = TRUE
  /\ outbox'[d] = Append(outbox[d], state'[d])
  /\ UNCHANGED runs[d]
  /\ Logged(d)

Answered(d) ==
  /\ state[d] \in OnTheClock /\ state'[d] = "refunded" /\ KindOf[d] = "alert"
  /\ Ended(d)
  /\ NoMoney(d) \/ Paid(d, "refund")

Expired(d) ==
  /\ state[d] \in OnTheClock /\ state'[d] = "expired"
  /\ Ended(d)
  /\ IF KindOf[d] = "chargeback" THEN Paid(d, "chargeback") ELSE NoMoney(d)

Ruled(d) ==
  /\ state[d] = "represented"
  /\ Ended(d)
  /\ \/ state'[d] = "won" /\ Paid(d, "release")
     \/ state'[d] = "lost" /\ Paid(d, "chargeback")

Effect(d) ==
  Untouched(d) \/ Filed(d) \/ Handled(d) \/ Answered(d) \/ Expired(d) \/ Ruled(d)

(* A step that leaves the tables alone touches no dispute.                 *)
LEMMA QuietStep ==
  ASSUME UNCHANGED storeVars, NEW x \in Disputes
  PROVE  Effect(x)
BY DEF storeVars, Effect, Untouched

(* Of the ingest service, only an arrival and a ruling on an argued        *)
(* dispute have an effect.                                                 *)
LEMMA IngestEffect ==
  ASSUME StoreTypeOK, IngestNext, NEW x \in Disputes
  PROVE  Effect(x)
<1>1. ASSUME NEW e \in Deliveries,
             RecordUnlinkable(e) \/ RecordKnownDispute(e) \/ RecordPrematureRuling(e)
      PROVE  Effect(x)
  BY <1>1, QuietStep DEF RecordUnlinkable, RecordKnownDispute, RecordPrematureRuling
<1>2. ASSUME NEW e \in Deliveries, RecordDispute(e) PROVE Effect(x)
  <2>1. e.dispute \in Disputes
    BY DeliveriesAssumption
  <2>2. CASE x = e.dispute
    <3>1. /\ state[x] = "absent" /\ state'[x] = "received"
          /\ UNCHANGED <<version[x], resolved[x], runs[x]>>
          /\ outbox'[x] = Append(outbox[x], "received")
          /\ ChargeOf[x] \in Charges /\ Logged(x)
      BY <1>2, <2>1, <2>2 DEF RecordDispute, Announce, RecordEvent, Logged, StoreTypeOK
    <3>2. IF KindOf[x] = "chargeback" THEN Paid(x, "hold") ELSE NoMoney(x)
      BY <1>2, <2>1, <2>2 DEF RecordDispute, HoldFunds, Postable, Post, PostNothing, Paid,
         NoMoney, StoreTypeOK
    <3>. QED
      BY <3>1, <3>2 DEF Effect, Filed
  <2>3. CASE x # e.dispute
    <3>1. UNCHANGED <<posted[x], books[x]>>
      BY <1>2, <2>1, <2>3 DEF RecordDispute, HoldFunds, Post, PostNothing, StoreTypeOK
    <3>2. UNCHANGED <<state[x], version[x], resolved[x], trail[x], outbox[x], runs[x]>>
      BY <1>2, <2>1, <2>3 DEF RecordDispute, RecordEvent, Announce, StoreTypeOK
    <3>. QED
      BY <3>1, <3>2 DEF Effect, Untouched
  <2>. QED
    BY <2>2, <2>3
<1>3. ASSUME NEW e \in Deliveries, RecordRuling(e) PROVE Effect(x)
  <2>1. e.dispute \in Disputes /\ e.body \in {"won", "lost"}
    BY <1>3, DeliveriesAssumption DEF RecordRuling
  <2>2. CASE x = e.dispute
    <3>1. /\ state[x] = "represented" /\ state'[x] = e.body
          /\ Ended(x)
      BY <1>3, <2>1, <2>2 DEF RecordRuling, AwaitingRuling, Move, Resolve, RecordEvent,
         Announce, Ended, Bumped, Logged, StoreTypeOK
    <3>2. Paid(x, IF e.body = "lost" THEN "chargeback" ELSE "release")
      BY <1>3, <2>1, <2>2 DEF RecordRuling, Postable, Post, Paid, StoreTypeOK
    <3>. QED
      BY <2>1, <3>1, <3>2 DEF Effect, Ruled
  <2>3. CASE x # e.dispute
    BY <1>3, <2>1, <2>3 DEF RecordRuling, Move, Resolve, Post, RecordEvent, Announce,
       Effect, Untouched, StoreTypeOK
  <2>. QED
    BY <2>2, <2>3
<1>. QED
  BY <1>1, <1>2, <1>3 DEF IngestNext

(* A worker that applies its decision applies it to the state it decided   *)
(* on: the version says so.                                                *)
LEMMA WorkerEffect ==
  ASSUME StoreTypeOK, WorkerTypeOK, SnapshotStanding, WorkerNext, NEW x \in Disputes
  PROVE  Effect(x)
<1>1. ASSUME NEW w \in Workers,
             \/ \E d \in Disputes : WorkerLoad(w, d)
             \/ WorkerDecide(w)
             \/ WorkerGiveUp(w)
      PROVE  Effect(x)
  BY <1>1, QuietStep DEF WorkerLoad, WorkerDecide, WorkerGiveUp
<1>2. ASSUME NEW w \in Workers, WorkerApply(w) PROVE Effect(x)
  <2>. DEFINE s == worker[w]
              d == s.dispute
  <2>1. /\ d \in Disputes /\ s.action \in {"expire", "close", "refund"}
        /\ state[d] \in OnTheClock /\ state[d] = s.state
        /\ s.action \in {"refund", "close"} => KindOf[d] = "alert"
    BY <1>2 DEF WorkerApply, WorkerTypeOK, Snapshot, SnapshotStanding, Fresh
  <2>2. CASE x = d
    <3>1. state'[x] = ToState(s.action) /\ Ended(x)
      BY <1>2, <2>1, <2>2 DEF WorkerApply, Move, Resolve, RecordEvent, Announce, Ended,
         Bumped, Logged, StoreTypeOK
    <3>2. CASE s.action = "refund"
      <4>1. Paid(x, "refund")
        BY <1>2, <2>1, <2>2, <3>2 DEF WorkerApply, ApplyMoney, Postable, Post, Paid, StoreTypeOK
      <4>. QED
        BY <2>1, <2>2, <3>1, <3>2, <4>1 DEF Effect, Answered, ToState
    <3>3. CASE s.action = "close"
      <4>1. NoMoney(x)
        BY <1>2, <3>3 DEF WorkerApply, ApplyMoney, PostNothing, NoMoney
      <4>. QED
        BY <2>1, <2>2, <3>1, <3>3, <4>1 DEF Effect, Answered, ToState
    <3>4. CASE s.action = "expire"
      <4>1. IF KindOf[x] = "chargeback" THEN Paid(x, "chargeback") ELSE NoMoney(x)
        BY <1>2, <2>1, <2>2, <3>4 DEF WorkerApply, ApplyMoney, Postable, Post, PostNothing,
           Paid, NoMoney, StoreTypeOK
      <4>. QED
        BY <2>1, <2>2, <3>1, <3>4, <4>1 DEF Effect, Expired, ToState
    <3>. QED
      BY <2>1, <3>2, <3>3, <3>4
  <2>3. CASE x # d
    <3>1. UNCHANGED <<posted[x], books[x]>>
      BY <1>2, <2>1, <2>3 DEF WorkerApply, ApplyMoney, Post, PostNothing, StoreTypeOK
    <3>2. UNCHANGED <<state[x], version[x], resolved[x], trail[x], outbox[x], runs[x]>>
      BY <1>2, <2>1, <2>3 DEF WorkerApply, Move, Resolve, RecordEvent, Announce, StoreTypeOK
    <3>. QED
      BY <3>1, <3>2 DEF Effect, Untouched
  <2>. QED
    BY <2>2, <2>3
<1>. QED
  BY <1>1, <1>2 DEF WorkerNext

(* Nor does an agent with a standing claim find another state than the one *)
(* it left.                                                                *)
LEMMA AgentEffect ==
  ASSUME StoreTypeOK, AgentTypeOK, ClaimStanding, ListedChargebacks, AgentNext,
         NEW x \in Disputes
  PROVE  Effect(x)
<1>1. ASSUME NEW a \in Agents,
             \/ AgentList(a)
             \/ \E d \in Disputes : AgentSkip(a, d)
             \/ AgentClaimLost(a)
             \/ AgentReleaseFails(a)
             \/ AgentCrash(a)
      PROVE  Effect(x)
  BY <1>1, QuietStep DEF AgentList, AgentSkip, AgentClaimLost, AgentReleaseFails, AgentCrash,
     Leaves
<1>2. ASSUME NEW a \in Agents, NEW d \in Disputes, TakeHold(a, d) PROVE Effect(x)
  <2>1. KindOf[d] = "chargeback" \/ d \in Manual
    BY <1>2 DEF TakeHold, ListedChargebacks
  <2>. QED
    BY <1>2, <2>1 DEF TakeHold, Move, Effect, Handled, Claimed, Untouched, Bumped, NoMoney,
       StoreTypeOK
<1>3. ASSUME NEW a \in Agents, NEW outcome \in Outcome, AgentRecord(a, outcome)
      PROVE  Effect(x)
  <2>. DEFINE d == claim[a].dispute
              to == NextState(outcome, claim[a].attempt)
  <2>1. d \in Disputes /\ state[d] = "resolving" /\ to \in {"received", "draft_ready"}
    BY <1>3 DEF AgentRecord, ClaimStands, ClaimStanding, AgentTypeOK, Claim, NextState
  <2>2. state'[d] = to /\ Bumped(d)
    BY <1>3, <2>1 DEF AgentRecord, Move, Bumped, StoreTypeOK
  <2>3. UNCHANGED <<resolved, posted, books, outbox>>
    BY <1>3 DEF AgentRecord
  <2>4. CASE x = d
    <3>1. runs'[x] = Append(runs[x], [outcome |-> outcome, review |-> "none"])
      BY <1>3, <2>1, <2>4 DEF AgentRecord, InsertRun, StoreTypeOK
    <3>2. Logged(x)
      BY <1>3, <2>1, <2>2, <2>4 DEF AgentRecord, RecordEvent, Logged, StoreTypeOK
    <3>3. Recorded(x)
      BY <2>1, <2>2, <2>4, <3>1, <3>2 DEF Recorded
    <3>. QED
      BY <2>2, <2>3, <2>4, <3>3 DEF Effect, Handled, NoMoney
  <2>5. CASE x # d
    <3>1. UNCHANGED <<state[x], version[x], trail[x], runs[x]>>
      BY <1>3, <2>1, <2>5 DEF AgentRecord, Move, RecordEvent, InsertRun, StoreTypeOK
    <3>. QED
      BY <2>3, <3>1 DEF Effect, Untouched
  <2>. QED
    BY <2>4, <2>5
<1>4. ASSUME NEW a \in Agents, AgentRelease(a) PROVE Effect(x)
  <2>. DEFINE d == claim[a].dispute
  <2>1. d \in Disputes /\ state[d] = "resolving"
    BY <1>4 DEF AgentRelease, ClaimStanding, AgentTypeOK, Claim
  <2>. QED
    BY <1>4, <2>1 DEF AgentRelease, Move, Effect, Handled, Released, Untouched, Bumped,
       NoMoney, StoreTypeOK
<1>. QED
  BY <1>1, <1>2, <1>3, <1>4 DEF AgentNext, AgentHold, AgentHoldUnanswered

(* A review that commits moves a draft on, to the network or back.         *)
LEMMA ReviewEffect ==
  ASSUME StoreTypeOK, ReviewTypeOK, ReviewOfRun, ReviewNext, NEW x \in Disputes
  PROVE  Effect(x)
<1>1. ASSUME NEW r \in Reviewers,
             \/ \E d \in Disputes, decision \in Decision :
                  \E attempt \in DOMAIN runs[d] : ReviewBegin(r, d, attempt, decision)
             \/ ReviewRollback(r)
      PROVE  Effect(x)
  BY <1>1, QuietStep DEF ReviewBegin, ReviewRollback
<1>2. ASSUME NEW r \in Reviewers, ReviewCommit(r) PROVE Effect(x)
  <2>. DEFINE d == review[r].dispute
              i == review[r].attempt
              to == IF review[r].decision = "submitted" THEN "represented" ELSE "received"
  <2>1. /\ d \in Disputes /\ state[d] = "draft_ready"
        /\ review[r].decision = IF to = "represented" THEN "submitted" ELSE "discarded"
        /\ i \in 1..Len(runs[d]) /\ runs[d][i].review = "none"
    BY <1>2 DEF ReviewCommit, Reviewable, ReviewTypeOK, Decided, Decision, ReviewOfRun
  <2>2. state'[d] = to /\ Bumped(d)
    BY <1>2, <2>1 DEF ReviewCommit, Move, Bumped, StoreTypeOK
  <2>3. UNCHANGED <<resolved, posted, books, outbox>>
    BY <1>2 DEF ReviewCommit
  <2>4. CASE x = d
    <3>1. runs'[x] = Marked(runs[x], i, review[r].decision)
      BY <1>2, <2>1, <2>4 DEF ReviewCommit, StoreTypeOK
    <3>2. Logged(x)
      BY <1>2, <2>1, <2>2, <2>4 DEF ReviewCommit, RecordEvent, Logged, StoreTypeOK
    <3>3. Reviewed(x)
      BY <2>1, <2>2, <2>4, <3>1, <3>2 DEF Reviewed
    <3>. QED
      BY <2>2, <2>3, <2>4, <3>3 DEF Effect, Handled, NoMoney
  <2>5. CASE x # d
    <3>1. UNCHANGED <<state[x], version[x], trail[x], runs[x]>>
      BY <1>2, <2>1, <2>5 DEF ReviewCommit, Move, RecordEvent, StoreTypeOK
    <3>. QED
      BY <2>3, <3>1 DEF Effect, Untouched
  <2>. QED
    BY <2>4, <2>5
<1>. QED
  BY <1>1, <1>2 DEF ReviewNext

(* Every step has one of the listed effects on every dispute.              *)
LEMMA StepEffect ==
  ASSUME TypeInv, ClaimStanding, SnapshotStanding, ListedChargebacks, [Next]_vars,
         NEW x \in Disputes
  PROVE  Effect(x)
<1>1. CASE \E d \in Disputes : Tick(d)
  BY <1>1 DEF Tick, Effect, Untouched
<1>2. CASE UNCHANGED vars
  BY <1>2 DEF vars, Effect, Untouched
<1>. QED
  BY <1>1, <1>2, IngestEffect, WorkerEffect, AgentEffect, ReviewEffect DEF Next, TypeOK,
     TypeInv

-----------------------------------------------------------------------------
(* The invariant, part by part.                                            *)

(* A version that did not move means that nothing was written to a dispute *)
(* on file; and versions only grow.                                        *)
LEMMA Versions ==
  ASSUME TypeOK, NEW x \in Disputes, Effect(x)
  PROVE  /\ version[x] \in Nat
         /\ version'[x] \in {version[x], version[x] + 1}
         /\ version'[x] = version[x] /\ state[x] # "absent" => UNCHANGED <<state[x], runs[x]>>
BY DEF TypeOK, StoreTypeOK, Effect, Untouched, Filed, Handled, Answered, Expired, Ruled,
   Ended, Bumped

(* The list of runs of a dispute never shrinks.                            *)
LEMMA RunsGrow ==
  ASSUME TypeOK, NEW x \in Disputes, Effect(x)
  PROVE  /\ Len(runs[x]) \in Nat
         /\ Len(runs'[x]) \in {Len(runs[x]), Len(runs[x]) + 1}
<1>1. runs[x] \in Seq(Run) /\ Len(runs[x]) \in Nat
  BY LenProperties DEF TypeOK, StoreTypeOK
<1>2. CASE UNCHANGED runs[x]
  BY <1>1, <1>2
<1>3. CASE Recorded(x)
  <2>. PICK outcome \in Outcome :
         runs'[x] = Append(runs[x], [outcome |-> outcome, review |-> "none"])
    BY <1>3 DEF Recorded
  <2>. QED
    BY <1>1
<1>4. CASE Reviewed(x)
  <2>1. PICK i \in 1..Len(runs[x]), decision \in Decision :
          runs'[x] = Marked(runs[x], i, decision)
    BY <1>4 DEF Reviewed, Decision
  <2>. QED
    BY <1>1, <2>1, ReviewedRuns
<1>. QED
  BY <1>2, <1>3, <1>4 DEF Effect, Untouched, Filed, Handled, Claimed, Released, Answered,
     Expired, Ruled, Ended

(* The foreign key, the reviewer's run and the types are kept together.    *)
LEMMA TypeStep ==
  ASSUME TypeInv, ClaimStanding, SnapshotStanding, ListedChargebacks, [Next]_vars
  PROVE  TypeInv'
<1>1. TypeOK'
  <2>1. CASE UNCHANGED vars
    BY <2>1 DEF TypeInv, TypeOK, StoreTypeOK, IngestTypeOK, WorkerTypeOK, AgentTypeOK,
       ReviewTypeOK, vars
  <2>. QED
    BY <2>1, TypeIngest, TypeWorker, TypeAgent, TypeReview, TypeTick DEF TypeInv, Next
<1>2. Linked'
  <2>. SUFFICES ASSUME NEW d \in Disputes, state'[d] # "absent" PROVE ChargeOf[d] \in Charges
    BY DEF Linked
  <2>1. Effect(d)
    BY StepEffect
  <2>. QED
    BY <2>1 DEF TypeInv, Linked, Effect, Untouched, Filed, Handled, Claimed, Released,
       Recorded, Reviewed, Answered, Expired, Ruled, OnTheClock
<1>3. ReviewOfRun'
  <2>. SUFFICES ASSUME NEW r \in Reviewers, review'[r] # Nil
                PROVE  review'[r].attempt \in 1..Len(runs'[review'[r].dispute])
    BY DEF ReviewOfRun
  <2>1. review'[r].dispute \in Disputes
    BY <1>1 DEF TypeOK, ReviewTypeOK, Decided
  <2>2. CASE review'[r] = review[r]
    BY <2>1, <2>2, StepEffect, RunsGrow DEF TypeInv, ReviewOfRun
  <2>3. CASE review'[r] # review[r]
    <3>1. PICK d \in Disputes, decision \in Decision :
            \E attempt \in DOMAIN runs[d] : ReviewBegin(r, d, attempt, decision)
      <4>1. ReviewNext
        BY <2>3 DEF Next, vars
      <4>2. PICK q \in Reviewers :
              \/ \E d \in Disputes, decision \in Decision :
                   \E attempt \in DOMAIN runs[d] : ReviewBegin(q, d, attempt, decision)
              \/ ReviewCommit(q)
              \/ ReviewRollback(q)
        BY <4>1 DEF ReviewNext
      <4>3. q = r
        BY <2>3, <4>2 DEF TypeInv, TypeOK, ReviewTypeOK, ReviewBegin, ReviewCommit,
           ReviewRollback
      <4>. QED
        BY <4>2, <4>3 DEF TypeInv, TypeOK, ReviewTypeOK, ReviewCommit, ReviewRollback
    <3>2. PICK attempt \in DOMAIN runs[d] : ReviewBegin(r, d, attempt, decision)
      BY <3>1
    <3>3. review'[r].attempt = attempt /\ review'[r].dispute = d /\ runs' = runs
      BY <3>2 DEF TypeInv, TypeOK, ReviewTypeOK, ReviewBegin, storeVars
    <3>4. DOMAIN runs[d] = 1..Len(runs[d])
      BY LenProperties DEF TypeInv, TypeOK, StoreTypeOK
    <3>. QED
      BY <3>2, <3>3, <3>4
  <2>. QED
    BY <2>2, <2>3
<1>. QED
  BY <1>1, <1>2, <1>3 DEF TypeInv

(* The only way to come by a claim is to hold a dispute.                   *)
LEMMA NewClaim ==
  ASSUME AgentTypeOK, [Next]_vars, NEW a \in Agents, claim'[a] # Nil, claim'[a] # claim[a]
  PROVE  \E d \in Disputes : AgentHold(a, d)
<1>1. AgentNext
  BY DEF Next, vars
<1>2. PICK b \in Agents :
        \/ AgentList(b)
        \/ \E d \in Disputes : AgentHold(b, d) \/ AgentHoldUnanswered(b, d) \/ AgentSkip(b, d)
        \/ \E outcome \in Outcome : AgentRecord(b, outcome)
        \/ AgentRelease(b)
        \/ AgentClaimLost(b)
        \/ AgentReleaseFails(b)
        \/ AgentCrash(b)
  BY <1>1 DEF AgentNext
<1>3. \E d \in Disputes : AgentHold(b, d)
  BY <1>2 DEF AgentTypeOK, AgentList, AgentHoldUnanswered, AgentSkip, AgentRecord, AgentRelease,
     AgentClaimLost, AgentReleaseFails, AgentCrash, Leaves
<1>4. a = b
  BY <1>3 DEF AgentTypeOK, AgentHold
<1>. QED
  BY <1>3, <1>4

(* What a hold claims, and that the other agents keep what they have.      *)
LEMMA HoldClaims ==
  ASSUME TypeOK, NEW a \in Agents, NEW d \in Disputes, AgentHold(a, d)
  PROVE  /\ claim'[a].dispute = d
         /\ claim'[a].version = version'[d] /\ version'[d] = version[d] + 1
         /\ claim'[a].attempt = Len(runs'[d]) + 1
         /\ state'[d] = "resolving"
         /\ \A b \in Agents \ {a} : claim'[b] = claim[b]
BY DEF TypeOK, StoreTypeOK, AgentTypeOK, AgentHold, TakeHold, Held, Move

(* A step of any actor keeps ClaimStanding: it either bumps the version   *)
(* of the dispute it writes or leaves its claim's dispute alone.           *)
LEMMA ClaimStandingStep ==
  ASSUME TypeInv, ClaimStanding, SnapshotStanding, ListedChargebacks, [Next]_vars
  PROVE  ClaimStanding'
<1>. SUFFICES ASSUME NEW a \in Agents, claim'[a] # Nil
              PROVE  LET c == claim'[a] IN
                     /\ c.version <= version'[c.dispute]
                     /\ c.version = version'[c.dispute] =>
                          /\ state'[c.dispute] = "resolving"
                          /\ c.attempt = Len(runs'[c.dispute]) + 1
  BY DEF ClaimStanding
<1>1. CASE claim'[a] = claim[a]
  <2>. DEFINE c == claim[a]
  <2>1. c.version \in Nat /\ c.dispute \in Disputes
    BY <1>1 DEF TypeInv, TypeOK, AgentTypeOK, Claim
  <2>2. PICK d \in Disputes : d = c.dispute
    BY <2>1
  <2>3. /\ version[d] \in Nat
        /\ version'[d] \in {version[d], version[d] + 1}
        /\ version'[d] = version[d] /\ state[d] # "absent" => UNCHANGED <<state[d], runs[d]>>
    BY StepEffect, Versions DEF TypeInv
  <2>4. /\ c.version <= version[d]
        /\ c.version = version[d] => state[d] = "resolving" /\ c.attempt = Len(runs[d]) + 1
    BY <1>1, <2>2 DEF ClaimStanding
  <2>. QED
    BY <1>1, <2>1, <2>2, <2>3, <2>4
<1>2. CASE claim'[a] # claim[a]
  <2>1. PICK d \in Disputes : AgentHold(a, d)
    BY <1>2, NewClaim DEF TypeInv, TypeOK
  <2>2. version'[d] \in Nat
    BY <2>1, HoldClaims DEF TypeInv, TypeOK, StoreTypeOK
  <2>. QED
    BY <2>1, <2>2, HoldClaims DEF TypeInv
<1>. QED
  BY <1>1, <1>2

(* A step keeps ClaimsDiffer: a new claim is taken at a version above      *)
(* every version seen so far.                                              *)
LEMMA ClaimsDifferStep ==
  ASSUME TypeInv, ClaimStanding, ClaimsDiffer, [Next]_vars
  PROVE  ClaimsDiffer'
<1>. SUFFICES ASSUME NEW a \in Agents, NEW b \in Agents, a # b,
                     claim'[a] # Nil, claim'[b] # Nil,
                     claim'[a].dispute = claim'[b].dispute
              PROVE  claim'[a].version # claim'[b].version
  BY DEF ClaimsDiffer
<1>1. CASE claim'[a] = claim[a] /\ claim'[b] = claim[b]
  BY <1>1 DEF ClaimsDiffer
<1>2. ASSUME NEW p \in Agents, NEW q \in Agents, p # q, claim'[p] # Nil, claim'[q] # Nil,
             claim'[p] # claim[p], claim'[p].dispute = claim'[q].dispute
      PROVE  claim'[p].version # claim'[q].version
  <2>1. PICK d \in Disputes : AgentHold(p, d)
    BY <1>2, NewClaim DEF TypeInv, TypeOK
  <2>2. claim'[q] = claim[q]
    BY <1>2, <2>1, HoldClaims DEF TypeInv
  <2>3. claim[q].version <= version[d] /\ claim[q].version \in Nat
    BY <1>2, <2>1, <2>2, HoldClaims DEF TypeInv, TypeOK, AgentTypeOK, Claim, ClaimStanding
  <2>4. version[d] \in Nat /\ claim'[p].version = version[d] + 1
    BY <2>1, HoldClaims DEF TypeInv, TypeOK, StoreTypeOK
  <2>. QED
    BY <2>2, <2>3, <2>4
<1>. QED
  BY <1>1, <1>2

(* A step keeps ListedChargebacks: a list is only ever made of Candidates. *)
LEMMA ListedStep ==
  ASSUME TypeInv, ListedChargebacks, [Next]_vars
  PROVE  ListedChargebacks'
<1>1. CASE UNCHANGED listed
  BY <1>1 DEF ListedChargebacks
<1>2. CASE AgentNext
  <2>1. PICK a \in Agents :
        \/ AgentList(a)
        \/ \E d \in Disputes : AgentHold(a, d) \/ AgentHoldUnanswered(a, d) \/ AgentSkip(a, d)
        \/ \E outcome \in Outcome : AgentRecord(a, outcome)
        \/ AgentRelease(a)
        \/ AgentClaimLost(a)
        \/ AgentReleaseFails(a)
        \/ AgentCrash(a)
    BY <1>2 DEF AgentNext
  <2>2. listed'[a] \subseteq listed[a] \cup Candidates
    BY <2>1 DEF TypeInv, TypeOK, AgentTypeOK, AgentList, AgentHold, AgentHoldUnanswered,
       TakeHold, AgentSkip, AgentRecord, AgentRelease, AgentClaimLost, AgentReleaseFails,
       AgentCrash, Leaves
  <2>3. \A b \in Agents \ {a} : listed'[b] = listed[b]
    BY <2>1 DEF TypeInv, TypeOK, AgentTypeOK, AgentList, AgentHold, AgentHoldUnanswered,
       TakeHold, AgentSkip, AgentRecord, AgentRelease, AgentClaimLost, AgentReleaseFails,
       AgentCrash, Leaves
  <2>. QED
    BY <2>2, <2>3 DEF ListedChargebacks, Candidates
<1>. QED
  BY <1>1, <1>2 DEF Next, vars

(* A snapshot that stands after a step stood before it, or has just been   *)
(* taken; and only an alert is ever answered.                              *)
LEMMA SnapshotStandingStep ==
  ASSUME TypeInv, ClaimStanding, SnapshotStanding, ListedChargebacks, [Next]_vars
  PROVE  SnapshotStanding'
<1>. SUFFICES ASSUME NEW w \in Workers, worker'[w] # Nil
              PROVE  LET s == worker'[w] IN
                     /\ s.state \in OnTheClock
                     /\ s.action \in {"refund", "close"} => KindOf[s.dispute] = "alert"
                     /\ s.version <= version'[s.dispute]
                     /\ s.version = version'[s.dispute] => state'[s.dispute] = s.state
  BY DEF SnapshotStanding
<1>1. CASE worker'[w] = worker[w]
  <2>. DEFINE s == worker[w]
  <2>1. s.version \in Nat /\ s.dispute \in Disputes
    BY <1>1 DEF TypeInv, TypeOK, WorkerTypeOK, Snapshot
  <2>2. PICK d \in Disputes : d = s.dispute
    BY <2>1
  <2>3. /\ version[d] \in Nat
        /\ version'[d] \in {version[d], version[d] + 1}
        /\ version'[d] = version[d] /\ state[d] # "absent" => UNCHANGED <<state[d], runs[d]>>
    BY StepEffect, Versions DEF TypeInv
  <2>4. /\ s.state \in OnTheClock
        /\ s.action \in {"refund", "close"} => KindOf[d] = "alert"
        /\ s.version <= version[d]
        /\ s.version = version[d] => state[d] = s.state
    BY <1>1, <2>2 DEF SnapshotStanding
  <2>5. s.version = version'[d] => state'[d] = s.state
    BY <2>1, <2>3, <2>4 DEF OnTheClock
  <2>. QED
    BY <1>1, <2>1, <2>2, <2>3, <2>4, <2>5
<1>2. CASE worker'[w] # worker[w]
  <2>1. PICK v \in Workers :
          \/ \E d \in Disputes : WorkerLoad(v, d)
          \/ WorkerDecide(v)
          \/ WorkerApply(v)
          \/ WorkerGiveUp(v)
    BY <1>2 DEF Next, WorkerNext, vars
  <2>2. v = w /\ ((\E d \in Disputes : WorkerLoad(w, d)) \/ WorkerDecide(w))
    BY <1>2, <2>1 DEF TypeInv, TypeOK, WorkerTypeOK, WorkerLoad, WorkerDecide, WorkerApply,
       WorkerGiveUp
  <2>3. ASSUME NEW d \in Disputes, WorkerLoad(w, d)
        PROVE  /\ worker'[w].dispute = d
               /\ worker'[w].state = state[d] /\ worker'[w].version = version[d]
               /\ worker'[w].action = "undecided"
               /\ state' = state /\ version' = version
               /\ state[d] \in OnTheClock /\ version[d] \in Nat
    BY <2>3 DEF TypeInv, TypeOK, StoreTypeOK, WorkerTypeOK, WorkerLoad, storeVars
  <2>4. CASE WorkerDecide(w)
    <3>. DEFINE s == worker[w]
                action == Decide(s, clock[s.dispute] = "past")
    <3>1. s \in Snapshot
      BY <2>4 DEF WorkerDecide, TypeInv, TypeOK, WorkerTypeOK
    <3>2. action \notin {"skip", "escalate"} /\ worker'[w] = [s EXCEPT !.action = action]
      BY <1>2, <2>4 DEF WorkerDecide, TypeInv, TypeOK, WorkerTypeOK
    <3>3. action \in {"refund", "close"} => KindOf[s.dispute] = "alert"
      <4>1. KindOf[s.dispute] \in Kind
        BY <3>1, StoreAssumption DEF Snapshot
      <4>. QED
        BY <4>1 DEF Decide, Kind
    <3>4. /\ worker'[w].dispute = s.dispute /\ worker'[w].state = s.state
          /\ worker'[w].version = s.version /\ worker'[w].action = action
      BY <3>1, <3>2 DEF Snapshot
    <3>5. state' = state /\ version' = version
      BY <2>4 DEF WorkerDecide, storeVars
    <3>6. /\ s.state \in OnTheClock
          /\ s.version <= version[s.dispute]
          /\ s.version = version[s.dispute] => state[s.dispute] = s.state
      BY <2>4 DEF WorkerDecide, SnapshotStanding
    <3>. QED
      BY <3>3, <3>4, <3>5, <3>6
  <2>. QED
    BY <2>2, <2>3, <2>4
<1>. QED
  BY <1>1, <1>2

-----------------------------------------------------------------------------
(* Money.                                                                  *)

(* What each entry does to the merchant and to the funds held, where all   *)
(* four accounts exist.                                                    *)
LEMMA EntryAmounts ==
  ASSUME NEW d \in Disputes, AccountsOf[d] = Account
  PROVE  /\ AmountOf[d] \in Int /\ ChargebackFee \in Int
         /\ Entry(d, "hold")["disputes_payable"] = AmountOf[d]
         /\ Entry(d, "hold")["merchant_balance"] = -AmountOf[d]
         /\ Entry(d, "release")["disputes_payable"] = -AmountOf[d]
         /\ Entry(d, "release")["merchant_balance"] = AmountOf[d]
         /\ Entry(d, "chargeback")["disputes_payable"] = -AmountOf[d]
         /\ Entry(d, "chargeback")["merchant_balance"] = -ChargebackFee
         /\ Entry(d, "refund")["disputes_payable"] = 0
         /\ Entry(d, "refund")["merchant_balance"] = -AmountOf[d]
<1>1. AmountOf[d] \in Int /\ ChargebackFee \in Int
  BY StoreAssumption, FeeAssumption
<1>2. \A ref \in Ref : \A a \in Account : Entry(d, ref)[a] = Legs(ref, AmountOf[d])[a]
  BY DEF Entry, Written
<1>. QED
  BY <1>1, <1>2 DEF Legs, Hold, ReleaseHold, SettleLoss, Refund, Plus, Transfer, Account, Ref

(* Every entry the code writes balances, whatever the amounts: the trigger *)
(* has nothing to refuse while all four accounts exist.                    *)
THEOREM EntriesBalance ==
  ASSUME NEW d \in Disputes, NEW ref \in Ref, AccountsOf[d] = Account
  PROVE  Balance(Entry(d, ref)) = 0
<1>1. AmountOf[d] \in Int /\ ChargebackFee \in Int
  BY StoreAssumption, FeeAssumption
<1>2. \A a \in Account : Entry(d, ref)[a] = Legs(ref, AmountOf[d])[a]
  BY DEF Entry, Written
<1>. QED
  BY <1>1, <1>2 DEF Balance, Legs, Hold, ReleaseHold, SettleLoss, Refund, Plus, Transfer,
     Account, Ref

(* Paying an entry adds it to the books, account by account.               *)
LEMMA PaidAmounts ==
  ASSUME StoreTypeOK, NEW d \in Disputes, NEW ref \in Ref, Paid(d, ref), NEW a \in Account
  PROVE  /\ books[d][a] \in Int
         /\ books'[d][a] = books[d][a] + Entry(d, ref)[a]
BY DEF StoreTypeOK, Paid, Plus

(* Each effect takes the ledger entries along with the state.              *)
LEMMA SettledStep ==
  ASSUME NEW d \in Disputes, Routed(d), Settled(d), Effect(d)
  PROVE  Settled(d)'
<1>1. KindOf[d] \in Kind
  BY StoreAssumption
<1>2. CASE Untouched(d)
  BY <1>2 DEF Settled, Untouched, Open
<1>3. CASE Filed(d)
  BY <1>1, <1>3 DEF Settled, Filed, Paid, NoMoney, Kind, Open, OnTheClock
<1>4. CASE Handled(d)
  BY <1>1, <1>4 DEF Settled, Handled, Claimed, Released, Recorded, Reviewed, NoMoney, Routed,
     Kind, Open, OnTheClock
<1>5. CASE Answered(d)
  BY <1>1, <1>5 DEF Settled, Answered, Paid, NoMoney, Kind, Open, OnTheClock
<1>6. CASE Expired(d)
  BY <1>1, <1>6 DEF Settled, Expired, Paid, NoMoney, Kind, Open, OnTheClock
<1>7. CASE Ruled(d)
  BY <1>1, <1>7 DEF Settled, Ruled, Paid, Kind, Open, OnTheClock
<1>. QED
  BY <1>2, <1>3, <1>4, <1>5, <1>6, <1>7 DEF Effect

(* HeldMoney and MerchantCharge, for one dispute.                          *)
ChargedFor(d) ==
  books[d]["merchant_balance"] =
    IF KindOf[d] = "chargeback" /\ state[d] \in Open THEN -AmountOf[d]
    ELSE IF KindOf[d] = "chargeback" /\ state[d] \in {"lost", "expired"}
    THEN -(AmountOf[d] + ChargebackFee)
    ELSE IF state[d] = "refunded" /\ "refund" \in posted[d] THEN -AmountOf[d]
    ELSE 0

(* And the books with them.                                                *)
LEMMA BooksStep ==
  ASSUME StoreTypeOK, NEW d \in Disputes, Regular(d), Settled(d), HeldFor(d), ChargedFor(d),
         Effect(d)
  PROVE  HeldFor(d)' /\ ChargedFor(d)'
<1>. DEFINE A == AmountOf[d]
            held == books[d]["disputes_payable"]
            due == books[d]["merchant_balance"]
<1>1. KindOf[d] \in Kind /\ AccountsOf[d] = Account
  BY StoreAssumption DEF Regular
<1>2. A \in Int /\ ChargebackFee \in Int /\ held \in Int /\ due \in Int
  BY <1>1, EntryAmounts DEF StoreTypeOK, Account
<1>3. ASSUME NEW ref \in Ref, Paid(d, ref)
      PROVE  /\ held' = held + Entry(d, ref)["disputes_payable"]
             /\ due' = due + Entry(d, ref)["merchant_balance"]
             /\ posted'[d] = posted[d] \cup {ref}
  BY <1>3, PaidAmounts DEF Account, Paid
<1>4. NoMoney(d) => held' = held /\ due' = due /\ posted'[d] = posted[d]
  BY DEF NoMoney
<1>5. CASE Untouched(d)
  BY <1>5 DEF HeldFor, ChargedFor, Untouched, Open
<1>6. CASE Filed(d)
  <2>1. CASE KindOf[d] = "chargeback"
    <3>1. held' = A /\ due' = -A
      BY <1>1, <1>2, <1>3, <1>6, <2>1, EntryAmounts DEF Filed, HeldFor, ChargedFor, Ref, Open,
         OnTheClock
    <3>. QED
      BY <1>6, <2>1, <3>1 DEF Filed, HeldFor, ChargedFor, Open, OnTheClock
  <2>2. CASE KindOf[d] = "alert"
    BY <1>4, <1>6, <2>2 DEF Filed, HeldFor, ChargedFor, Open, OnTheClock
  <2>. QED
    BY <1>1, <2>1, <2>2 DEF Kind
<1>7. CASE Handled(d)
  <2>1. NoMoney(d) /\ state[d] \in Open /\ state'[d] \in Open
    BY <1>7 DEF Handled, Claimed, Released, Recorded, Reviewed, Open, OnTheClock
  <2>2. state'[d] # "refunded" /\ state[d] # "refunded"
    BY <2>1 DEF Open, OnTheClock
  <2>. QED
    BY <1>4, <2>1, <2>2 DEF HeldFor, ChargedFor, Open, OnTheClock
<1>8. CASE Answered(d)
  <2>1. KindOf[d] = "alert" /\ posted[d] = {} /\ held = 0 /\ due = 0
    BY <1>8 DEF Answered, Settled, HeldFor, ChargedFor, OnTheClock
  <2>2. CASE NoMoney(d)
    BY <1>4, <1>8, <2>1, <2>2 DEF Answered, HeldFor, ChargedFor
  <2>3. CASE Paid(d, "refund")
    <3>1. held' = 0 /\ due' = -A /\ "refund" \in posted'[d]
      BY <1>1, <1>2, <1>3, <2>1, <2>3, EntryAmounts DEF Ref
    <3>. QED
      BY <1>8, <2>1, <3>1 DEF Answered, HeldFor, ChargedFor
  <2>. QED
    BY <1>8, <2>2, <2>3 DEF Answered
<1>9. CASE Expired(d)
  <2>1. CASE KindOf[d] = "chargeback"
    <3>1. held = A /\ due = -A /\ Paid(d, "chargeback")
      BY <1>9, <2>1 DEF Expired, HeldFor, ChargedFor, Open, OnTheClock
    <3>2. held' = 0 /\ due' = -(A + ChargebackFee)
      BY <1>1, <1>2, <1>3, <3>1, EntryAmounts DEF Ref
    <3>. QED
      BY <1>9, <2>1, <3>2 DEF Expired, HeldFor, ChargedFor, Open, OnTheClock
  <2>2. CASE KindOf[d] = "alert"
    BY <1>4, <1>9, <2>2 DEF Expired, HeldFor, ChargedFor, Open, OnTheClock
  <2>. QED
    BY <1>1, <2>1, <2>2 DEF Kind
<1>10. CASE Ruled(d)
  <2>1. KindOf[d] = "chargeback" /\ held = A /\ due = -A
    BY <1>1, <1>10 DEF Ruled, Settled, HeldFor, ChargedFor, Open, OnTheClock, Kind
  <2>2. CASE state'[d] = "won" /\ Paid(d, "release")
    <3>1. held' = 0 /\ due' = 0
      BY <1>1, <1>2, <1>3, <2>1, <2>2, EntryAmounts DEF Ref
    <3>. QED
      BY <2>1, <2>2, <3>1 DEF HeldFor, ChargedFor, Open, OnTheClock
  <2>3. CASE state'[d] = "lost" /\ Paid(d, "chargeback")
    <3>1. held' = 0 /\ due' = -(A + ChargebackFee)
      BY <1>1, <1>2, <1>3, <2>1, <2>3, EntryAmounts DEF Ref
    <3>. QED
      BY <2>1, <2>3, <3>1 DEF HeldFor, ChargedFor, Open, OnTheClock
  <2>. QED
    BY <1>10, <2>2, <2>3 DEF Ruled
<1>. QED
  BY <1>5, <1>6, <1>7, <1>8, <1>9, <1>10 DEF Effect

-----------------------------------------------------------------------------
(* The refunds of a charge.  The sum is a fold over a set: that it may be  *)
(* taken apart anywhere is what the lemmas down to SumTakesAway are for.   *)

(* Induction over finite sets, as a smallest counterexample.               *)
LEMMA SmallestSet ==
  ASSUME NEW SS, SS # {}, \A S \in SS : IsFiniteSet(S)
  PROVE  \E S \in SS : \A T \in SS : T \subseteq S => T = S
<1>1. SS \subseteq FiniteSubsetsOf(UNION SS)
  BY DEF FiniteSubsetsOf
<1>2. PICK S \in SS : \A T \in SS : <<T, S>> \notin StrictSubsetOrdering(UNION SS)
  BY <1>1, FS_StrictSubsetOrderingWellFounded, WFMin
<1>. QED
  BY <1>1, <1>2 DEF StrictSubsetOrdering, FiniteSubsetsOf

(* The element a fold over a set takes first.                              *)
Some(S) == CHOOSE d \in S : TRUE

(* The recursive function behind it.                                       *)
Summing(sum, S) ==
  sum = [T \in SUBSET S |-> IF T = {} THEN 0 ELSE AmountOf[Some(T)] + sum[T \ {Some(T)}]]

(* AmountSum is read off that function.                                    *)
LEMMA SumIsFold ==
  ASSUME NEW S
  PROVE  AmountSum(S) = (CHOOSE sum : Summing(sum, S))[S]
BY DEF AmountSum, MapThenSumSet, MapThenFoldSet, Summing, Some

(* Two such functions agree where both are defined.                        *)
LEMMA SummingAgree ==
  ASSUME NEW S, NEW U, NEW f, NEW g, Summing(f, S), Summing(g, U),
         NEW T \in SUBSET (S \cap U), IsFiniteSet(T)
  PROVE  f[T] = g[T]
<1>. DEFINE SS == {R \in SUBSET T : f[R] # g[R]}
<1>. SUFFICES ASSUME SS # {} PROVE FALSE
  OBVIOUS
<1>1. \A R \in SS : IsFiniteSet(R)
  BY FS_Subset
<1>2. PICK R \in SS : \A Q \in SS : Q \subseteq R => Q = R
  <2>1. \A V \in SS : IsFiniteSet(V)
    BY <1>1
  <2>. HIDE DEF SS
  <2>. QED BY <2>1, SmallestSet
<1>3. R \in SUBSET S /\ R \in SUBSET U /\ R \ {Some(R)} \in SUBSET S /\ R \ {Some(R)} \in SUBSET U
  OBVIOUS
<1>4. R # {}
  BY <1>3 DEF Summing
<1>5. Some(R) \in R
  BY <1>4 DEF Some
<1>6. f[R \ {Some(R)}] = g[R \ {Some(R)}]
  BY <1>2, <1>5
<1>. QED
  BY <1>3, <1>4, <1>6 DEF Summing

(* There is one, for every finite set.                                     *)
LEMMA SummingExists ==
  ASSUME NEW S, IsFiniteSet(S)
  PROVE  \E sum : Summing(sum, S)
<1>. DEFINE SS == {T \in SUBSET S : ~ \E sum : Summing(sum, T)}
<1>. SUFFICES ASSUME SS # {} PROVE FALSE
  OBVIOUS
<1>1. \A T \in SUBSET S : IsFiniteSet(T)
  BY FS_Subset
<1>2. PICK T \in SS : \A U \in SS : U \subseteq T => U = T
  <2>1. \A V \in SS : IsFiniteSet(V)
    BY <1>1
  <2>. HIDE DEF SS
  <2>. QED BY <2>1, SmallestSet
<1>. DEFINE of(U) == CHOOSE sum : Summing(sum, U)
            f == [U \in SUBSET T |-> IF U = {} THEN 0
                    ELSE AmountOf[Some(U)] + of(U \ {Some(U)})[U \ {Some(U)}]]
<1>3. \A U \in SUBSET T : U # T => Summing(of(U), U)
  BY <1>2
<1>4. ASSUME NEW U \in SUBSET T, U # T PROVE f[U] = of(U)[U]
  <2>1. of(U) = [R \in SUBSET U |-> IF R = {} THEN 0 ELSE AmountOf[Some(R)] + of(U)[R \ {Some(R)}]]
    BY <1>3, <1>4 DEF Summing
  <2>2. of(U)[U] = IF U = {} THEN 0 ELSE AmountOf[Some(U)] + of(U)[U \ {Some(U)}]
    BY <2>1
  <2>3. CASE U # {}
    <3>1. Some(U) \in U
      BY <2>3 DEF Some
    <3>. DEFINE R == U \ {Some(U)}
    <3>2. R \in SUBSET T /\ R # T /\ R \in SUBSET (U \cap R) /\ IsFiniteSet(R)
      BY <1>1, <1>4, <3>1
    <3>3. Summing(of(U), U) /\ Summing(of(R), R)
      BY <1>3, <1>4, <3>2
    <3>4. of(U)[R] = of(R)[R]
      <4>. HIDE DEF of, R
      <4>. QED BY <3>2, <3>3, SummingAgree
    <3>. QED
      BY <2>2, <2>3, <3>4, <1>4
  <2>. QED
    BY <2>2, <2>3, <1>4
<1>5. Summing(f, T)
  <2>1. \A U \in SUBSET T : U # {} => f[U \ {Some(U)}] = of(U \ {Some(U)})[U \ {Some(U)}]
    <3>1. SUFFICES ASSUME NEW U \in SUBSET T, U # {}
                   PROVE  f[U \ {Some(U)}] = of(U \ {Some(U)})[U \ {Some(U)}]
      OBVIOUS
    <3>2. Some(U) \in U
      BY <3>1 DEF Some
    <3>3. U \ {Some(U)} \in SUBSET T /\ U \ {Some(U)} # T
      BY <3>2
    <3>. HIDE DEF f, of
    <3>. QED BY <1>4, <3>3
  <2>2. f = [U \in SUBSET T |-> IF U = {} THEN 0 ELSE AmountOf[Some(U)] + f[U \ {Some(U)}]]
    <3>. HIDE DEF of
    <3>. QED BY <2>1
  <2>. HIDE DEF f
  <2>. QED BY <2>2 DEF Summing
<1>. QED
  BY <1>2, <1>5

(* So the sum may be taken apart at the element the fold takes first.      *)
LEMMA SumStep ==
  ASSUME NEW S, IsFiniteSet(S)
  PROVE  AmountSum(S) = IF S = {} THEN 0 ELSE AmountOf[Some(S)] + AmountSum(S \ {Some(S)})
<1>. DEFINE f == CHOOSE sum : Summing(sum, S)
            R == S \ {Some(S)}
            g == CHOOSE sum : Summing(sum, R)
<1>1. IsFiniteSet(R)
  BY FS_Subset
<1>2. Summing(f, S) /\ Summing(g, R)
  BY <1>1, SummingExists
<1>3. f[S] = IF S = {} THEN 0 ELSE AmountOf[Some(S)] + f[R]
  <2>. HIDE DEF f
  <2>. QED BY <1>2 DEF Summing
<1>4. f[R] = g[R]
  <2>. HIDE DEF f, g
  <2>1. R \in SUBSET (S \cap R)
    OBVIOUS
  <2>. HIDE DEF R
  <2>. QED BY <1>1, <1>2, <2>1, SummingAgree
<1>5. AmountSum(S) = f[S] /\ AmountSum(R) = g[R]
  BY SumIsFold
<1>. HIDE DEF f, g
<1>. QED
  BY <1>3, <1>4, <1>5

(* It is a number.                                                         *)
LEMMA SumTypes ==
  ASSUME NEW S \in SUBSET Disputes, IsFiniteSet(S)
  PROVE  AmountSum(S) \in Nat
<1>. DEFINE SS == {T \in SUBSET S : AmountSum(T) \notin Nat}
<1>. SUFFICES ASSUME SS # {} PROVE FALSE
  OBVIOUS
<1>1. \A T \in SUBSET S : IsFiniteSet(T)
  BY FS_Subset
<1>2. PICK T \in SS : \A U \in SS : U \subseteq T => U = T
  <2>1. \A V \in SS : IsFiniteSet(V)
    BY <1>1
  <2>. HIDE DEF SS
  <2>. QED BY <2>1, SmallestSet
<1>3. T # {} => Some(T) \in T
  BY DEF Some
<1>4. T # {} => AmountSum(T \ {Some(T)}) \in Nat /\ AmountOf[Some(T)] \in Nat
  BY <1>2, <1>3, StoreAssumption
<1>5. AmountSum(T) = IF T = {} THEN 0 ELSE AmountOf[Some(T)] + AmountSum(T \ {Some(T)})
  BY <1>1, SumStep
<1>. QED
  BY <1>4, <1>5

(* And it may be taken apart at any other element as well.                 *)
LEMMA SumTakesAway ==
  ASSUME NEW S \in SUBSET Disputes, IsFiniteSet(S), NEW d \in S
  PROVE  AmountSum(S) = AmountOf[d] + AmountSum(S \ {d})
<1>. DEFINE SS == {T \in SUBSET S : \E c \in T : AmountSum(T) # AmountOf[c] + AmountSum(T \ {c})}
<1>. SUFFICES ASSUME SS # {} PROVE FALSE
  OBVIOUS
<1>1. \A T \in SUBSET S : IsFiniteSet(T) /\ AmountSum(T) \in Nat
  BY FS_Subset, SumTypes
<1>2. PICK T \in SS : \A U \in SS : U \subseteq T => U = T
  <2>1. \A V \in SS : IsFiniteSet(V)
    BY <1>1
  <2>. HIDE DEF SS
  <2>. QED BY <2>1, SmallestSet
<1>3. PICK c \in T : AmountSum(T) # AmountOf[c] + AmountSum(T \ {c})
  BY <1>2
<1>. DEFINE x == Some(T)
<1>4. x \in T /\ AmountSum(T) = AmountOf[x] + AmountSum(T \ {x})
  BY <1>1, <1>3, SumStep DEF Some
<1>. HIDE DEF x
<1>5. x # c
  BY <1>3, <1>4
<1>6. AmountSum(T \ {x}) = AmountOf[c] + AmountSum((T \ {x}) \ {c})
  BY <1>2, <1>4, <1>5
<1>7. AmountSum(T \ {c}) = AmountOf[x] + AmountSum((T \ {c}) \ {x})
  BY <1>2, <1>4, <1>5
<1>8. (T \ {x}) \ {c} = (T \ {c}) \ {x}
  OBVIOUS
<1>9. AmountOf[c] \in Nat /\ AmountOf[x] \in Nat /\ AmountSum((T \ {x}) \ {c}) \in Nat
  BY <1>1, <1>4, StoreAssumption
<1>. QED
  BY <1>3, <1>4, <1>6, <1>7, <1>8, <1>9
(* What a refund does to the two records of it, and a step that is none.   *)
RefundStep(d) ==
  /\ ChargeOf[d] \in Charges
  /\ "refund" \notin posted[d]
  /\ posted' = [posted EXCEPT ![d] = @ \cup {"refund"}]
  /\ AddRefund(d)

NoRefund ==
  /\ UNCHANGED refunded
  /\ \A d \in Disputes : "refund" \in posted'[d] <=> "refund" \in posted[d]

(* An entry that is not a refund is no refund step.                        *)
LEMMA OtherEntry ==
  ASSUME StoreTypeOK, NEW d \in Disputes, NEW ref \in Ref \ {"refund"}, UNCHANGED refunded,
         posted' = posted \/ posted' = [posted EXCEPT ![d] = @ \cup {ref}]
  PROVE  NoRefund
<1>1. \A x \in Disputes : posted'[x] = posted[x] \/ posted'[x] = posted[x] \cup {ref}
  BY DEF StoreTypeOK
<1>. QED
  BY <1>1 DEF NoRefund

(* Only a worker that refunds moves the total of a charge, and it posts    *)
(* the refund in the same transaction, for the first time.                 *)
LEMMA RefundEffect ==
  ASSUME TypeInv, SnapshotStanding, [Next]_vars
  PROVE  NoRefund \/ \E d \in Disputes : RefundStep(d)
<1>. USE DEF TypeInv, TypeOK, NoRefund
<1>1. CASE UNCHANGED vars
  BY <1>1 DEF vars
<1>2. CASE IngestNext
  <2>1. ASSUME NEW e \in Deliveries,
               \/ RecordUnlinkable(e)
               \/ RecordKnownDispute(e)
               \/ RecordPrematureRuling(e)
        PROVE  NoRefund
    BY <2>1 DEF RecordUnlinkable, RecordKnownDispute, RecordPrematureRuling, storeVars
  <2>2. ASSUME NEW e \in Deliveries, RecordDispute(e) PROVE NoRefund
    <3>1. e.dispute \in Disputes /\ refunded' = refunded
      BY <2>2, DeliveriesAssumption DEF RecordDispute, moneyVars
    <3>2. posted' = posted \/ posted' = [posted EXCEPT ![e.dispute] = @ \cup {"hold"}]
      BY <2>2 DEF RecordDispute, HoldFunds, Post, PostNothing
    <3>. QED
      BY <3>1, <3>2, OtherEntry DEF Ref
  <2>3. ASSUME NEW e \in Deliveries, RecordRuling(e) PROVE NoRefund
    BY <2>3, DeliveriesAssumption DEF RecordRuling, Post, StoreTypeOK
  <2>. QED
    BY <1>2, <2>1, <2>2, <2>3 DEF IngestNext
<1>3. CASE WorkerNext
  <2>1. ASSUME NEW w \in Workers,
               \/ \E d \in Disputes : WorkerLoad(w, d)
               \/ WorkerDecide(w)
               \/ WorkerGiveUp(w)
        PROVE  NoRefund
    BY <2>1 DEF WorkerLoad, WorkerDecide, WorkerGiveUp, storeVars
  <2>2. ASSUME NEW w \in Workers, WorkerApply(w)
        PROVE  NoRefund \/ \E d \in Disputes : RefundStep(d)
    <3>. DEFINE s == worker[w]
                d == s.dispute
    <3>1. /\ d \in Disputes
          /\ ChargeOf[d] \in Charges
      BY <2>2 DEF WorkerApply, WorkerTypeOK, Snapshot, SnapshotStanding, Fresh, Linked,
         OnTheClock
    <3>2. CASE s.action = "refund"
      BY <2>2, <3>1, <3>2 DEF WorkerApply, ApplyMoney, Postable, Post, RefundStep
    <3>3. CASE s.action # "refund"
      <4>1. refunded' = refunded
        BY <2>2, <3>3 DEF WorkerApply, ApplyMoney
      <4>2. posted' = posted \/ posted' = [posted EXCEPT ![d] = @ \cup {"chargeback"}]
        BY <2>2, <3>3 DEF WorkerApply, ApplyMoney, Post, PostNothing
      <4>. QED
        BY <3>1, <4>1, <4>2, OtherEntry DEF Ref
    <3>. QED
      BY <3>2, <3>3
  <2>. QED
    BY <1>3, <2>1, <2>2 DEF WorkerNext
<1>4. CASE AgentNext
  BY <1>4 DEF AgentNext, AgentList, AgentHold, AgentHoldUnanswered, TakeHold, AgentSkip,
     AgentRecord, AgentRelease, AgentClaimLost, AgentReleaseFails, AgentCrash, Leaves, storeVars,
     moneyVars
<1>5. CASE ReviewNext
  BY <1>5 DEF ReviewNext, ReviewBegin, ReviewCommit, ReviewRollback, storeVars, moneyVars
<1>6. CASE \E d \in Disputes : Tick(d)
  BY <1>6 DEF Tick
<1>. QED
  BY <1>1, <1>2, <1>3, <1>4, <1>5, <1>6 DEF Next

(* What a sum is does not change; what is summed up may.                   *)
LEMMA SumPrimed == \A c : AmountSum(RefundsOf(c))' = AmountSum(RefundsOf(c)')
BY DEF AmountSum, MapThenSumSet, MapThenFoldSet

(* The total and the ledger move together.                                 *)
LEMMA RefundsStep ==
  ASSUME TypeInv, SnapshotStanding, RefundsFinite, RefundsAddUp, [Next]_vars
  PROVE  RefundsFinite' /\ RefundsAddUp'
<1>1. CASE NoRefund
  <2>1. \A c \in Charges : RefundsOf(c)' = RefundsOf(c) /\ refunded'[c] = refunded[c]
    BY <1>1 DEF NoRefund, RefundsOf
  <2>. QED
    BY <2>1, SumPrimed DEF RefundsFinite, RefundsAddUp
<1>2. ASSUME NEW d \in Disputes, RefundStep(d) PROVE RefundsFinite' /\ RefundsAddUp'
  <2>. DEFINE c == ChargeOf[d]
  <2>1. \A b \in Charges \ {c} : RefundsOf(b)' = RefundsOf(b) /\ refunded'[b] = refunded[b]
    BY <1>2 DEF RefundStep, AddRefund, RefundsOf, TypeInv, TypeOK, StoreTypeOK
  <2>2. c \in Charges /\ d \notin RefundsOf(c) /\ RefundsOf(c)' = RefundsOf(c) \cup {d}
    BY <1>2 DEF RefundStep, RefundsOf, TypeInv, TypeOK, StoreTypeOK
  <2>3. /\ refunded'[c] = refunded[c] + AmountOf[d]
        /\ refunded'[c] <= CapturedOf[c]
        /\ refunded[c] \in Nat /\ AmountOf[d] \in Nat
    BY <1>2, <2>2, StoreAssumption DEF RefundStep, AddRefund, TypeInv, TypeOK, StoreTypeOK
  <2>4. IsFiniteSet(RefundsOf(c)') /\ RefundsOf(c)' \in SUBSET Disputes
    <3>1. IsFiniteSet(RefundsOf(c)) /\ RefundsOf(c)' \in SUBSET Disputes
      BY <2>2 DEF RefundsFinite, RefundsOf
    <3>. QED
      BY <2>2, <3>1, FS_AddElement
  <2>5. AmountSum(RefundsOf(c)') = AmountOf[d] + AmountSum(RefundsOf(c))
    <3>1. RefundsOf(c)' \ {d} = RefundsOf(c) /\ d \in RefundsOf(c)'
      BY <2>2
    <3>2. AmountSum(RefundsOf(c)') = AmountOf[d] + AmountSum(RefundsOf(c)' \ {d})
      BY <2>4, <3>1, SumTakesAway
    <3>. QED
      BY <3>1, <3>2
  <2>6. RefundsFinite'
    BY <2>1, <2>2, <2>4 DEF RefundsFinite
  <2>7. AmountSum(RefundsOf(c)') = refunded'[c]
    BY <2>2, <2>3, <2>5 DEF RefundsAddUp
  <2>8. \A b \in Charges : AmountSum(RefundsOf(b))' = AmountSum(RefundsOf(b)')
    BY SumPrimed
  <2>9. ASSUME NEW b \in Charges
        PROVE  refunded'[b] <= CapturedOf[b] /\ refunded'[b] = AmountSum(RefundsOf(b))'
    BY <2>1, <2>2, <2>3, <2>7, <2>8 DEF RefundsAddUp
  <2>. QED
    BY <2>6, <2>9 DEF RefundsAddUp
<1>. QED
  BY <1>1, <1>2, RefundEffect

-----------------------------------------------------------------------------
(* What the rest of the system is told.                                    *)

(* Appending to a list of one.                                             *)
LEMMA AppendToOne ==
  ASSUME NEW S, NEW s \in S, NEW t \in S
  PROVE  Append(<<t>>, s) = <<t, s>>
<1>1. <<t>> \in Seq(S) /\ Len(<<t>>) = 1 /\ <<t>>[1] = t
  OBVIOUS
<1>2. <<t, s>> \in Seq(S) /\ Len(<<t, s>>) = 2
  OBVIOUS
<1>3. Append(<<t>>, s) \in Seq(S) /\ Len(Append(<<t>>, s)) = 2
  BY <1>1
<1>4. Append(<<t>>, s)[1] = t /\ Append(<<t>>, s)[2] = s
  BY <1>1
<1>5. \A i \in 1..Len(Append(<<t>>, s)) : Append(<<t>>, s)[i] = <<t, s>>[i]
  <2>1. \A i \in 1..2 : i = 1 \/ i = 2
    OBVIOUS
  <2>. QED
    BY <1>3, <1>4, <2>1
<1>. QED
  BY <1>2, <1>3, <1>5, SeqEqual

(* The outbox of a dispute follows its states.                             *)
LEMMA AnnouncedStep ==
  ASSUME NEW d \in Disputes, Effect(d),
         outbox[d] = IF state[d] = "absent" THEN <<>>
                     ELSE IF state[d] \in Terminal THEN <<"received", state[d]>>
                     ELSE <<"received">>
  PROVE  outbox'[d] = IF state'[d] = "absent" THEN <<>>
                      ELSE IF state'[d] \in Terminal THEN <<"received", state'[d]>>
                      ELSE <<"received">>
<1>1. \A s \in State : Append(<<>>, s) = <<s>> /\ Append(<<"received">>, s) = <<"received", s>>
  <2>1. \A s \in State : Append(<<>>, s) = <<s>>
    OBVIOUS
  <2>2. "received" \in State
    BY DEF State
  <2>. QED
    BY <2>1, <2>2, AppendToOne
<1>2. CASE Untouched(d)
  BY <1>2 DEF Untouched
<1>3. CASE Filed(d)
  BY <1>1, <1>3 DEF Filed, Terminal, State
<1>4. CASE Handled(d)
  BY <1>4 DEF Handled, Claimed, Released, Recorded, Reviewed, Terminal
<1>5. CASE Answered(d) \/ Expired(d) \/ Ruled(d)
  <2>1. outbox[d] = <<"received">> /\ outbox'[d] = Append(outbox[d], state'[d])
    BY <1>5 DEF Answered, Expired, Ruled, Ended, Terminal, OnTheClock
  <2>2. state'[d] \in Terminal
    BY <1>5 DEF Answered, Expired, Ruled, Terminal
  <2>3. state'[d] # "absent" /\ state'[d] \in State
    BY <2>2 DEF Terminal, State
  <2>. QED
    BY <1>1, <2>1, <2>2, <2>3
<1>. QED
  BY <1>2, <1>3, <1>4, <1>5 DEF Effect

(* A dispute gets to a reviewer by a run alone, and a review takes it on.  *)
LEMMA DraftStep ==
  ASSUME TypeOK, DraftHasRun, NEW d \in Disputes, Effect(d), state'[d] = "draft_ready"
  PROVE  runs'[d] # <<>> /\ runs'[d][Len(runs'[d])].review = "none"
<1>1. CASE Untouched(d)
  BY <1>1 DEF Untouched, DraftHasRun
<1>2. CASE Recorded(d)
  <2>1. PICK outcome \in Outcome :
          runs'[d] = Append(runs[d], [outcome |-> outcome, review |-> "none"])
    BY <1>2 DEF Recorded
  <2>2. runs[d] \in Seq(Run) /\ Len(runs[d]) \in Nat
    BY LenProperties DEF TypeOK, StoreTypeOK
  <2>3. /\ Len(runs'[d]) = Len(runs[d]) + 1
        /\ runs'[d][Len(runs[d]) + 1] = [outcome |-> outcome, review |-> "none"]
    BY <2>1, <2>2
  <2>. QED
    BY <2>2, <2>3
<1>. QED
  BY <1>1, <1>2 DEF Effect, Filed, Handled, Claimed, Released, Reviewed, Answered, Expired, Ruled

(* Nothing follows a ruling, or any other end.                             *)
LEMMA EndIsFinal ==
  ASSUME NEW d \in Disputes, Effect(d), state[d] \in Terminal
  PROVE  Untouched(d)
BY DEF Effect, Filed, Handled, Claimed, Released, Recorded, Reviewed, Answered, Expired,
   Ruled, Terminal, OnTheClock

(* A ruling is processed by moving the dispute to it.                      *)
LEMMA RulingStep ==
  ASSUME TypeOK, RulingStands, \A d \in Disputes : Effect(d), [Next]_vars
  PROVE  RulingStands'
<1>. SUFFICES ASSUME NEW e \in Deliveries, e.body \in {"won", "lost"}, webhook'[e] = "processed"
              PROVE  state'[e.dispute] = e.body
  BY DEF RulingStands
<1>1. e.dispute \in Disputes
  BY DeliveriesAssumption
<1>2. CASE webhook[e] = "processed"
  <2>1. state[e.dispute] = e.body
    BY <1>2 DEF RulingStands
  <2>2. Untouched(e.dispute)
    BY <1>1, <2>1, EndIsFinal DEF Terminal
  <2>. QED
    BY <2>1, <2>2 DEF Untouched
<1>3. CASE webhook[e] # "processed"
  <2>1. PICK f \in Deliveries :
          \/ RecordUnlinkable(f)
          \/ RecordKnownDispute(f)
          \/ RecordDispute(f)
          \/ RecordPrematureRuling(f)
          \/ RecordRuling(f)
    BY <1>3 DEF Next, IngestNext, vars
  <2>2. f = e /\ RecordRuling(e)
    BY <1>3, <2>1 DEF TypeOK, IngestTypeOK, Mark, RecordUnlinkable, RecordKnownDispute,
       RecordDispute, RecordPrematureRuling, RecordRuling, FirstDelivery
  <2>. QED
    BY <1>1, <2>2 DEF RecordRuling, Move, TypeOK, StoreTypeOK
<1>. QED
  BY <1>2, <1>3

(* The trail of a dispute follows its states, but for the claims of        *)
(* agents, which leave no event.                                           *)
Trailed(events, s) ==
  IF events = <<>> THEN s = "absent"
  ELSE /\ events[1] = <<"absent", "received">>
       /\ \A i \in 2..Len(events) : Follows(events[i - 1][2], events[i][1])
       /\ Follows(events[Len(events)][2], s)
       /\ events[Len(events)][2] \notin {"absent", "resolving"}

(* An event that starts where the dispute is continues its trail.          *)
LEMMA TrailGrows ==
  ASSUME NEW events \in Seq(State \X State), NEW s \in State, NEW t \in State,
         Trailed(events, s), t \notin {"absent", "resolving"},
         s = "absent" => t = "received"
  PROVE  Trailed(Append(events, <<s, t>>), t)
<1>. DEFINE after == Append(events, <<s, t>>)
<1>1. <<s, t>> \in State \X State
  OBVIOUS
<1>2. /\ after # <<>> /\ Len(after) = Len(events) + 1 /\ Len(events) \in Nat
      /\ after[Len(events) + 1] = <<s, t>>
      /\ \A i \in 1..Len(events) : after[i] = events[i]
  BY <1>1, AppendProperties, LenProperties
<1>3. after[Len(after)][2] = t
  BY <1>2
<1>4. CASE events = <<>>
  <2>1. s = "absent" /\ t = "received" /\ Len(events) = 0
    BY <1>4 DEF Trailed
  <2>2. after[1] = <<"absent", "received">> /\ 2..Len(after) = {}
    BY <1>2, <2>1
  <2>. QED
    BY <1>2, <1>3, <2>2 DEF Trailed, Follows
<1>5. CASE events # <<>>
  <2>1. Len(events) \in Nat \ {0}
    BY <1>2, <1>5, EmptySeq
  <2>2. after[1] = <<"absent", "received">>
    BY <1>2, <1>5, <2>1 DEF Trailed
  <2>3. ASSUME NEW i \in 2..Len(after) PROVE Follows(after[i - 1][2], after[i][1])
    <3>1. CASE i \in 2..Len(events)
      <4>1. i - 1 \in 1..Len(events) /\ i \in 1..Len(events)
        BY <2>1, <3>1
      <4>2. after[i - 1] = events[i - 1] /\ after[i] = events[i]
        BY <1>2, <4>1
      <4>. QED
        BY <1>5, <3>1, <4>2 DEF Trailed
    <3>2. CASE i = Len(events) + 1
      <4>1. after[i - 1] = events[Len(events)] /\ after[i][1] = s
        BY <1>2, <2>1, <3>2
      <4>. QED
        BY <1>5, <4>1 DEF Trailed
    <3>. QED
      BY <1>2, <2>1, <3>1, <3>2
  <2>. QED
    BY <1>2, <1>3, <2>2, <2>3 DEF Trailed, Follows
<1>. QED
  BY <1>4, <1>5

(* Every effect keeps the trail.                                           *)
LEMMA TrailStep ==
  ASSUME StoreTypeOK, StoreTypeOK', NEW d \in Disputes, Effect(d),
         Trailed(trail[d], state[d])
  PROVE  Trailed(trail'[d], state'[d])
<1>1. trail[d] \in Seq(State \X State) /\ state[d] \in State /\ state'[d] \in State
  BY DEF StoreTypeOK
<1>2. CASE Untouched(d)
  BY <1>2 DEF Untouched
<1>3. CASE Claimed(d) \/ Released(d)
  BY <1>3 DEF Claimed, Released, Trailed, Follows
<1>4. CASE Filed(d)
  BY <1>1, <1>4, TrailGrows DEF Filed, Logged
<1>5. CASE Recorded(d) \/ Reviewed(d) \/ Answered(d) \/ Expired(d) \/ Ruled(d)
  <2>1. Logged(d)
    BY <1>5 DEF Recorded, Reviewed, Answered, Expired, Ruled, Ended
  <2>2. state'[d] \notin {"absent", "resolving"} /\ state[d] # "absent"
    BY <1>5 DEF Recorded, Reviewed, Answered, Expired, Ruled, OnTheClock
  <2>. QED
    BY <1>1, <2>1, <2>2, TrailGrows DEF Logged
<1>. QED
  BY <1>2, <1>3, <1>4, <1>5 DEF Effect, Handled

(* What was submitted stays, and a review submits one run of a dispute     *)
(* that had none.                                                          *)
LEMMA SentStep ==
  ASSUME TypeOK, NEW d \in Disputes, Effect(d),
         IF state[d] \in {"represented", "won", "lost"}
         THEN \E i \in 1..Len(runs[d]) : Sent(d) = {i}
         ELSE Sent(d) = {}
  PROVE  IF state'[d] \in {"represented", "won", "lost"}
         THEN \E i \in 1..Len(runs'[d]) : Sent(d)' = {i}
         ELSE Sent(d)' = {}
<1>1. runs[d] \in Seq(Run) /\ Len(runs[d]) \in Nat /\ DOMAIN runs[d] = 1..Len(runs[d])
  BY LenProperties DEF TypeOK, StoreTypeOK
<1>2. CASE UNCHANGED runs[d] /\ ~Reviewed(d)
  <2>1. state'[d] \in {"represented", "won", "lost"}
          <=> state[d] \in {"represented", "won", "lost"}
    BY <1>2 DEF Effect, Untouched, Filed, Handled, Claimed, Released, Recorded, Answered,
       Expired, Ruled, OnTheClock
  <2>. QED
    BY <1>2, <2>1 DEF Sent
<1>3. CASE Recorded(d)
  <2>1. PICK outcome \in Outcome :
          runs'[d] = Append(runs[d], [outcome |-> outcome, review |-> "none"])
    BY <1>3 DEF Recorded
  <2>2. /\ DOMAIN runs'[d] = 1..(Len(runs[d]) + 1)
        /\ runs'[d][Len(runs[d]) + 1].review = "none"
        /\ \A i \in 1..Len(runs[d]) : runs'[d][i] = runs[d][i]
    BY <1>1, <2>1
  <2>3. Sent(d)' = Sent(d)
    BY <1>1, <2>2 DEF Sent
  <2>. QED
    BY <1>3, <2>3 DEF Recorded
<1>4. CASE Reviewed(d)
  <2>1. PICK i \in 1..Len(runs[d]), decision \in {"submitted", "discarded"} :
          /\ runs'[d] = Marked(runs[d], i, decision)
          /\ decision = "submitted" <=> state'[d] = "represented"
    BY <1>4 DEF Reviewed
  <2>2. /\ DOMAIN runs'[d] = 1..Len(runs[d]) /\ Len(runs'[d]) = Len(runs[d])
        /\ \A j \in 1..Len(runs[d]) : j # i => runs'[d][j] = runs[d][j]
        /\ runs'[d][i].review = decision
    <3>1. runs[d][i] \in Run
      BY <1>1
    <3>2. runs'[d][i].review = decision
      BY <1>1, <2>1, <3>1 DEF Marked, Run
    <3>3. Len(runs'[d]) = Len(runs[d]) /\ DOMAIN runs'[d] = DOMAIN runs[d]
      <4>1. decision \in Decision
        BY <2>1 DEF Decision
      <4>. QED
        BY <1>1, <2>1, <4>1, ReviewedRuns DEF Marked
    <3>. QED
      BY <1>1, <2>1, <3>2, <3>3 DEF Marked
  <2>3. Sent(d) = {} /\ state'[d] \in {"received", "represented"}
    BY <1>4 DEF Reviewed
  <2>4. CASE decision = "submitted"
    BY <1>1, <2>1, <2>2, <2>3, <2>4 DEF Sent
  <2>5. CASE decision = "discarded"
    BY <1>1, <2>1, <2>2, <2>3, <2>5 DEF Sent
  <2>. QED
    BY <2>4, <2>5
<1>. QED
  BY <1>2, <1>3, <1>4 DEF Effect, Untouched, Filed, Handled, Claimed, Released, Answered,
     Expired, Ruled, Ended

-----------------------------------------------------------------------------
(* The invariant, whole.                                                   *)

(* Init has it.                                                            *)
LEMMA InvInit == Init => Inv
<1>. SUFFICES ASSUME Init PROVE Inv
  OBVIOUS
<1>1. TypeInv
  BY TypeInit DEF Init, StoreInit, ReviewInit, TypeInv, Linked, ReviewOfRun
<1>2. ClaimStanding /\ ClaimsDiffer /\ SnapshotStanding /\ ListedChargebacks
  BY DEF Init, AgentInit, WorkerInit, ClaimStanding, ClaimsDiffer, SnapshotStanding,
     ListedChargebacks
<1>3. SettledOnce /\ HeldMoney /\ MerchantCharge /\ ResolvedIsTerminal
  BY DEF Init, StoreInit, SettledOnce, Settled, HeldMoney, HeldFor, MerchantCharge,
     ResolvedIsTerminal, Terminal, Nothing, Account, Open, OnTheClock
<1>4. Announced /\ DraftHasRun /\ RulingStands
  BY DEF Init, StoreInit, IngestInit, Announced, DraftHasRun, RulingStands
<1>5. AuditTrail /\ EventsEnd /\ SentOnce
  BY DEF Init, StoreInit, AuditTrail, EventsEnd, SentOnce, Sent
<1>6. RefundsFinite /\ RefundsAddUp
  <2>1. \A c \in Charges : RefundsOf(c) = {}
    BY DEF Init, StoreInit, RefundsOf
  <2>2. IsFiniteSet({}) /\ AmountSum({}) = 0
    BY FS_EmptySet, SumStep
  <2>. QED
    <3>1. \A c \in Charges : refunded[c] = 0 /\ CapturedOf[c] \in Nat
      BY StoreAssumption DEF Init, StoreInit
    <3>. QED
      <4>1. \A c \in Charges : refunded[c] <= CapturedOf[c]
        BY <3>1
      <4>2. \A c \in Charges : refunded[c] = AmountSum(RefundsOf(c)) /\ IsFiniteSet(RefundsOf(c))
        BY <2>1, <2>2, <3>1
      <4>. QED
        BY <4>1, <4>2 DEF RefundsFinite, RefundsAddUp
<1>. QED
  BY <1>1, <1>2, <1>3, <1>4, <1>5, <1>6 DEF Inv

(* And every step keeps it.                                                *)
LEMMA InvStep == Inv /\ [Next]_vars => Inv'
<1>. SUFFICES ASSUME Inv, [Next]_vars PROVE Inv'
  OBVIOUS
<1>. USE DEF Inv
<1>1. \A d \in Disputes : Effect(d)
  BY StepEffect
<1>2. TypeInv' /\ ClaimStanding' /\ ClaimsDiffer' /\ SnapshotStanding' /\ ListedChargebacks'
  BY TypeStep, ClaimStandingStep, ClaimsDifferStep, SnapshotStandingStep, ListedStep
<1>3. SettledOnce'
  BY <1>1, SettledStep DEF SettledOnce, Routed
<1>4. HeldMoney' /\ MerchantCharge'
  <2>1. ASSUME NEW d \in Disputes, Regular(d) PROVE HeldFor(d)' /\ ChargedFor(d)'
    <3>1. Settled(d)
      BY <2>1 DEF SettledOnce, Routed, Regular
    <3>2. HeldFor(d) /\ ChargedFor(d)
      BY <2>1 DEF HeldMoney, MerchantCharge, ChargedFor
    <3>. QED
      BY <1>1, <2>1, <3>1, <3>2, BooksStep DEF TypeInv, TypeOK
  <2>. QED
    BY <2>1 DEF HeldMoney, MerchantCharge, ChargedFor, Regular
<1>5. ResolvedIsTerminal'
  <2>. SUFFICES ASSUME NEW d \in Disputes PROVE resolved'[d] <=> state'[d] \in Terminal
    BY DEF ResolvedIsTerminal
  <2>1. Effect(d) /\ (resolved[d] <=> state[d] \in Terminal)
    BY <1>1 DEF ResolvedIsTerminal
  <2>. QED
    BY <2>1 DEF Effect, Untouched, Filed, Handled, Claimed, Released, Recorded, Reviewed,
       Answered, Expired, Ruled, Ended, Terminal, OnTheClock
<1>6. Announced' /\ DraftHasRun' /\ RulingStands'
  BY <1>1, AnnouncedStep, DraftStep, RulingStep DEF Announced, DraftHasRun, TypeInv
<1>7. AuditTrail' /\ EventsEnd'
  <2>1. ASSUME NEW d \in Disputes PROVE Trailed(trail'[d], state'[d])
    <3>1. Trailed(trail[d], state[d])
      BY DEF AuditTrail, EventsEnd, Trailed
    <3>. QED
      BY <1>1, <1>2, <3>1, TrailStep DEF TypeInv, TypeOK
  <2>. QED
    BY <2>1 DEF AuditTrail, EventsEnd, Trailed
<1>8. SentOnce'
  BY <1>1, SentStep DEF SentOnce, TypeInv
<1>9. RefundsFinite' /\ RefundsAddUp'
  BY RefundsStep
<1>. QED
  BY <1>2, <1>3, <1>4, <1>5, <1>6, <1>7, <1>8, <1>9

(* Inv holds throughout every behaviour.                                   *)
THEOREM Invariance == Spec => []Inv
<1>1. Init => Inv
  BY InvInit
<1>2. Inv /\ [Next]_vars => Inv'
  BY InvStep
<1>. QED
  BY <1>1, <1>2, PTL DEF Spec

(* Every column and every process variable keeps its type.                 *)
THEOREM TypesHold == Spec => []TypeOK
<1>1. Inv => TypeOK
  BY DEF Inv, TypeInv
<1>. QED
  BY <1>1, Invariance, PTL

(* disputes_payable holds exactly the amounts of the open chargebacks.     *)
THEOREM HeldMoneyHolds == Spec => []HeldMoney
<1>1. Inv => HeldMoney
  BY DEF Inv
<1>. QED
  BY <1>1, Invariance, PTL

(* What a dispute has cost its merchant follows from how it stands.        *)
THEOREM MerchantChargeHolds == Spec => []MerchantCharge
<1>1. Inv => MerchantCharge
  BY DEF Inv
<1>. QED
  BY <1>1, Invariance, PTL

(* refunded_minor on a charge is the sum of the refunds in the ledger, and *)
(* within what was captured, whichever workers race for the charge.        *)
THEOREM RefundsAddUpHolds == Spec => []RefundsAddUp
<1>1. Inv => RefundsAddUp
  BY DEF Inv
<1>. QED
  BY <1>1, Invariance, PTL

(* resolved_at is set in the terminal states and in no other.              *)
THEOREM ResolvedHolds == Spec => []ResolvedIsTerminal
<1>1. Inv => ResolvedIsTerminal
  BY DEF Inv
<1>. QED
  BY <1>1, Invariance, PTL

(* The outbox announces each arrival and each end once, and truly.         *)
THEOREM AnnouncedHolds == Spec => []Announced
<1>1. Inv => Announced
  BY DEF Inv
<1>. QED
  BY <1>1, Invariance, PTL

(* A dispute in front of a reviewer has a run to review.                   *)
THEOREM DraftHasRunHolds == Spec => []DraftHasRun
<1>1. Inv => DraftHasRun
  BY DEF Inv
<1>. QED
  BY <1>1, Invariance, PTL

(* A processed ruling is the one the dispute ended with.                   *)
THEOREM RulingStandsHolds == Spec => []RulingStands
<1>1. Inv => RulingStands
  BY DEF Inv
<1>. QED
  BY <1>1, Invariance, PTL

(* At most one claim per dispute stands, and what it will record is free   *)
(* to be recorded.                                                         *)
THEOREM ClaimGuardsHolds == Spec => []ClaimGuards
<1>1. Inv => ClaimGuards
  BY DEF Inv, ClaimStanding, ClaimsDiffer, ClaimGuards
<1>. QED
  BY <1>1, Invariance, PTL

(* A dispute before the network, or ruled on by it, has the one run that   *)
(* was submitted, whatever several reviewers decide on stale pages.        *)
THEOREM OneLetterHolds == Spec => []OneLetter
<1>1. Inv => OneLetter
  <2>. SUFFICES ASSUME Inv, NEW d \in Disputes
                PROVE  Cardinality(Sent(d)) =
                         IF state[d] \in {"represented", "won", "lost"} THEN 1 ELSE 0
    BY DEF OneLetter, Sent
  <2>. QED
    BY FS_EmptySet, FS_Singleton DEF Inv, SentOnce
<1>. QED
  BY <1>1, Invariance, PTL

(* The audit trail joins up and ends where the dispute is, whoever moved   *)
(* it and from whatever snapshot.                                          *)
THEOREM AuditTrailHolds == Spec => []AuditTrail
<1>1. Inv => AuditTrail
  BY DEF Inv
<1>. QED
  BY <1>1, Invariance, PTL

(* Only a hold brings a dispute into 'resolving', answered or not.         *)
LEMMA ClaimedByHold ==
  ASSUME TypeInv, [Next]_vars, NEW d \in Disputes, state[d] # "resolving", state'[d] = "resolving"
  PROVE  \E a \in Agents : AgentHold(a, d) \/ AgentHoldUnanswered(a, d)
<1>. USE DEF TypeInv, TypeOK, StoreTypeOK, Move
<1>1. ~IngestNext
  <2>1. ASSUME NEW e \in Deliveries, RecordDispute(e) PROVE FALSE
    BY <2>1, DeliveriesAssumption DEF RecordDispute
  <2>2. ASSUME NEW e \in Deliveries, RecordRuling(e) PROVE FALSE
    BY <2>2, DeliveriesAssumption DEF RecordRuling
  <2>. QED
    BY <2>1, <2>2 DEF IngestNext, RecordUnlinkable, RecordKnownDispute, RecordPrematureRuling,
       storeVars
<1>2. ~WorkerNext
  <2>1. ASSUME NEW w \in Workers, WorkerApply(w) PROVE FALSE
    BY <2>1 DEF WorkerApply, ToState
  <2>. QED
    BY <2>1 DEF WorkerNext, WorkerLoad, WorkerDecide, WorkerGiveUp, storeVars
<1>3. ~ReviewNext
  <2>1. ASSUME NEW r \in Reviewers, ReviewCommit(r) PROVE FALSE
    BY <2>1 DEF ReviewCommit
  <2>. QED
    BY <2>1 DEF ReviewNext, ReviewBegin, ReviewRollback, storeVars
<1>4. AgentNext
  BY <1>1, <1>2, <1>3 DEF Next, Tick, vars
<1>5. ASSUME NEW a \in Agents, NEW outcome \in Outcome, AgentRecord(a, outcome) PROVE FALSE
  BY <1>5 DEF AgentRecord, NextState
<1>6. ASSUME NEW a \in Agents, AgentRelease(a) PROVE FALSE
  BY <1>6 DEF AgentRelease
<1>7. PICK a \in Agents, e \in Disputes : AgentHold(a, e) \/ AgentHoldUnanswered(a, e)
  BY <1>4, <1>5, <1>6 DEF AgentNext, AgentList, AgentSkip, AgentClaimLost, AgentReleaseFails,
     AgentCrash, Leaves, storeVars
<1>8. e = d
  BY <1>7 DEF AgentHold, AgentHoldUnanswered, TakeHold
<1>. QED
  BY <1>7, <1>8

(* Whoever is to answer for a dispute in 'resolving'.                      *)
Holders == {claim[a] : a \in Agents} \cup dropped

(* A claim that stands is not let go: while its version stays, it is held  *)
(* or among the dropped.                                                   *)
LEMMA KeptOrDropped ==
  ASSUME Inv, [Next]_vars, NEW c \in Holders, c # Nil, c.version = version[c.dispute],
         version'[c.dispute] = version[c.dispute]
  PROVE  c \in Holders'
<1>1. /\ claim \in [Agents -> Claim \cup {Nil}] /\ version \in [Disputes -> Nat]
      /\ dropped \subseteq Claim
  BY DEF Inv, TypeInv, TypeOK, AgentTypeOK, StoreTypeOK
<1>2. CASE UNCHANGED <<claim, dropped>>
  BY <1>2 DEF Holders
<1>3. CASE AgentNext
  <2>1. PICK b \in Agents :
          \/ AgentList(b)
          \/ \E e \in Disputes : AgentHold(b, e) \/ AgentHoldUnanswered(b, e) \/ AgentSkip(b, e)
          \/ \E outcome \in Outcome : AgentRecord(b, outcome)
          \/ AgentRelease(b)
          \/ AgentClaimLost(b)
          \/ AgentReleaseFails(b)
          \/ AgentCrash(b)
    BY <1>3 DEF AgentNext
  <2>2. \A a \in Agents \ {b} : claim'[a] = claim[a]
    BY <1>1, <2>1 DEF AgentList, AgentHold, AgentHoldUnanswered, TakeHold, AgentSkip, AgentRecord,
       AgentRelease, AgentClaimLost, AgentReleaseFails, AgentCrash, Leaves
  <2>3. dropped \subseteq dropped'
    BY <2>1 DEF AgentList, AgentHold, AgentHoldUnanswered, TakeHold, AgentSkip, AgentRecord,
       AgentRelease, AgentClaimLost, AgentReleaseFails, AgentCrash, Leaves
  <2>4. CASE c = claim[b]
    <3>1. c.dispute \in Disputes /\ version[c.dispute] \in Nat
      BY <1>1, <2>4 DEF Claim
    <3>2. ASSUME NEW outcome \in Outcome, AgentRecord(b, outcome) PROVE FALSE
      BY <1>1, <2>4, <3>1, <3>2 DEF AgentRecord, Move
    <3>3. ~AgentRelease(b)
      BY <1>1, <2>4, <3>1 DEF AgentRelease, Move
    <3>4. claim'[b] = claim[b] \/ c \in dropped'
      BY <2>1, <2>4, <3>2, <3>3 DEF AgentList, AgentHold, AgentHoldUnanswered, TakeHold, AgentSkip,
         AgentClaimLost, AgentReleaseFails, AgentCrash, Leaves
    <3>. QED
      BY <2>4, <3>4 DEF Holders
  <2>5. CASE c # claim[b]
    BY <2>2, <2>3, <2>5 DEF Holders
  <2>. QED
    BY <2>4, <2>5
<1>. QED
  BY <1>2, <1>3 DEF Next, vars

(* And a claim that is made is somebody's, or dropped as it is made.       *)
LEMMA ReturnedStep ==
  ASSUME Inv, ClaimsReturned, [Next]_vars
  PROVE  ClaimsReturned'
<1>. SUFFICES ASSUME NEW d \in Disputes, state'[d] = "resolving"
              PROVE  \E c \in Holders' : c # Nil /\ c.dispute = d /\ c.version = version'[d]
  BY DEF ClaimsReturned, Holders
<1>1. Effect(d)
  BY StepEffect DEF Inv
<1>2. CASE state[d] = "resolving"
  <2>1. Untouched(d)
    BY <1>1, <1>2 DEF Effect, Filed, Handled, Claimed, Released, Recorded, Reviewed, Answered,
       Expired, Ruled, OnTheClock
  <2>2. PICK c \in Holders : c # Nil /\ c.dispute = d /\ c.version = version[d]
    BY <1>2 DEF ClaimsReturned, Holders
  <2>. QED
    BY <2>1, <2>2, KeptOrDropped DEF Untouched
<1>3. CASE state[d] # "resolving"
  <2>1. PICK a \in Agents : AgentHold(a, d) \/ AgentHoldUnanswered(a, d)
    BY <1>3, ClaimedByHold DEF Inv
  <2>2. Held(d) \in Holders'
    BY <2>1 DEF AgentHold, AgentHoldUnanswered, Holders, Inv, TypeInv, TypeOK, AgentTypeOK
  <2>3. Held(d).dispute = d /\ Held(d).version = version[d] + 1
    BY DEF Held
  <2>4. Held(d) # Nil
    <3>1. Held(d) \in Claim
      BY LenProperties DEF Held, Claim, Inv, TypeInv, TypeOK, StoreTypeOK
    <3>. QED
      BY <3>1, NoClaimAssumption
  <2>5. version'[d] = version[d] + 1
    BY <2>1 DEF AgentHold, AgentHoldUnanswered, TakeHold, Move, Inv, TypeInv, TypeOK, StoreTypeOK
  <2>. QED
    BY <2>2, <2>3, <2>4, <2>5
<1>. QED
  BY <1>2, <1>3

(* In 'resolving' there is an agent with a claim that stands, or one that  *)
(* was dropped: by a hold that was not answered, a release that failed or  *)
(* a crash, and by nothing else, for any number of agents and faults.      *)
THEOREM ClaimsReturnedHolds == Spec => []ClaimsReturned
<1>1. Init => ClaimsReturned
  BY DEF Init, StoreInit, ClaimsReturned
<1>2. Inv /\ ClaimsReturned /\ [Next]_vars => ClaimsReturned'
  BY ReturnedStep
<1>. QED
  BY <1>1, <1>2, Invariance, PTL DEF Spec

(* No step changes anything about a dispute that has ended.                *)
THEOREM TerminalFinalHolds == Spec => TerminalFinal
<1>1. Inv /\ [Next]_vars =>
        [\A d \in Disputes : state[d] \in Terminal =>
           UNCHANGED <<state[d], version[d], resolved[d], posted[d], books[d],
                       trail[d], outbox[d], runs[d]>>]_vars
  BY StepEffect, EndIsFinal DEF Inv, Untouched
<1>. QED
  BY <1>1, Invariance, PTL DEF Spec, TerminalFinal

-----------------------------------------------------------------------------
(* The writers implement DisputeLifecycle.                                 *)

(* Each effect on a routed dispute is a step of its lifecycle, or none.    *)
LEMMA EffectRefines ==
  ASSUME NEW d \in Disputes, Routed(d), Settled(d), Effect(d)
  PROVE  LET from == StageOf(state[d])
             to == StageOf(state'[d])
             cash == MoneyOf(posted'[d])
             alert == KindOf[d] # "chargeback"
         IN
         \/ from = to /\ cash = MoneyOf(posted[d])
         \/ from = "absent" /\ to = "open" /\ cash = IF alert THEN "untouched" ELSE "held"
         \/ alert /\ from = "open" /\ to = "refunded" /\ cash \in {"returned", "untouched"}
         \/ ~alert /\ from = "open" /\ to = "argued" /\ cash = "held"
         \/ from = "argued" /\ to = "won" /\ cash = "released"
         \/ from = "argued" /\ to = "lost" /\ cash = "forfeited"
         \/ from = "open" /\ to = "expired" /\ cash = IF alert THEN "untouched" ELSE "forfeited"
<1>. KindOf[d] \in Kind
  BY StoreAssumption
<1>. USE DEF StageOf, MoneyOf, OnTheClock, Open, Kind
<1>1. CASE Untouched(d)
  BY <1>1 DEF Untouched
<1>2. CASE Filed(d)
  BY <1>2 DEF Filed, Settled, Paid, NoMoney
<1>3. CASE Handled(d)
  BY <1>3 DEF Handled, Claimed, Released, Recorded, Reviewed, Settled, NoMoney
<1>4. CASE Answered(d)
  BY <1>4 DEF Answered, Settled, Paid, NoMoney
<1>5. CASE Expired(d)
  BY <1>5 DEF Expired, Settled, Paid, NoMoney
<1>6. CASE Ruled(d)
  BY <1>6 DEF Ruled, Settled, Paid
<1>. QED
  BY <1>1, <1>2, <1>3, <1>4, <1>5, <1>6 DEF Effect

(* One step changes one dispute.                                           *)
LEMMA OneAtATime ==
  ASSUME TypeInv, [Next]_vars
  PROVE  \/ UNCHANGED <<state, posted>>
         \/ \E d \in Disputes : \A x \in Disputes \ {d} : UNCHANGED <<state[x], posted[x]>>
<1>1. ASSUME NEW e \in Deliveries, RecordDispute(e) \/ RecordRuling(e)
      PROVE  \A x \in Disputes \ {e.dispute} : UNCHANGED <<state[x], posted[x]>>
  BY <1>1 DEF RecordDispute, HoldFunds, RecordRuling, Move, Post, PostNothing, TypeInv, TypeOK,
     StoreTypeOK
<1>2. CASE IngestNext
  BY <1>1, <1>2, DeliveriesAssumption DEF IngestNext, RecordUnlinkable, RecordKnownDispute,
     RecordPrematureRuling, storeVars
<1>3. CASE WorkerNext
  <2>1. ASSUME NEW w \in Workers, WorkerApply(w)
        PROVE  /\ worker[w].dispute \in Disputes
               /\ \A x \in Disputes \ {worker[w].dispute} : UNCHANGED <<state[x], posted[x]>>
    BY <2>1 DEF WorkerApply, Move, ApplyMoney, Post, PostNothing, TypeInv, TypeOK, StoreTypeOK,
       WorkerTypeOK, Snapshot
  <2>. QED
    BY <1>3, <2>1 DEF WorkerNext, WorkerLoad, WorkerDecide, WorkerGiveUp, storeVars
<1>4. CASE AgentNext
  <2>1. ASSUME NEW a \in Agents, NEW outcome \in Outcome,
               AgentRecord(a, outcome) \/ AgentRelease(a)
        PROVE  /\ claim[a].dispute \in Disputes
               /\ \A x \in Disputes \ {claim[a].dispute} : UNCHANGED <<state[x], posted[x]>>
    BY <2>1 DEF AgentRecord, AgentRelease, Move, TypeInv, TypeOK, StoreTypeOK, AgentTypeOK, Claim
  <2>2. ASSUME NEW a \in Agents, AgentRelease(a)
        PROVE  /\ claim[a].dispute \in Disputes
               /\ \A x \in Disputes \ {claim[a].dispute} : UNCHANGED <<state[x], posted[x]>>
    BY <2>2 DEF AgentRelease, Move, TypeInv, TypeOK, StoreTypeOK, AgentTypeOK, Claim
  <2>3. ASSUME NEW a \in Agents, NEW d \in Disputes, TakeHold(a, d)
        PROVE  \A x \in Disputes \ {d} : UNCHANGED <<state[x], posted[x]>>
    BY <2>3 DEF TakeHold, Move, TypeInv, TypeOK, StoreTypeOK
  <2>. QED
    BY <1>4, <2>1, <2>2, <2>3 DEF AgentNext, AgentList, AgentHold, AgentHoldUnanswered, AgentSkip,
       AgentClaimLost, AgentReleaseFails, AgentCrash, Leaves, storeVars
<1>5. CASE ReviewNext
  <2>1. ASSUME NEW r \in Reviewers, ReviewCommit(r)
        PROVE  /\ review[r].dispute \in Disputes
               /\ \A x \in Disputes \ {review[r].dispute} : UNCHANGED <<state[x], posted[x]>>
    BY <2>1 DEF ReviewCommit, Move, TypeInv, TypeOK, StoreTypeOK, ReviewTypeOK, Decided
  <2>. QED
    BY <1>5, <2>1 DEF ReviewNext, ReviewBegin, ReviewRollback, storeVars
<1>. QED
  BY <1>2, <1>3, <1>4, <1>5 DEF Next, vars, Tick

(* If no operator passes an alert to -dispute, every behaviour of the      *)
(* writers is one of the lifecycle: each dispute is settled once, by an    *)
(* event that may settle it, with its money following.                     *)
THEOREM Refinement ==
  ASSUME \A d \in Disputes : Routed(d)
  PROVE  Spec => KeepsPromise
<1>1. Init => Lifecycle!Init
  BY DEF Init, StoreInit, Lifecycle!Init, StageOf, MoneyOf, OnTheClock
<1>2. Inv /\ [Next]_vars => [Lifecycle!Next]_Lifecycle!vars
  <2>. SUFFICES ASSUME Inv, [Next]_vars PROVE [Lifecycle!Next]_Lifecycle!vars
    OBVIOUS
  <2>. DEFINE stage == [d \in Disputes |-> StageOf(state[d])]
              money == [d \in Disputes |-> MoneyOf(posted[d])]
  <2>1. CASE UNCHANGED <<state, posted>>
    BY <2>1 DEF Lifecycle!vars
  <2>2. ASSUME NEW d \in Disputes,
               \A x \in Disputes \ {d} : UNCHANGED <<state[x], posted[x]>>
        PROVE  [Lifecycle!Next]_Lifecycle!vars
    <3>. DEFINE to == StageOf(state'[d])
                cash == MoneyOf(posted'[d])
    <3>1. /\ stage' = [stage EXCEPT ![d] = to]
          /\ money' = [money EXCEPT ![d] = cash]
      BY <2>2
    <3>2. stage[d] = StageOf(state[d]) /\ money[d] = MoneyOf(posted[d])
      OBVIOUS
    <3>3. Effect(d) /\ Settled(d)
      BY StepEffect DEF Inv, SettledOnce
    <3>4. CASE to = StageOf(state[d]) /\ cash = MoneyOf(posted[d])
      BY <3>1, <3>2, <3>4 DEF Lifecycle!vars
    <3>5. CASE ~(to = StageOf(state[d]) /\ cash = MoneyOf(posted[d]))
      BY <3>1, <3>2, <3>3, <3>5, EffectRefines
      DEF Lifecycle!Next, Lifecycle!File, Lifecycle!Answer, Lifecycle!Argue, Lifecycle!Win,
          Lifecycle!Lose, Lifecycle!Expire, Lifecycle!Step, Lifecycle!Chargeback
    <3>. QED
      BY <3>4, <3>5
  <2>. QED
    BY <2>1, <2>2, OneAtATime DEF Inv
<1>. QED
  BY <1>1, <1>2, Invariance, PTL DEF Spec, KeepsPromise, Lifecycle!Spec
=============================================================================
