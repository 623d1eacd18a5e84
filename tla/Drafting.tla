------------------------------- MODULE Drafting ------------------------------
(***************************************************************************)
(* One dispute in the hands of the drafting agent (internal/agent:         *)
(* Assist and attempt in assist.go, toolcall.go, generate.go, verify.go,   *)
(* store.go; cmd/agent): the claim, the two model calls under a ceiling of *)
(* cost, and the run that is recorded.  How the record is put together is  *)
(* FactSource's subject, and races for the claim are AgentRuns'; here the  *)
(* deadline and a reviewer move the dispute while files are uploaded.      *)
(***************************************************************************)
EXTENDS Integers, FiniteSets

CONSTANTS
  Files,         (* the files there may be on the dispute                   *)
  Invented,      (* a file a letter cites and nobody uploaded               *)
  MaxAttempts,   (* AssistantOptions.MaxAttempts                            *)
  Ceiling,       (* AssistantOptions.MaxCostMicros, 0 for none              *)
  FixedPrice,    (* what the system prompt and the schema cost to send      *)
  Prices,        (* what one model call may turn out to cost                *)
  MaxPrice,      (* and at most                                             *)
  MaxRuns,       (* bound: runs recorded                                    *)
  MaxReturns,    (* bound: drafts a reviewer discards                       *)
  MaxFaults,     (* bound: calls that fail                                  *)
  None

ASSUME DraftingAssumption ==
  /\ IsFiniteSet(Files) /\ Invented \notin Files
  /\ MaxAttempts \in Nat \ {0}
  /\ Ceiling \in Nat /\ FixedPrice \in Nat
  /\ MaxPrice \in Nat /\ Prices \subseteq 0..MaxPrice
  /\ MaxRuns \in Nat /\ MaxReturns \in Nat /\ MaxFaults \in Nat

VARIABLES
  state, version, (* the dispute's row                                      *)
  attempts,      (* agent_runs of the dispute: how many                     *)
  spent,         (* the sum of their cost_micros                            *)
  last,          (* the latest of them, None before the first               *)
  bucket,        (* the files on the dispute                                *)
  claim,         (* the Claim of the run under way, None without            *)
  record,        (* the files its record lists, None before it is assembled *)
  draft,         (* what the generator answered, None before                *)
  run,           (* the Run being produced                                  *)
  stage,         (* how far the run is                                      *)
  billed,        (* what the provider has charged for the dispute           *)
  returns, faults

vars == <<state, version, attempts, spent, last, bucket, claim, record, draft, run, stage,
          billed, returns, faults>>

rowVars == <<state, version, returns>>

Outcome == {"drafted", "rejected", "insufficient_evidence", "budget_exceeded"}

Recommendation == {"represent", "insufficient_evidence"}

Run == [outcome : Outcome \cup {None}, recommendation : Recommendation \cup {None},
        letter : SUBSET (Files \cup {Invented}), findings : BOOLEAN, judged : BOOLEAN,
        cost : Nat, escalated : BOOLEAN]

Draft == [recommendation : Recommendation, cited : SUBSET (Files \cup {Invented}),
          named : SUBSET Files]

Claim == [version : Nat, attempt : Nat, spent : Nat]

ASSUME NoneAssumption ==
  /\ None \notin Run /\ None \notin Draft /\ None \notin Claim
  /\ None \notin Outcome /\ None \notin Recommendation
  /\ \A files \in SUBSET Files : files # None

NewRun == [outcome |-> None, recommendation |-> None, letter |-> {}, findings |-> FALSE,
           judged |-> FALSE, cost |-> 0, escalated |-> FALSE]

TypeOK ==
  /\ state \in {"received", "resolving", "draft_ready", "expired", "represented"}
  /\ version \in Nat /\ attempts \in Nat /\ spent \in Nat
  /\ last \in Run \cup {None}
  /\ bucket \subseteq Files
  /\ claim \in Claim \cup {None}
  /\ record \in (SUBSET Files) \cup {None}
  /\ draft \in Draft \cup {None}
  /\ run \in Run
  /\ stage \in {"idle", "held", "ready", "written", "finished"}
  /\ stage # "idle" <=> claim # None
  /\ billed \in Nat /\ returns \in Nat /\ faults \in Nat

Init ==
  /\ state = "received" /\ version = 0
  /\ attempts = 0 /\ spent = 0 /\ last = None
  /\ bucket = {}
  /\ claim = None /\ record = None /\ draft = None /\ run = NewRun
  /\ stage = "idle"
  /\ billed = 0 /\ returns = 0 /\ faults = 0

MoveTo(to) == state' = to /\ version' = version + 1

Fault == faults < MaxFaults /\ faults' = faults + 1

-----------------------------------------------------------------------------
(* The claim.                                                              *)

(* A seeded bug: every run has the ceiling to itself.                      *)
NothingSpent == 0

(* SpentMicros.                                                            *)
SpentBefore == spent

(* Hold.  Candidates stop at MaxAttempts, -dispute does not.               *)
Hold ==
  /\ stage = "idle"
  /\ state = "received"
  /\ attempts < MaxRuns
  /\ MoveTo("resolving")
  /\ claim' = [version |-> version + 1, attempt |-> attempts + 1, spent |-> SpentBefore]
  /\ stage' = "held"
  /\ UNCHANGED <<attempts, spent, last, bucket, record, draft, run, billed, returns, faults>>

(* The row is held and the answer does not arrive: nobody has the claim.   *)
HoldFails ==
  /\ stage = "idle"
  /\ state = "received"
  /\ Fault
  /\ MoveTo("resolving")
  /\ UNCHANGED <<attempts, spent, last, bucket, claim, record, draft, run, stage, billed, returns>>

ClaimStands == version = claim.version

LetGo ==
  /\ claim' = None /\ stage' = "idle"
  /\ record' = None /\ draft' = None /\ run' = NewRun

(* Release after a fault: nothing is recorded, and the dispute goes back,  *)
(* unless it has moved on, or the release fails as well.                   *)
Release ==
  /\ LetGo
  /\ \/ ClaimStands /\ MoveTo("received")
     \/ UNCHANGED <<state, version>>
  /\ UNCHANGED <<attempts, spent, last, bucket, returns>>

(* FactSource.For.                                                         *)
Assemble ==
  /\ stage = "held"
  /\ record' = bucket
  /\ stage' = "ready"
  /\ UNCHANGED <<rowVars, attempts, spent, last, bucket, claim, draft, run, billed, faults>>

AssembleFails ==
  /\ stage = "held"
  /\ Fault
  /\ Release
  /\ UNCHANGED billed

-----------------------------------------------------------------------------
(* The ceiling.                                                            *)

OverBudget(micros) == Ceiling > 0 /\ micros >= Ceiling

(* EstimateInputMicros: the record is priced by its length.                *)
Estimate == FixedPrice + Cardinality(record)

LastAttempt == claim.attempt >= MaxAttempts

Finish(r) ==
  /\ run' = r
  /\ stage' = "finished"
  /\ UNCHANGED <<rowVars, attempts, spent, last, bucket, claim, record, faults>>

GiveUpOnBudget(r) ==
  Finish([r EXCEPT !.outcome = "budget_exceeded", !.recommendation = None,
                   !.escalated = LastAttempt])

RefuseBeforehand ==
  /\ stage = "ready"
  /\ OverBudget(claim.spent + Estimate)
  /\ GiveUpOnBudget(run)
  /\ UNCHANGED <<draft, billed>>

-----------------------------------------------------------------------------
(* The generator.                                                          *)

(* CheckCitations: a cited file is on the record, and a file of the record *)
(* that the letter names is cited.                                         *)
BadCitations(d) == ~(d.cited \subseteq record) \/ ~(d.named \subseteq d.cited)

Bill(price) == billed' = billed + price

Rejected(r) ==
  Finish([r EXCEPT !.outcome = "rejected", !.findings = TRUE, !.escalated = LastAttempt])

Written(d, price) ==
  LET r == [run EXCEPT !.cost = @ + price, !.recommendation = d.recommendation,
                       !.letter = d.cited] IN
  /\ Bill(price)
  /\ draft' = d
  /\ \/ BadCitations(d) /\ Rejected(r)
     \/ ~BadCitations(d) /\ OverBudget(claim.spent + r.cost) /\ GiveUpOnBudget(r)
     \/ /\ ~BadCitations(d) /\ ~OverBudget(claim.spent + r.cost)
        /\ run' = r
        /\ stage' = "written"
        /\ UNCHANGED <<rowVars, attempts, spent, last, bucket, claim, record, faults>>

MayGenerate == stage = "ready" /\ ~OverBudget(claim.spent + Estimate)

Generate ==
  /\ MayGenerate
  /\ \E price \in Prices, d \in [recommendation : Recommendation,
                                 cited : SUBSET (record \cup {Invented}),
                                 named : SUBSET record] :
       Written(d, price)

(* The call failed, or was paid for and is of no use: truncated, no call   *)
(* of the tool, unreadable, an unknown recommendation.                     *)
GenerateFails ==
  /\ MayGenerate
  /\ Fault
  /\ \E price \in Prices \cup {0} : Bill(price)
  /\ Release

-----------------------------------------------------------------------------
(* The verifier, over the same record.                                     *)

(* A seeded bug: the model's word for it is enough.                        *)
TakesItsWord(pass, findings) == pass

(* Verdict.Approved.                                                       *)
Approved(pass, findings) == pass /\ ~findings

Judged(r, pass, findings) ==
  IF Approved(pass, findings)
  THEN Finish([r EXCEPT !.outcome =
         IF draft.recommendation = "represent" THEN "drafted" ELSE "insufficient_evidence"])
  ELSE Finish([r EXCEPT !.outcome = "rejected", !.escalated = LastAttempt])

Verify ==
  /\ stage = "written"
  /\ \E price \in Prices, pass, findings \in BOOLEAN :
       /\ Bill(price)
       /\ Judged([run EXCEPT !.cost = @ + price, !.judged = TRUE, !.findings = findings],
                 pass, findings)
  /\ UNCHANGED draft

VerifyFails ==
  /\ stage = "written"
  /\ Fault
  /\ \E price \in Prices \cup {0} : Bill(price)
  /\ Release

-----------------------------------------------------------------------------
(* Record: the run and the dispute's move in one transaction.              *)

NextState(r) ==
  IF r.escalated \/ r.outcome \in {"drafted", "insufficient_evidence"}
  THEN "draft_ready" ELSE "received"

(* A seeded bug: the cost of a run is recorded when it led to a draft.     *)
CostOfDraft(r) == IF r.outcome = "drafted" THEN r.cost ELSE 0

CostOf(r) == r.cost

Record ==
  /\ stage = "finished"
  /\ ClaimStands
  /\ attempts' = attempts + 1
  /\ spent' = spent + CostOf(run)
  /\ last' = run
  /\ MoveTo(NextState(run))
  /\ LetGo
  /\ UNCHANGED <<bucket, billed, returns, faults>>

(* Rolled back: the claim is lost, or the call failed.  If it was only the *)
(* answer that failed, this was Record, and the release finds no claim.    *)
RecordFails ==
  /\ stage = "finished"
  /\ IF ClaimStands THEN Fault ELSE UNCHANGED faults
  /\ Release
  /\ UNCHANGED billed

-----------------------------------------------------------------------------
(* Around the agent: the deadline, a reviewer, an upload.                  *)

Expire ==
  /\ state \in {"received", "resolving", "draft_ready"}
  /\ MoveTo("expired")
  /\ UNCHANGED returns

Submit ==
  /\ state = "draft_ready"
  /\ MoveTo("represented")
  /\ UNCHANGED returns

Discard ==
  /\ state = "draft_ready"
  /\ returns < MaxReturns
  /\ MoveTo("received")
  /\ returns' = returns + 1

Overtake ==
  /\ Expire \/ Submit \/ Discard
  /\ UNCHANGED <<attempts, spent, last, bucket, claim, record, draft, run, stage, billed, faults>>

Upload ==
  /\ \E file \in Files \ bucket : bucket' = bucket \cup {file}
  /\ UNCHANGED <<rowVars, attempts, spent, last, claim, record, draft, run, stage, billed, faults>>

Next ==
  \/ Hold \/ HoldFails \/ Assemble \/ AssembleFails
  \/ RefuseBeforehand \/ Generate \/ GenerateFails \/ Verify \/ VerifyFails
  \/ Record \/ RecordFails
  \/ Overtake \/ Upload

Spec == Init /\ [][Next]_vars

-----------------------------------------------------------------------------
(* What the runs of a dispute record of spending stays below the ceiling   *)
(* but for one call, over all its attempts and whatever a reviewer sends   *)
(* back: no call is begun that the ceiling already forbids, and no attempt *)
(* starts from nothing.                                                    *)
CeilingHolds == Ceiling > 0 => spent + run.cost < Ceiling + MaxPrice

(* A letter before a reviewer was read by the verifier without a finding   *)
(* and cites only files on the dispute, or comes with the attempts used    *)
(* up; a recommendation was read by the verifier or comes with findings.   *)
Checked ==
  state = "draft_ready" =>
    /\ last # None
    /\ last.outcome \in {"drafted", "insufficient_evidence"} =>
         last.judged /\ ~last.findings /\ last.letter \subseteq bucket
    /\ last.outcome \in {"rejected", "budget_exceeded"} =>
         last.escalated /\ attempts >= MaxAttempts
    /\ last.recommendation # None => last.judged \/ last.findings

(* Until a call fails or a claim is lost, what was charged is on record.   *)
Accounted == faults = 0 /\ state # "expired" => billed = spent + run.cost
=============================================================================
