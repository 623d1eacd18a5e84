--------------------------- MODULE DraftingProofs ----------------------------
(***************************************************************************)
(* Proofs about Drafting, for any files, prices, ceiling and bounds.       *)
(***************************************************************************)
EXTENDS Drafting, FiniteSetTheorems, TLAPS

-----------------------------------------------------------------------------
(* The invariant, by parts.                                                *)

RowTyped ==
  /\ state \in {"received", "resolving", "draft_ready", "expired", "represented"}
  /\ version \in Nat /\ attempts \in Nat /\ spent \in Nat
  /\ last \in Run \cup {None}
  /\ bucket \subseteq Files
  /\ billed \in Nat /\ returns \in Nat /\ faults \in Nat

HandTyped ==
  /\ claim \in Claim \cup {None}
  /\ record \in (SUBSET Files) \cup {None}
  /\ draft \in Draft \cup {None}
  /\ run \in Run
  /\ stage \in {"idle", "held", "ready", "written", "finished"}
  /\ stage # "idle" <=> claim # None

LEMMA Parts == TypeOK <=> RowTyped /\ HandTyped
BY DEF TypeOK, RowTyped, HandTyped

(* A claim knows what was spent before it.  It stands, and the dispute is  *)
(* being resolved, or the deadline has taken the dispute away.             *)
ClaimKnows ==
  claim # None =>
    /\ claim.spent = spent /\ claim.attempt = attempts + 1
    /\ \/ claim.version = version /\ state = "resolving"
       \/ claim.version < version /\ state = "expired"

(* A run has cost nothing before the first call, and once the letter is    *)
(* written there is money left for reading it.                             *)
Costs ==
  /\ stage \notin {"written", "finished"} => run = NewRun
  /\ Ceiling > 0 =>
       /\ spent < Ceiling + MaxPrice
       /\ stage = "written" => spent + run.cost < Ceiling
       /\ stage = "finished" => spent + run.cost < Ceiling + MaxPrice

(* What may be recorded.                                                   *)
Sound(r, files) ==
  /\ r.outcome \in Outcome
  /\ r.outcome \in {"drafted", "insufficient_evidence"} =>
       r.judged /\ ~r.findings /\ r.letter \subseteq files
  /\ r.escalated => LastAttempt
  /\ r.recommendation # None => r.judged \/ r.findings

Evidence ==
  /\ stage \in {"ready", "written"} => record # None
  /\ record # None => record \subseteq bucket
  /\ stage = "written" => draft # None /\ run.letter \subseteq record
  /\ stage = "written" => run.outcome = None /\ ~run.escalated
  /\ stage = "finished" => Sound(run, bucket)

IInv == TypeOK /\ ClaimKnows /\ Costs /\ Evidence /\ Checked /\ Accounted

LEMMA NewRunTyped == NewRun \in Run /\ NewRun.cost = 0
BY DEF NewRun, Run

LEMMA InitInv == Init => IInv
<1> SUFFICES ASSUME Init PROVE IInv
  OBVIOUS
<1>1. TypeOK
  BY NewRunTyped DEF Init, TypeOK
<1>2. ClaimKnows /\ Evidence /\ Checked
  BY DEF Init, ClaimKnows, Evidence, Checked
<1>3. Costs /\ Accounted
  BY NewRunTyped, DraftingAssumption DEF Init, Costs, Accounted
<1> QED BY <1>1, <1>2, <1>3 DEF IInv

(* The ceiling: between calls by Costs, in the middle of one all the more. *)
LEMMA InvCeiling == IInv => CeilingHolds
<1> SUFFICES ASSUME IInv, Ceiling > 0 PROVE spent + run.cost < Ceiling + MaxPrice
  BY DEF CeilingHolds
<1>1. /\ spent \in Nat /\ run.cost \in Nat /\ Ceiling \in Nat /\ MaxPrice \in Nat
      /\ NewRun.cost = 0
  BY Parts, DraftingAssumption DEF IInv, RowTyped, HandTyped, Run, NewRun
<1> QED BY <1>1 DEF IInv, Costs

-----------------------------------------------------------------------------
(* Taking hold and letting go.                                             *)

LEMMA HoldStep ==
  ASSUME IInv, Hold
  PROVE  IInv'
<1>1. /\ stage = "idle" /\ stage' = "held" /\ state = "received" /\ state' = "resolving"
      /\ version' = version + 1
      /\ claim' = [version |-> version + 1, attempt |-> attempts + 1, spent |-> spent]
      /\ UNCHANGED <<attempts, spent, last, bucket, record, draft, run, billed, returns, faults>>
  BY DEF Hold, MoveTo, SpentBefore
<1>2. claim' \in Claim
  BY <1>1, Parts DEF IInv, RowTyped, Claim
<1>3. TypeOK'
  BY <1>1, <1>2, NoneAssumption DEF IInv, TypeOK
<1>4. ClaimKnows'
  BY <1>1, Parts DEF IInv, RowTyped, ClaimKnows
<1>5. Costs' /\ Evidence' /\ Checked' /\ Accounted'
  BY <1>1 DEF IInv, Costs, Evidence, Checked, Accounted
<1> QED BY <1>3, <1>4, <1>5 DEF IInv

LEMMA HoldFailsStep ==
  ASSUME IInv, HoldFails
  PROVE  IInv'
<1>1. /\ stage = "idle" /\ state' = "resolving" /\ version' = version + 1 /\ faults' = faults + 1
      /\ UNCHANGED <<attempts, spent, last, bucket, claim, record, draft, run, stage, billed,
                     returns>>
  BY DEF HoldFails, MoveTo, Fault
<1>2. claim = None
  BY <1>1 DEF IInv, TypeOK
<1>3. TypeOK'
  BY <1>1 DEF IInv, TypeOK
<1>4. ClaimKnows' /\ Costs' /\ Evidence'
  BY <1>1, <1>2 DEF IInv, ClaimKnows, Costs, Evidence
<1>5. Checked'
  BY <1>1 DEF Checked
<1>6. faults \in Nat
  BY Parts DEF IInv, RowTyped
<1>7. Accounted'
  BY <1>1, <1>6 DEF Accounted
<1> QED BY <1>3, <1>4, <1>5, <1>7 DEF IInv

LEMMA LetGoTyped ==
  ASSUME LetGo
  PROVE  HandTyped' /\ ClaimKnows' /\ Evidence' /\ run'.cost = 0
<1>1. /\ claim' = None /\ stage' = "idle" /\ record' = None /\ draft' = None
      /\ run' = NewRun
  BY DEF LetGo
<1> QED BY <1>1, NewRunTyped DEF HandTyped, ClaimKnows, Evidence

(* A fault costs what the provider charged, and the dispute is handed back *)
(* if it is still there.                                                   *)
LEMMA ReleaseStep ==
  ASSUME IInv, stage # "idle", Release, billed' \in Nat,
         Fault \/ (~ClaimStands /\ UNCHANGED faults)
  PROVE  IInv'
<1>0. RowTyped /\ claim # None
  BY Parts DEF IInv, HandTyped
<1>1. /\ UNCHANGED <<attempts, spent, last, bucket, returns>>
      /\ \/ ClaimStands /\ state' = "received" /\ version' = version + 1
         \/ UNCHANGED <<state, version>>
      /\ LetGo /\ stage' = "idle" /\ run' = NewRun
  BY DEF Release, MoveTo, LetGo
<1>2. RowTyped'
  BY <1>0, <1>1 DEF RowTyped, Fault
<1>3. Costs'
  BY <1>1 DEF IInv, Costs
<1>4. Checked'
  BY <1>1 DEF IInv, Checked
<1>5. Accounted'
  <2>1. CASE Fault
    BY <1>0, <2>1 DEF Fault, RowTyped, Accounted
  <2>2. CASE ~ClaimStands
    <3>1. state = "expired"
      BY <1>0, <2>2 DEF IInv, ClaimKnows, ClaimStands
    <3> QED BY <1>1, <2>2, <3>1 DEF Accounted
  <2> QED BY <2>1, <2>2
<1> QED BY <1>1, <1>2, <1>3, <1>4, <1>5, LetGoTyped, Parts DEF IInv, TypeOK, RowTyped, HandTyped

LEMMA AssembleStep ==
  ASSUME IInv, Assemble
  PROVE  IInv'
<1>1. /\ stage = "held" /\ stage' = "ready" /\ record' = bucket
      /\ UNCHANGED <<state, version, returns, attempts, spent, last, bucket, claim, draft, run,
                     billed, faults>>
  BY DEF Assemble, rowVars
<1>2. bucket \in SUBSET Files /\ bucket # None
  BY Parts, NoneAssumption DEF IInv, RowTyped
<1>3. TypeOK'
  BY <1>1, <1>2 DEF IInv, TypeOK
<1>4. ClaimKnows' /\ Costs' /\ Checked' /\ Accounted'
  BY <1>1 DEF IInv, ClaimKnows, Costs, Checked, Accounted
<1>5. Evidence'
  BY <1>1, <1>2 DEF Evidence
<1> QED BY <1>3, <1>4, <1>5 DEF IInv

-----------------------------------------------------------------------------
(* A run, as the calls fill it in.                                         *)

LEMMA RunRejected ==
  ASSUME NEW r \in Run, NEW final \in BOOLEAN
  PROVE  LET g == [r EXCEPT !.outcome = "rejected", !.findings = TRUE, !.escalated = final]
         IN /\ g \in Run /\ g.cost = r.cost /\ g.outcome = "rejected" /\ g.findings = TRUE
            /\ g.escalated = final
BY DEF Run, Outcome

LEMMA RunRefused ==
  ASSUME NEW r \in Run, NEW final \in BOOLEAN
  PROVE  LET g == [r EXCEPT !.outcome = "rejected", !.escalated = final]
         IN /\ g \in Run /\ g.cost = r.cost /\ g.outcome = "rejected" /\ g.judged = r.judged
            /\ g.escalated = final
BY DEF Run, Outcome

-----------------------------------------------------------------------------
(* Finishing a run.                                                        *)

(* What a claim may spend, in terms of what is recorded.                   *)
LEMMA Budget ==
  ASSUME IInv, claim # None, NEW micros \in Nat
  PROVE  /\ claim.spent = spent /\ spent \in Nat /\ Ceiling \in Nat /\ MaxPrice \in Nat
         /\ OverBudget(claim.spent + micros) <=> Ceiling > 0 /\ spent + micros >= Ceiling
BY Parts, DraftingAssumption DEF IInv, RowTyped, ClaimKnows, OverBudget

LEMMA EstimateTyped ==
  ASSUME IInv, record # None
  PROVE  Estimate \in Nat
<1>1. record \in SUBSET Files
  BY Parts DEF IInv, HandTyped
<1>2. IsFiniteSet(record)
  BY <1>1, DraftingAssumption, FS_Subset
<1>3. Cardinality(record) \in Nat
  BY <1>2, FS_CardinalityType
<1> QED BY <1>3, DraftingAssumption DEF Estimate

(* A run that is sound, within the ceiling and paid for may be finished.   *)
LEMMA FinishStep ==
  ASSUME IInv, stage \in {"ready", "written"}, NEW r \in Run, Finish(r),
         billed' \in Nat, draft' \in Draft \cup {None},
         Sound(r, bucket), Ceiling > 0 => spent + r.cost < Ceiling + MaxPrice,
         Accounted => (faults = 0 /\ state # "expired" => billed' = spent + r.cost)
  PROVE  IInv'
<1>1. /\ run' = r /\ stage' = "finished"
      /\ UNCHANGED <<state, version, returns, attempts, spent, last, bucket, claim, record,
                     faults>>
  BY DEF Finish, rowVars
<1>2. TypeOK'
  BY <1>1 DEF IInv, TypeOK
<1>3. Sound(r, bucket)'
  BY <1>1 DEF Sound, LastAttempt
<1>4. Evidence'
  BY <1>1, <1>3 DEF IInv, Evidence, Sound, LastAttempt
<1>5. ClaimKnows' /\ Costs' /\ Checked'
  BY <1>1 DEF IInv, ClaimKnows, Costs, Checked
<1>6. Accounted'
  BY <1>1 DEF IInv, Accounted
<1> QED BY <1>2, <1>4, <1>5, <1>6 DEF IInv

(* Giving up on the budget recommends nothing, and is for a person only    *)
(* when the attempts are used up.                                          *)
LEMMA GivenUp ==
  ASSUME NEW r \in Run, NEW files
  PROVE  LET g == [r EXCEPT !.outcome = "budget_exceeded", !.recommendation = None,
                            !.escalated = LastAttempt]
         IN g \in Run /\ Sound(g, files) /\ g.cost = r.cost
<1> DEFINE g == [r EXCEPT !.outcome = "budget_exceeded", !.recommendation = None,
                          !.escalated = LastAttempt]
<1>1. LastAttempt \in BOOLEAN
  BY DEF LastAttempt
<1>2. g \in Run
  BY <1>1 DEF Run, Outcome
<1>3. /\ g.outcome = "budget_exceeded" /\ g.recommendation = None
      /\ g.escalated = LastAttempt /\ g.cost = r.cost
  BY DEF Run
<1> QED BY <1>2, <1>3 DEF Sound, Outcome

LEMMA RefuseStep ==
  ASSUME IInv, RefuseBeforehand
  PROVE  IInv'
<1> DEFINE g == [run EXCEPT !.outcome = "budget_exceeded", !.recommendation = None,
                            !.escalated = LastAttempt]
<1>1. /\ stage = "ready" /\ Finish(g) /\ draft' = draft /\ billed' = billed
  BY DEF RefuseBeforehand, GiveUpOnBudget
<1>2. run \in Run /\ run = NewRun /\ draft \in Draft \cup {None} /\ billed \in Nat
      /\ spent \in Nat
  BY <1>1, Parts DEF IInv, HandTyped, RowTyped, Costs
<1>3. g \in Run /\ Sound(g, bucket) /\ g.cost = 0
  <2>1. g \in Run /\ Sound(g, bucket) /\ g.cost = run.cost
    BY <1>2, GivenUp
  <2> QED BY <1>2, <2>1, NewRunTyped
<1>4. Ceiling > 0 => spent + 0 < Ceiling + MaxPrice
  BY <1>2 DEF IInv, Costs
<1>5. Accounted => (faults = 0 /\ state # "expired" => billed = spent + 0)
  BY <1>2, NewRunTyped DEF Accounted
<1> HIDE DEF g
<1> QED BY <1>1, <1>2, <1>3, <1>4, <1>5, FinishStep

-----------------------------------------------------------------------------
(* The model calls.                                                        *)

LEMMA Priced ==
  ASSUME NEW price \in Prices
  PROVE  price \in Nat /\ price <= MaxPrice
BY DraftingAssumption

(* The generator's answer is cited from the record, or rejected.           *)
LEMMA GenerateStep ==
  ASSUME IInv, Generate
  PROVE  IInv'
<1>1. PICK price \in Prices,
           d \in [recommendation : Recommendation, cited : SUBSET (record \cup {Invented}),
                  named : SUBSET record] :
        Written(d, price)
  BY DEF Generate
<1>2. stage = "ready" /\ ~OverBudget(claim.spent + Estimate)
  BY DEF Generate, MayGenerate
<1>3. /\ record # None /\ record \in SUBSET Files /\ claim # None
      /\ run = NewRun /\ record \subseteq bucket
  BY <1>2, Parts DEF IInv, HandTyped, Costs, Evidence
<1>4. price \in Nat /\ price <= MaxPrice
  BY Priced
<1>5. spent \in Nat /\ billed \in Nat /\ MaxPrice \in Nat /\ Ceiling \in Nat
  BY Parts, DraftingAssumption DEF IInv, RowTyped
<1>6. Ceiling > 0 => spent + price < Ceiling + MaxPrice
  BY <1>2, <1>3, <1>4, <1>5, EstimateTyped, Budget
<1>7. d \in Draft
  BY <1>3 DEF Draft
<1> DEFINE r == [run EXCEPT !.cost = @ + price, !.recommendation = d.recommendation,
                            !.letter = d.cited]
<1>8. /\ r \in Run /\ r.cost = price /\ r.outcome = None /\ r.findings = FALSE
      /\ r.judged = FALSE /\ r.escalated = FALSE /\ r.letter = d.cited
  <2>1. /\ NewRun.outcome = None /\ NewRun.findings = FALSE /\ NewRun.judged = FALSE
        /\ NewRun.escalated = FALSE
    BY DEF NewRun
  <2>2. run \in Run /\ run.cost + price = price /\ run.cost + price \in Nat
    BY <1>3, <1>4, NewRunTyped
  <2>3. d.recommendation \in Recommendation /\ d.cited \in SUBSET (Files \cup {Invented})
    BY <1>7 DEF Draft
  <2> DEFINE c == run.cost + price
  <2>4. r = [run EXCEPT !.cost = c, !.recommendation = d.recommendation, !.letter = d.cited]
    OBVIOUS
  <2>5. c \in Nat /\ c = price
    BY <2>2
  <2> HIDE DEF c, r
  <2>6. r \in Run
    BY <2>2, <2>3, <2>4, <2>5 DEF Run
  <2>7. /\ r.cost = c /\ r.letter = d.cited
        /\ r.outcome = run.outcome /\ r.findings = run.findings /\ r.judged = run.judged
        /\ r.escalated = run.escalated
    BY <2>2, <2>4 DEF Run
  <2> QED BY <1>3, <2>1, <2>5, <2>6, <2>7
<1>9. billed' = billed + price /\ draft' = d /\ billed' \in Nat
  BY <1>1, <1>4, <1>5 DEF Written, Bill
<1>10. Accounted => (faults = 0 /\ state # "expired" => billed' = spent + price)
  BY <1>3, <1>5, <1>9, NewRunTyped DEF Accounted
<1>11. \/ BadCitations(d) /\ Rejected(r)
       \/ GiveUpOnBudget(r)
       \/ /\ ~BadCitations(d) /\ ~OverBudget(claim.spent + r.cost)
          /\ run' = r /\ stage' = "written"
          /\ UNCHANGED <<rowVars, attempts, spent, last, bucket, claim, record, faults>>
  BY <1>1 DEF Written
<1> HIDE DEF r
<1>12. CASE Rejected(r)
  <2> DEFINE g == [r EXCEPT !.outcome = "rejected", !.findings = TRUE, !.escalated = LastAttempt]
  <2>1. Finish(g)
    BY <1>12 DEF Rejected
  <2>2. /\ g \in Run /\ g.cost = price /\ g.outcome = "rejected" /\ g.findings = TRUE
        /\ g.escalated = LastAttempt
    <3>1. LastAttempt \in BOOLEAN
      BY DEF LastAttempt
    <3>2. /\ g \in Run /\ g.cost = r.cost /\ g.outcome = "rejected" /\ g.findings = TRUE
          /\ g.escalated = LastAttempt
      BY <1>8, <3>1, RunRejected
    <3> QED BY <1>8, <3>2
  <2>3. Sound(g, bucket)
    BY <2>2 DEF Sound, Outcome
  <2> HIDE DEF g
  <2> QED BY <1>2, <1>6, <1>7, <1>9, <1>10, <2>1, <2>2, <2>3, FinishStep
<1>13. CASE GiveUpOnBudget(r)
  <2> DEFINE g == [r EXCEPT !.outcome = "budget_exceeded", !.recommendation = None,
                            !.escalated = LastAttempt]
  <2>1. Finish(g)
    BY <1>13 DEF GiveUpOnBudget
  <2>2. g \in Run /\ Sound(g, bucket) /\ g.cost = price
    <3>1. g \in Run /\ Sound(g, bucket) /\ g.cost = r.cost
      BY <1>8, GivenUp
    <3> QED BY <1>8, <3>1
  <2> HIDE DEF g
  <2> QED BY <1>2, <1>6, <1>7, <1>9, <1>10, <2>1, <2>2, FinishStep
<1>14. CASE /\ ~BadCitations(d) /\ ~OverBudget(claim.spent + r.cost)
            /\ run' = r /\ stage' = "written"
            /\ UNCHANGED <<rowVars, attempts, spent, last, bucket, claim, record, faults>>
  <2>1. UNCHANGED <<state, version, returns, attempts, spent, last, bucket, claim, record,
                    faults>>
    BY <1>14 DEF rowVars
  <2>2. TypeOK'
    BY <1>2, <1>7, <1>8, <1>9, <1>14, <2>1 DEF IInv, TypeOK
  <2>3. ClaimKnows' /\ Checked'
    BY <2>1 DEF IInv, ClaimKnows, Checked
  <2>4. Ceiling > 0 => spent + price < Ceiling
    BY <1>3, <1>4, <1>5, <1>8, <1>14, Budget
  <2>5. Costs'
    BY <1>8, <1>14, <2>1, <2>4 DEF IInv, Costs
  <2>6. Evidence'
    <3>1. d \in Draft /\ d # None
      BY <1>7, NoneAssumption
    <3> QED BY <1>3, <1>8, <1>9, <1>14, <2>1, <3>1 DEF Evidence, BadCitations
  <2>7. Accounted'
    BY <1>8, <1>10, <1>14, <2>1 DEF IInv, Accounted
  <2> QED BY <2>2, <2>3, <2>5, <2>6, <2>7 DEF IInv
<1> QED BY <1>11, <1>12, <1>13, <1>14

(* The verifier's verdict decides between the draft and a rejection.       *)
LEMMA VerifyStep ==
  ASSUME IInv, Verify
  PROVE  IInv'
<1>1. PICK price \in Prices, pass \in BOOLEAN, findings \in BOOLEAN :
        /\ Bill(price)
        /\ Judged([run EXCEPT !.cost = @ + price, !.judged = TRUE, !.findings = findings],
                  pass, findings)
  BY DEF Verify
<1> DEFINE r == [run EXCEPT !.cost = @ + price, !.judged = TRUE, !.findings = findings]
           o == IF draft.recommendation = "represent" THEN "drafted" ELSE "insufficient_evidence"
<1>2. /\ stage = "written" /\ draft' = draft /\ billed' = billed + price
      /\ Judged(r, pass, findings)
  BY <1>1 DEF Verify, Bill
<1>3. /\ run \in Run /\ run.cost \in Nat /\ draft \in Draft \cup {None} /\ billed \in Nat
      /\ spent \in Nat /\ run.letter \subseteq bucket /\ ~run.escalated
  BY <1>2, Parts DEF IInv, HandTyped, RowTyped, Run, Evidence
<1>4. price \in Nat /\ price <= MaxPrice /\ MaxPrice \in Nat /\ Ceiling \in Nat
  BY Priced, DraftingAssumption
<1>5. Ceiling > 0 => spent + (run.cost + price) < Ceiling + MaxPrice
  BY <1>2, <1>3, <1>4 DEF IInv, Costs
<1>6. /\ r \in Run /\ r.cost = run.cost + price /\ r.judged = TRUE /\ r.findings = findings
      /\ r.letter = run.letter /\ r.escalated = run.escalated
  <2> DEFINE c == run.cost + price
  <2>1. c \in Nat
    BY <1>3, <1>4
  <2>2. r = [run EXCEPT !.cost = c, !.judged = TRUE, !.findings = findings]
    OBVIOUS
  <2> HIDE DEF c, r
  <2>3. r \in Run
    BY <1>3, <2>1, <2>2 DEF Run
  <2>4. /\ r.cost = c /\ r.judged = TRUE /\ r.findings = findings
        /\ r.letter = run.letter /\ r.escalated = run.escalated
    BY <1>3, <2>2 DEF Run
  <2> QED BY <2>3, <2>4 DEF c
<1>7. /\ billed' \in Nat
      /\ Accounted => (faults = 0 /\ state # "expired" => billed' = spent + (run.cost + price))
  BY <1>2, <1>3, <1>4 DEF Accounted
<1>8. o \in Outcome
  BY DEF Outcome
<1>9. \/ ~findings /\ Finish([r EXCEPT !.outcome = o])
      \/ Finish([r EXCEPT !.outcome = "rejected", !.escalated = LastAttempt])
  BY <1>2 DEF Judged, Approved
<1> HIDE DEF r, o
<1>10. CASE ~findings /\ Finish([r EXCEPT !.outcome = o])
  <2> DEFINE g == [r EXCEPT !.outcome = o]
  <2>1. /\ g \in Run /\ g.cost = run.cost + price /\ g.outcome = o /\ g.judged = TRUE
        /\ g.findings = findings /\ g.letter = run.letter /\ g.escalated = run.escalated
    BY <1>6, <1>8 DEF Run
  <2>2. Finish(g)
    BY <1>10
  <2> HIDE DEF g
  <2>3. Sound(g, bucket)
    BY <1>3, <1>8, <1>10, <2>1 DEF Sound
  <2> QED BY <1>2, <1>3, <1>5, <1>7, <2>1, <2>2, <2>3, FinishStep
<1>11. CASE Finish([r EXCEPT !.outcome = "rejected", !.escalated = LastAttempt])
  <2> DEFINE g == [r EXCEPT !.outcome = "rejected", !.escalated = LastAttempt]
  <2>1. /\ g \in Run /\ g.cost = run.cost + price /\ g.outcome = "rejected"
        /\ g.judged = TRUE /\ g.escalated = LastAttempt
    <3>1. LastAttempt \in BOOLEAN
      BY DEF LastAttempt
    <3>2. /\ g \in Run /\ g.cost = r.cost /\ g.outcome = "rejected" /\ g.judged = r.judged
          /\ g.escalated = LastAttempt
      BY <1>6, <3>1, RunRefused
    <3> QED BY <1>6, <3>2
  <2>2. Finish(g)
    BY <1>11
  <2> HIDE DEF g
  <2>3. Sound(g, bucket)
    BY <2>1 DEF Sound, Outcome
  <2> QED BY <1>2, <1>3, <1>5, <1>7, <2>1, <2>2, <2>3, FinishStep
<1> QED BY <1>9, <1>10, <1>11

-----------------------------------------------------------------------------
(* Recording a run, and what happens around it.                            *)

LEMMA RecordStep ==
  ASSUME IInv, Record
  PROVE  IInv'
<1>1. /\ stage = "finished" /\ version = claim.version
      /\ attempts' = attempts + 1 /\ spent' = spent + run.cost /\ last' = run
      /\ state' = NextState(run) /\ version' = version + 1
      /\ LetGo /\ UNCHANGED <<bucket, billed, returns, faults>>
  BY DEF Record, ClaimStands, CostOf, MoveTo
<1>2. /\ RowTyped /\ claim # None /\ run \in Run /\ run # None /\ run.cost \in Nat
  BY <1>1, Parts, NoneAssumption DEF IInv, HandTyped, Run
<1>3. NextState(run) \in {"draft_ready", "received"}
  BY DEF NextState
<1>4. RowTyped'
  BY <1>1, <1>2, <1>3 DEF RowTyped
<1>5. stage' = "idle" /\ run' = NewRun /\ run'.cost = 0
  BY <1>1, NewRunTyped DEF LetGo
<1>6. Costs'
  BY <1>1, <1>2, <1>5 DEF IInv, Costs, RowTyped
<1>7. Checked'
  <2> SUFFICES ASSUME state' = "draft_ready"
               PROVE  /\ last' # None
                      /\ last'.outcome \in {"drafted", "insufficient_evidence"} =>
                           last'.judged /\ ~last'.findings /\ last'.letter \subseteq bucket'
                      /\ last'.outcome \in {"rejected", "budget_exceeded"} =>
                           last'.escalated /\ attempts' >= MaxAttempts
                      /\ last'.recommendation # None => last'.judged \/ last'.findings
    BY DEF Checked
  <2>1. Sound(run, bucket) /\ claim.attempt = attempts + 1
    BY <1>1, <1>2 DEF IInv, Evidence, ClaimKnows
  <2>2. run.escalated \/ run.outcome \in {"drafted", "insufficient_evidence"}
    BY <1>1 DEF NextState
  <2>3. run.outcome \in {"rejected", "budget_exceeded"} =>
          run.escalated /\ attempts' >= MaxAttempts
    BY <1>1, <2>1, <2>2 DEF Sound, LastAttempt
  <2> QED BY <1>1, <1>2, <2>1, <2>3 DEF Sound
<1>8. Accounted'
  <2>1. state = "resolving"
    BY <1>1, <1>2 DEF IInv, ClaimKnows, RowTyped
  <2> QED BY <1>1, <1>2, <1>5, <2>1 DEF IInv, Accounted, RowTyped
<1> QED BY <1>1, <1>4, <1>6, <1>7, <1>8, LetGoTyped, Parts
        DEF IInv, TypeOK, RowTyped, HandTyped

LEMMA OvertakeStep ==
  ASSUME IInv, Overtake
  PROVE  IInv'
<1>1. /\ UNCHANGED <<attempts, spent, last, bucket, claim, record, draft, run, stage, billed,
                     faults>>
      /\ version' = version + 1 /\ returns' \in {returns, returns + 1}
      /\ \/ state \in {"received", "resolving", "draft_ready"} /\ state' = "expired"
         \/ state = "draft_ready" /\ state' \in {"represented", "received"}
  BY DEF Overtake, Expire, Submit, Discard, MoveTo
<1>2. TypeOK'
  BY <1>1 DEF IInv, TypeOK
<1>3. ClaimKnows'
  BY <1>1, Parts DEF IInv, RowTyped, HandTyped, Claim, ClaimKnows
<1>4. Costs' /\ Checked' /\ Accounted'
  BY <1>1 DEF IInv, Costs, Checked, Accounted
<1>5. Evidence'
  BY <1>1 DEF IInv, Evidence, Sound, LastAttempt
<1> QED BY <1>2, <1>3, <1>4, <1>5 DEF IInv

LEMMA UploadStep ==
  ASSUME IInv, Upload
  PROVE  IInv'
<1>1. /\ UNCHANGED <<state, version, returns, attempts, spent, last, claim, record, draft, run,
                     stage, billed, faults>>
      /\ bucket \subseteq bucket' /\ bucket' \subseteq Files
  BY Parts DEF Upload, rowVars, IInv, RowTyped
<1>2. TypeOK'
  BY <1>1 DEF IInv, TypeOK
<1>3. ClaimKnows' /\ Costs' /\ Accounted'
  BY <1>1 DEF IInv, ClaimKnows, Costs, Accounted
<1>4. Checked'
  BY <1>1 DEF IInv, Checked
<1>5. Evidence'
  BY <1>1 DEF IInv, Evidence, Sound, LastAttempt
<1> QED BY <1>2, <1>3, <1>4, <1>5 DEF IInv

LEMMA StepInv == IInv /\ [Next]_vars => IInv'
<1> SUFFICES ASSUME IInv, [Next]_vars PROVE IInv'
  OBVIOUS
<1>1. CASE Hold \/ HoldFails \/ Assemble
  BY <1>1, HoldStep, HoldFailsStep, AssembleStep
<1>2. CASE RefuseBeforehand \/ Generate \/ Verify
  BY <1>2, RefuseStep, GenerateStep, VerifyStep
<1>3. CASE AssembleFails
  <2>1. Fault /\ Release /\ stage # "idle" /\ billed' = billed
    BY <1>3 DEF AssembleFails
  <2> QED BY <2>1, ReleaseStep, Parts DEF IInv, RowTyped
<1>4. CASE GenerateFails \/ VerifyFails
  <2>1. Fault /\ Release /\ stage # "idle"
    BY <1>4 DEF GenerateFails, VerifyFails, MayGenerate
  <2>2. PICK price \in Prices \cup {0} : Bill(price)
    BY <1>4 DEF GenerateFails, VerifyFails
  <2>3. billed' \in Nat
    BY <2>2, Priced, Parts DEF Bill, IInv, RowTyped
  <2> QED BY <2>1, <2>3, ReleaseStep
<1>5. CASE Record
  BY <1>5, RecordStep
<1>6. CASE RecordFails
  <2>1. /\ Release /\ stage # "idle" /\ billed' = billed
        /\ Fault \/ (~ClaimStands /\ UNCHANGED faults)
    BY <1>6 DEF RecordFails
  <2> QED BY <2>1, ReleaseStep, Parts DEF IInv, RowTyped
<1>7. CASE Overtake \/ Upload
  BY <1>7, OvertakeStep, UploadStep
<1>8. CASE UNCHANGED vars
  <2>1. UNCHANGED <<state, version, attempts, spent, last, bucket, claim, record, draft, run,
                    stage, billed, returns, faults>>
    BY <1>8 DEF vars
  <2>2. TypeOK' /\ ClaimKnows' /\ Costs'
    BY <2>1 DEF IInv, TypeOK, ClaimKnows, Costs
  <2>3. Evidence' /\ Checked' /\ Accounted'
    BY <2>1 DEF IInv, Evidence, Sound, LastAttempt, Checked, Accounted
  <2> QED BY <2>2, <2>3 DEF IInv
<1> QED BY <1>1, <1>2, <1>3, <1>4, <1>5, <1>6, <1>7, <1>8 DEF Next

LEMMA Inductive == Spec => []IInv
BY InitInv, StepInv, PTL DEF Spec

(* TypeOK holds in every reachable state; in particular there is a claim   *)
(* exactly while a run is under way.                                       *)
THEOREM TypeCorrect == Spec => []TypeOK
<1>1. IInv => TypeOK
  BY DEF IInv
<1> QED BY <1>1, Inductive, PTL

(* The ceiling of a dispute is never passed by more than one call, for any *)
(* prices, whatever an attempt's record costs to send.                     *)
THEOREM CeilingKept == Spec => []CeilingHolds
BY InvCeiling, Inductive, PTL

(* What is before a reviewer has been checked, whatever the models answer. *)
THEOREM DraftsAreChecked == Spec => []Checked
<1>1. IInv => Checked
  BY DEF IInv
<1> QED BY <1>1, Inductive, PTL

(* What the provider charged is on record until something fails.           *)
THEOREM SpendingIsRecorded == Spec => []Accounted
<1>1. IInv => Accounted
  BY DEF IInv
<1> QED BY <1>1, Inductive, PTL
=============================================================================
