---------------------------- MODULE IntakeProofs ----------------------------
(***************************************************************************)
(* Proofs about Intake, for any events, disputes and bounds.               *)
(***************************************************************************)
EXTENDS Intake, TLAPS

-----------------------------------------------------------------------------
(* Types.                                                                  *)

LEMMA EventTyped == \A q \in Deliveries : q[1] \in Events /\ DisputeOf[q[1]] \in Disputes
BY DEF Deliveries, Disputes

LEMMA WriteTyped ==
  ASSUME TypeOK, NEW e \in Events, NEW answer \in Answers, Write(e, answer)
  PROVE  /\ stored' \in [Events -> {"none", "processed", "failed"}]
         /\ openedBy' \in [Disputes -> Events \cup {NoEvent}]
BY DEF TypeOK, Write, OnFile

LEMMA TypeStep == TypeOK /\ [Next]_vars => TypeOK'
<1> SUFFICES ASSUME TypeOK, [Next]_vars PROVE TypeOK'
  OBVIOUS
<1> USE EventTyped
<1>1. ASSUME NEW q \in Deliveries, Deliver(q) \/ HangUp(q) \/ Refuse(q) PROVE TypeOK'
  BY <1>1 DEF Deliver, HangUp, Refuse, Goes, Break, Fails, TypeOK, Answers
<1>2. ASSUME NEW q \in Deliveries, Claim(q) \/ ClaimFails(q) PROVE TypeOK'
  BY <1>2 DEF Claim, ClaimFails, Goes, Break, TypeOK, Answers
<1>3. ASSUME NEW q \in Deliveries, Record(q) \/ RecordFails(q) PROVE TypeOK'
  <2>1. /\ stored' \in [Events -> {"none", "processed", "failed"}]
        /\ openedBy' \in [Disputes -> Events \cup {NoEvent}]
    BY <1>3, WriteTyped DEF Record, RecordFails, TypeOK
  <2>2. /\ stage' \in [Deliveries -> {"idle", "arrived", "claimed", "failed"} \cup Answers]
        /\ hungUp' \subseteq {p \in Deliveries : stage'[p] # "idle"}
    BY <1>3 DEF Record, RecordFails, Goes, TypeOK, Answers
  <2> QED BY <1>3, <2>1, <2>2 DEF Record, RecordFails, Fails, TypeOK
<1>4. ASSUME NEW q \in Deliveries, Release(q) \/ ReleaseFails(q) PROVE TypeOK'
  BY <1>4 DEF Release, ReleaseKey, ReleaseFails, Goes, Break, TypeOK, Answers
<1>5. ASSUME NEW q \in Deliveries, Answer(q) \/ Crash(q) PROVE TypeOK'
  <2>1. /\ stage' \in [Deliveries -> {"idle", "arrived", "claimed", "failed"} \cup Answers]
        /\ hungUp' \subseteq {p \in Deliveries : stage'[p] # "idle"}
    BY <1>5 DEF Answer, Crash, Ends, Goes, TypeOK
  <2>2. /\ sender' \in [Events -> {"trying", "delivered", "refused"}]
        /\ accepted' \in [Events -> Nat]
    BY <1>5 DEF Answer, Crash, Told, TypeOK
  <2> QED BY <1>5, <2>1, <2>2 DEF Answer, Crash, Break, TypeOK
<1>6. ASSUME NEW e \in Events, Expire(e) PROVE TypeOK'
  BY <1>6 DEF Expire, TypeOK
<1>7. CASE Flush \/ UNCHANGED vars
  BY <1>7 DEF Flush, vars, TypeOK
<1> QED BY <1>1, <1>2, <1>3, <1>4, <1>5, <1>6, <1>7 DEF Next, Serve

LEMMA TypeInit == Init => TypeOK
BY DEF Init, TypeOK

(* Every delivery, event and dispute keeps its type, and no request starts *)
(* in the context of another.                                              *)
THEOREM IntakeTypes == Spec => []TypeOK
BY TypeInit, TypeStep, PTL DEF Spec

-----------------------------------------------------------------------------
(* One acceptance.                                                         *)

(* The event was the first of its dispute to be stored.                    *)
First(e) == Stored(e) /\ openedBy[DisputeOf[e]] = e

AcceptanceInv ==
  /\ \A q \in Deliveries : stage[q] = "accepted" => First(q[1]) /\ accepted[q[1]] = 0
  /\ \A p, q \in Deliveries : stage[p] = "accepted" /\ stage[q] = "accepted" /\ p[1] = q[1] => p = q
  /\ \A e \in Events : accepted[e] # 0 => First(e) /\ accepted[e] = 1

LEMMA FirstStays ==
  ASSUME TypeOK, NEW e \in Events, NEW answer, Write(e, answer), NEW f \in Events, First(f)
  PROVE  First(f)'
BY IntakeAssumption DEF TypeOK, Write, OnFile, First, Stored, Disputes

LEMMA FirstMade ==
  ASSUME TypeOK, NEW e \in Events, Write(e, "accepted")
  PROVE  ~Stored(e) /\ First(e)'
BY DEF TypeOK, Write, OnFile, First, Stored, Disputes

LEMMA AcceptanceStep == TypeOK /\ AcceptanceInv /\ [Next]_vars => AcceptanceInv'
<1> SUFFICES ASSUME TypeOK, AcceptanceInv, [Next]_vars PROVE AcceptanceInv'
  OBVIOUS
<1> USE EventTyped
<1>1. ASSUME NEW q \in Deliveries,
             NEW s \in {"arrived", "claimed", "failed", "idle"} \cup (Answers \ {"accepted"}),
             Goes(q, s), \A f \in Events : First(f) => First(f)', UNCHANGED accepted
      PROVE  AcceptanceInv'
  <2>1. \A p \in Deliveries : stage'[p] = "accepted" => stage[p] = "accepted"
    BY <1>1 DEF Goes, TypeOK, Answers
  <2> QED BY <1>1, <2>1 DEF AcceptanceInv
<1>2. UNCHANGED <<stored, openedBy>> => \A f \in Events : First(f) => First(f)'
  BY DEF First, Stored
<1>3. ASSUME NEW q \in Deliveries, Deliver(q) \/ Refuse(q) \/ Claim(q) \/ ClaimFails(q)
                                \/ Release(q) \/ ReleaseFails(q)
      PROVE  AcceptanceInv'
  <2>1. UNCHANGED <<stored, openedBy, accepted>>
    BY <1>3 DEF Deliver, Refuse, Claim, ClaimFails, Release, ReleaseFails
  <2>2. \E s \in {"arrived", "claimed", "failed", "idle"} \cup (Answers \ {"accepted"}) : Goes(q, s)
    BY <1>3 DEF Deliver, Refuse, Claim, ClaimFails, Release, ReleaseFails, Answers
  <2> QED BY <1>1, <1>2, <2>1, <2>2
<1>4. ASSUME NEW q \in Deliveries, RecordFails(q) PROVE AcceptanceInv'
  <2>1. \A f \in Events : First(f) => First(f)'
    BY <1>2, <1>4, FirstStays DEF RecordFails
  <2> QED BY <1>1, <1>4, <2>1 DEF RecordFails
<1>5. ASSUME NEW q \in Deliveries, Record(q) PROVE AcceptanceInv'
  <2>1. PICK answer \in Answers : Write(q[1], answer) /\ Goes(q, answer)
    BY <1>5 DEF Record
  <2>2. UNCHANGED accepted /\ \A f \in Events : First(f) => First(f)'
    BY <1>5, <2>1, FirstStays DEF Record
  <2>3. CASE answer # "accepted"
    BY <1>1, <2>1, <2>2, <2>3
  <2>4. CASE answer = "accepted"
    <3>1. ~Stored(q[1]) /\ First(q[1])'
      BY <2>1, <2>4, FirstMade
    <3>2. accepted[q[1]] = 0 /\ \A p \in Deliveries : p[1] = q[1] => stage[p] # "accepted"
      BY <3>1 DEF AcceptanceInv, First
    <3>3. \A p \in Deliveries : stage'[p] = "accepted" => p = q \/ stage[p] = "accepted"
      BY <2>1 DEF Goes, TypeOK
    <3> QED BY <2>2, <3>1, <3>2, <3>3 DEF AcceptanceInv
  <2> QED BY <2>3, <2>4
<1>6. ASSUME NEW q \in Deliveries, Answer(q) PROVE AcceptanceInv'
  <2>1. Goes(q, "idle") /\ \A f \in Events : First(f) => First(f)'
    BY <1>2, <1>6 DEF Answer, Ends
  <2>2. CASE stage[q] # "accepted"
    BY <1>1, <1>6, <2>1, <2>2 DEF Answer
  <2>3. CASE stage[q] = "accepted"
    <3>0. accepted[q[1]] = 0 /\ First(q[1])'
      BY <2>1, <2>3 DEF AcceptanceInv
    <3>1. accepted' = [accepted EXCEPT ![q[1]] = accepted[q[1]] + 1]
      BY <1>6, <2>3 DEF Answer
    <3>2. \A p \in Deliveries : stage'[p] = "accepted" => stage[p] = "accepted" /\ p[1] # q[1]
      BY <2>1, <2>3 DEF Goes, AcceptanceInv, TypeOK
    <3> QED BY <2>1, <3>0, <3>1, <3>2 DEF AcceptanceInv, TypeOK
  <2> QED BY <2>2, <2>3
<1>7. ASSUME NEW q \in Deliveries, Crash(q) PROVE AcceptanceInv'
  BY <1>1, <1>2, <1>7 DEF Crash, Ends
<1>8. CASE \/ \E q \in Deliveries : HangUp(q)
           \/ \E e \in Events : Expire(e)
           \/ Flush \/ UNCHANGED vars
  <2>1. UNCHANGED <<stored, openedBy, stage, accepted>>
    BY <1>8 DEF HangUp, Expire, Flush, vars
  <2> QED BY <1>2, <2>1 DEF AcceptanceInv
<1> QED BY <1>3, <1>4, <1>5, <1>6, <1>7, <1>8 DEF Next, Serve

(* Whatever breaks, and however often an event or another of its dispute   *)
(* is delivered, one answer says that it was accepted.                     *)
THEOREM OneAcceptance == Spec => []AcceptedOnce
<1>1. Init => AcceptanceInv
  BY DEF Init, AcceptanceInv
<1>2. TypeOK /\ AcceptanceInv => AcceptedOnce
  BY DEF TypeOK, AcceptanceInv, AcceptedOnce, First
<1> QED BY <1>1, <1>2, TypeInit, TypeStep, AcceptanceStep, PTL DEF Spec

-----------------------------------------------------------------------------
(* Claims.                                                                 *)

BackedInv == ClaimBacked /\ (breaks = 0 => hungUp = {})

LEMMA BackedStep == TypeOK /\ BackedInv /\ [Next]_vars => BackedInv'
<1> SUFFICES ASSUME TypeOK, BackedInv, [Next]_vars, breaks' = 0 PROVE BackedInv'
  BY DEF BackedInv, ClaimBacked
<1> USE EventTyped
<1> DEFINE Backed(e) == Stored(e) \/ \E q \in Deliveries : q[1] = e /\ Working(q)
<1>0. breaks = 0 /\ hungUp = {} /\ \A e \in seen : Backed(e)
  <2>1. breaks' = breaks \/ breaks' = breaks + 1
    BY DEF Next, Deliver, HangUp, Serve, Refuse, Claim, ClaimFails, Record, RecordFails,
           Release, ReleaseFails, Answer, Crash, Expire, Flush, Break, vars
  <2> QED BY <2>1 DEF BackedInv, ClaimBacked, TypeOK
<1>1. ASSUME hungUp' = {}, \A e \in seen' : Backed(e)' PROVE BackedInv'
  BY <1>1 DEF BackedInv, ClaimBacked
<1>2. ~Break("hangup") /\ ~Break("redis") /\ ~Break("crash")
  BY <1>0 DEF Break
<1>3. ASSUME NEW q \in Deliveries, Deliver(q) \/ Refuse(q) \/ Answer(q), UNCHANGED seen
      PROVE  BackedInv'
  <2>1. hungUp' = {} /\ stored' = stored /\ ~Working(q)
    BY <1>0, <1>3 DEF Deliver, Refuse, Answer, Ends, Working, Answers
  <2>2. \A p \in Deliveries : Working(p) => Working(p)'
    BY <1>3, <2>1 DEF Deliver, Refuse, Answer, Ends, Goes, Working, TypeOK
  <2> QED BY <1>0, <1>1, <1>3, <2>1, <2>2 DEF Stored
<1>4. ASSUME NEW q \in Deliveries, Claim(q) PROVE BackedInv'
  <2>1. hungUp' = {} /\ stored' = stored /\ seen' = seen \cup {q[1]}
    BY <1>0, <1>4 DEF Claim
  <2>2. \A p \in Deliveries : Working(p) => Working(p)'
    BY <1>4 DEF Claim, Goes, Working, TypeOK
  <2>3. q[1] \notin seen => Working(q)'
    BY <1>4 DEF Claim, Goes, Working, TypeOK
  <2> QED BY <1>0, <1>1, <2>1, <2>2, <2>3 DEF Stored
<1>5. ASSUME NEW q \in Deliveries, Record(q) PROVE BackedInv'
  <2>1. PICK answer \in Answers : Write(q[1], answer)
    BY <1>5 DEF Record
  <2>2. Stored(q[1])' /\ \A e \in Events : Stored(e) => Stored(e)'
    BY <2>1 DEF Write, Stored, TypeOK
  <2>3. \A p \in Deliveries : p # q /\ Working(p) => Working(p)'
    BY <1>5 DEF Record, Goes, Working, TypeOK
  <2> QED BY <1>0, <1>1, <1>5, <2>2, <2>3 DEF Record, TypeOK
<1>6. ASSUME NEW q \in Deliveries, RecordFails(q) PROVE BackedInv'
  <2>1. \A e \in Events : Stored(e) => Stored(e)'
    BY <1>6 DEF RecordFails, Write, Stored, TypeOK
  <2>2. \A p \in Deliveries : Working(p) => Working(p)'
    BY <1>6 DEF RecordFails, Goes, Working, TypeOK
  <2> QED BY <1>0, <1>1, <1>6, <2>1, <2>2 DEF RecordFails, TypeOK
<1>7. ASSUME NEW q \in Deliveries, Release(q) PROVE BackedInv'
  <2>1. hungUp' = {} /\ stored' = stored /\ seen' = seen \ {q[1]}
    BY <1>0, <1>7 DEF Release, ReleaseKey
  <2>2. \A p \in Deliveries : p # q /\ Working(p) => Working(p)'
    BY <1>7 DEF Release, Goes, Working, TypeOK
  <2> QED BY <1>0, <1>1, <2>1, <2>2 DEF Stored
<1>8. ASSUME NEW e \in Events, Expire(e) PROVE BackedInv'
  <2>1. seen' \subseteq seen /\ UNCHANGED <<hungUp, stored, stage>>
    BY <1>8 DEF Expire
  <2> QED BY <1>0, <1>1, <2>1 DEF Stored, Working
<1>9. CASE Flush \/ UNCHANGED vars
  <2>1. seen' \subseteq seen /\ UNCHANGED <<hungUp, stored, stage>>
    BY <1>9 DEF Flush, vars
  <2> QED BY <1>0, <1>1, <2>1 DEF Stored, Working
<1>10. ASSUME NEW q \in Deliveries, HangUp(q) \/ ClaimFails(q) \/ ReleaseFails(q) \/ Crash(q)
       PROVE  FALSE
  BY <1>0, <1>2, <1>10 DEF HangUp, ClaimFails, ReleaseFails, Crash
<1> QED BY <1>3, <1>4, <1>5, <1>6, <1>7, <1>8, <1>9, <1>10
        DEF Next, Serve, Deliver, Refuse, Answer

(* A key of the guard stands for an event that has its row, or is being    *)
(* given one, until a sender hangs up, a call to Redis fails or a process  *)
(* dies; failing transactions alone never strand one.                      *)
THEOREM ClaimsBacked == Spec => []ClaimBacked
<1>1. Init => BackedInv
  BY DEF Init, BackedInv, ClaimBacked
<1>2. BackedInv => ClaimBacked
  BY DEF BackedInv
<1> QED BY <1>1, <1>2, TypeInit, TypeStep, BackedStep, PTL DEF Spec
=============================================================================
