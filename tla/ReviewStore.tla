----------------------------- MODULE ReviewStore -----------------------------
(***************************************************************************)
(* A person's decision on a run (Decide in internal/api/reviews.go).  The  *)
(* page a reviewer decides from may be stale, so the run may be any that   *)
(* exists.  now() is the start of the transaction; its two UPDATEs come    *)
(* later, so the two are separate steps here.                              *)
(***************************************************************************)
EXTENDS DisputeStore

CONSTANT Reviewers

VARIABLE review        (* the open transaction of each reviewer, or Nil *)

Decision == {"submitted", "discarded"}

Decided == [dispute : Disputes, attempt : Nat, decision : Decision, inTime : BOOLEAN]

ReviewTypeOK == review \in [Reviewers -> Decided \cup {Nil}]

ReviewInit == review = [r \in Reviewers |-> Nil]

(* BEGIN.  A run already reviewed is refused whatever happens, so only the *)
(* others are opened.                                                      *)
ReviewBegin(r, d, attempt, decision) ==
  /\ review[r] = Nil
  /\ runs[d][attempt].review = "none"
  /\ review' = [review EXCEPT ![r] =
       [dispute |-> d, attempt |-> attempt, decision |-> decision,
        inTime |-> clock[d] # "past"]]
  /\ UNCHANGED storeVars

(* A seeded bug: the dispute's state is no longer part of the WHERE.       *)
ReviewableInAnyState(q) ==
  /\ runs[q.dispute][q.attempt].review = "none"
  /\ state[q.dispute] \in OnTheClock
  /\ q.inTime

Reviewable(q) ==
  /\ runs[q.dispute][q.attempt].review = "none"
  /\ state[q.dispute] = "draft_ready"
  /\ q.inTime

Marked(history, attempt, decision) == [history EXCEPT ![attempt].review = decision]

ReviewCommit(r) ==
  LET q  == review[r]
      d  == q.dispute
      to == IF q.decision = "submitted" THEN "represented" ELSE "received"
  IN
  /\ q # Nil
  /\ Reviewable(q)
  /\ runs' = [runs EXCEPT ![d] = Marked(@, q.attempt, q.decision)]
  /\ Move(d, to)
  /\ RecordEvent(d, "draft_ready", to)
  /\ review' = [review EXCEPT ![r] = Nil]
  /\ UNCHANGED <<resolved, refunded, posted, books, outbox, clock>>

(* ErrNotReviewable, or a fault: the transaction rolls back.               *)
ReviewRollback(r) ==
  /\ review[r] # Nil
  /\ review' = [review EXCEPT ![r] = Nil]
  /\ UNCHANGED storeVars

ReviewNext ==
  \E r \in Reviewers :
    \/ \E d \in Disputes, decision \in Decision :
         \E attempt \in DOMAIN runs[d] : ReviewBegin(r, d, attempt, decision)
    \/ ReviewCommit(r)
    \/ ReviewRollback(r)
=============================================================================
