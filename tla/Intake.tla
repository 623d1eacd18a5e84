------------------------------- MODULE Intake -------------------------------
(***************************************************************************)
(* The HTTP path of the ingest service (internal/ingest/handler.go,        *)
(* idempotency.go): the senders of webhooks repeat a delivery until it is  *)
(* answered with success or refused for good; a key in Redis answers most  *)
(* repeats, and the unique index on webhook_events the rest.               *)
(*                                                                         *)
(* The events are those that open a dispute.  What the checks before the   *)
(* claim may answer (401, 413, 429, 503) is one refusal without effect.    *)
(***************************************************************************)
EXTENDS Integers, FiniteSets

CONSTANTS
  Events,      (* events, by the id in their signed body                    *)
  DisputeOf,   (* the dispute an event opens                                *)
  Slots,       (* bound: deliveries of one event in the service at once     *)
  Breaks,      (* the kinds of break that may happen                        *)
  MaxBreaks,   (* bound: hang-ups, failing Redis calls, dead processes      *)
  MaxFailures, (* bound: failing database calls, refusals before the claim  *)
  NoEvent

ASSUME IntakeAssumption ==
  /\ MaxBreaks \in Nat /\ MaxFailures \in Nat
  /\ Breaks \subseteq {"hangup", "redis", "crash"}
  /\ NoEvent \notin Events

Disputes == {DisputeOf[e] : e \in Events}

Deliveries == Events \X Slots

VARIABLES
  seen,     (* the keys ingest:seen:<event>                                 *)
  stored,   (* webhook_events.status of an event, once it has a row         *)
  openedBy, (* the event that inserted a dispute                            *)
  stage,    (* how far a delivery has come, or what it will be answered     *)
  hungUp,   (* deliveries whose sender has left: their context is canceled  *)
  sender,   (* what the sender of an event has been told                    *)
  accepted, (* how often an event was answered 202                          *)
  breaks, failures

vars == <<seen, stored, openedBy, stage, hungUp, sender, accepted, breaks, failures>>

Answers == {"accepted", "duplicate", "unlinkable", "unavailable"}

TypeOK ==
  /\ seen \subseteq Events
  /\ stored \in [Events -> {"none", "processed", "failed"}]
  /\ openedBy \in [Disputes -> Events \cup {NoEvent}]
  /\ stage \in [Deliveries -> {"idle", "arrived", "claimed", "failed"} \cup Answers]
  /\ hungUp \subseteq {q \in Deliveries : stage[q] # "idle"}
  /\ sender \in [Events -> {"trying", "delivered", "refused"}]
  /\ accepted \in [Events -> Nat]
  /\ breaks \in Nat /\ failures \in Nat

Init ==
  /\ seen = {}
  /\ stored = [e \in Events |-> "none"]
  /\ openedBy = [d \in Disputes |-> NoEvent]
  /\ stage = [q \in Deliveries |-> "idle"]
  /\ hungUp = {}
  /\ sender = [e \in Events |-> "trying"]
  /\ accepted = [e \in Events |-> 0]
  /\ breaks = 0 /\ failures = 0

Break(kind) == kind \in Breaks /\ breaks < MaxBreaks /\ breaks' = breaks + 1

Fails == failures < MaxFailures /\ failures' = failures + 1

Goes(q, s) == stage' = [stage EXCEPT ![q] = s]

-----------------------------------------------------------------------------
(* A sender waits for its answer, or hangs up, before it tries again; it   *)
(* may send an event once more after it was told.                          *)
Deliver(q) ==
  /\ stage[q] = "idle"
  /\ \A p \in Deliveries : p[1] = q[1] => stage[p] = "idle" \/ p \in hungUp
  /\ Goes(q, "arrived")
  /\ UNCHANGED <<seen, stored, openedBy, hungUp, sender, accepted, breaks, failures>>

HangUp(q) ==
  /\ stage[q] # "idle" /\ q \notin hungUp
  /\ Break("hangup")
  /\ hungUp' = hungUp \cup {q}
  /\ UNCHANGED <<seen, stored, openedBy, stage, sender, accepted, failures>>

(* Everything before the claim that sends a delivery away.                 *)
Refuse(q) ==
  /\ stage[q] = "arrived"
  /\ Fails
  /\ Goes(q, "unavailable")
  /\ UNCHANGED <<seen, stored, openedBy, hungUp, sender, accepted, breaks>>

(* SETNX.                                                                  *)
Claim(q) ==
  /\ stage[q] = "arrived" /\ q \notin hungUp
  /\ Goes(q, IF q[1] \in seen THEN "duplicate" ELSE "claimed")
  /\ seen' = seen \cup {q[1]}
  /\ UNCHANGED <<stored, openedBy, hungUp, sender, accepted, breaks, failures>>

(* 503: the key may have been set all the same.                            *)
ClaimFails(q) ==
  /\ stage[q] = "arrived"
  /\ IF q \in hungUp THEN UNCHANGED breaks ELSE Break("redis")
  /\ seen' \in {seen, seen \cup {q[1]}}
  /\ Goes(q, "unavailable")
  /\ UNCHANGED <<stored, openedBy, hungUp, sender, accepted, failures>>

(* ON CONFLICT (idempotency_key).                                          *)
Stored(e) == stored[e] # "none"

(* A seeded bug: the unique key of disputes is not looked at.              *)
NeverOnFile(d) == FALSE

(* ON CONFLICT (merchant_id, external_id).                                 *)
OnFile(d) == openedBy[d] # NoEvent

(* The transaction of Store.record, with what it answers.                  *)
Write(e, answer) ==
  \/ /\ Stored(e)
     /\ answer = "duplicate"
     /\ UNCHANGED <<stored, openedBy>>
  \/ /\ ~Stored(e)
     /\ answer = "unlinkable"
     /\ stored' = [stored EXCEPT ![e] = "failed"]
     /\ UNCHANGED openedBy
  \/ /\ ~Stored(e)
     /\ stored' = [stored EXCEPT ![e] = "processed"]
     /\ IF OnFile(DisputeOf[e])
        THEN answer = "duplicate" /\ UNCHANGED openedBy
        ELSE answer = "accepted" /\ openedBy' = [openedBy EXCEPT ![DisputeOf[e]] = e]

Record(q) ==
  /\ stage[q] = "claimed" /\ q \notin hungUp
  /\ \E answer \in Answers : Write(q[1], answer) /\ Goes(q, answer)
  /\ UNCHANGED <<seen, hungUp, sender, accepted, breaks, failures>>

(* Rolled back, or committed and the answer lost.                          *)
RecordFails(q) ==
  /\ stage[q] = "claimed"
  /\ IF q \in hungUp THEN UNCHANGED failures ELSE Fails
  /\ UNCHANGED <<stored, openedBy>> \/ \E answer \in Answers : Write(q[1], answer)
  /\ Goes(q, "failed")
  /\ UNCHANGED <<seen, hungUp, sender, accepted, breaks>>

(* A seeded bug: the claim is kept.                                        *)
KeepClaim(e) == UNCHANGED seen

(* DEL, whoever set the key.                                               *)
ReleaseKey(e) == seen' = seen \ {e}

Release(q) ==
  /\ stage[q] = "failed" /\ q \notin hungUp
  /\ ReleaseKey(q[1])
  /\ Goes(q, "unavailable")
  /\ UNCHANGED <<stored, openedBy, hungUp, sender, accepted, breaks, failures>>

(* Logged, and answered 500 like the rest.                                 *)
ReleaseFails(q) ==
  /\ stage[q] = "failed"
  /\ IF q \in hungUp THEN UNCHANGED breaks ELSE Break("redis")
  /\ seen' \in {seen, seen \ {q[1]}}
  /\ Goes(q, "unavailable")
  /\ UNCHANGED <<stored, openedBy, hungUp, sender, accepted, failures>>

(* 202 and 200; 422; 4xx and 5xx that are worth another try.               *)
Told(e, answer) ==
  IF answer = "unavailable" THEN sender[e]
  ELSE IF answer = "unlinkable" THEN "refused" ELSE "delivered"

Ends(q) == Goes(q, "idle") /\ hungUp' = hungUp \ {q}

Answer(q) ==
  /\ stage[q] \in Answers
  /\ Ends(q)
  /\ sender' = IF q \in hungUp THEN sender
               ELSE [sender EXCEPT ![q[1]] = Told(q[1], stage[q])]
  /\ accepted' = IF stage[q] = "accepted" THEN [accepted EXCEPT ![q[1]] = @ + 1] ELSE accepted
  /\ UNCHANGED <<seen, stored, openedBy, breaks, failures>>

(* The process dies; the sender sees its connection close.                 *)
Crash(q) ==
  /\ stage[q] # "idle"
  /\ Break("crash")
  /\ Ends(q)
  /\ UNCHANGED <<seen, stored, openedBy, sender, accepted, failures>>

(* The 24 hours of a key, which no request lasts.                          *)
Expire(e) ==
  /\ e \in seen
  /\ \A q \in Deliveries : q[1] = e => stage[q] = "idle"
  /\ seen' = seen \ {e}
  /\ UNCHANGED <<stored, openedBy, stage, hungUp, sender, accepted, breaks, failures>>

(* "Flush Redis and the system stays correct."                             *)
Flush ==
  /\ seen # {}
  /\ seen' = {}
  /\ UNCHANGED <<stored, openedBy, stage, hungUp, sender, accepted, breaks, failures>>

Serve(q) ==
  \/ Refuse(q) \/ Claim(q) \/ ClaimFails(q) \/ Record(q) \/ RecordFails(q)
  \/ Release(q) \/ ReleaseFails(q) \/ Answer(q)

Next ==
  \/ \E q \in Deliveries : Deliver(q) \/ HangUp(q) \/ Serve(q) \/ Crash(q)
  \/ \E e \in Events : Expire(e)
  \/ Flush

Spec == Init /\ [][Next]_vars

(* A request runs to its answer, and a sender tries until it is told.      *)
Fairness ==
  /\ \A q \in Deliveries : WF_vars(Serve(q))
  /\ \A e \in Events : WF_vars(/\ sender[e] = "trying"
                               /\ \E i \in Slots : Deliver(<<e, i>>))

FairSpec == Spec /\ Fairness

-----------------------------------------------------------------------------
Working(q) == stage[q] \in {"claimed", "failed"}

(* An event is answered 202 at most once, and so is one of the events that *)
(* open the same dispute, whatever breaks: repeats, flushed and expired    *)
(* keys, released claims of others, lost answers of a commit.              *)
AcceptedOnce ==
  /\ \A e \in Events : accepted[e] <= 1
  /\ \A e, f \in Events : /\ accepted[e] = 1 /\ accepted[f] = 1
                          /\ DisputeOf[e] = DisputeOf[f]
                          => e = f

(* A key stands for work that committed or is under way, as long as        *)
(* nothing but the database fails.                                         *)
ClaimBacked ==
  breaks = 0 => \A e \in seen : Stored(e) \/ \E q \in Deliveries : q[1] = e /\ Working(q)

(* No event is forgotten, as long as nothing but the database fails: the   *)
(* sender is not told so before the event has its row.                     *)
NoneForgotten == \A e \in Events : <>(Stored(e) \/ breaks > 0)

(* handler.go:213: "every path out of it either commits the work the claim *)
(* stands for or hands the claim back".                                    *)
HandedBack ==
  [][\A q \in Deliveries : Working(q) /\ stage'[q] \in Answers =>
       stored'[q[1]] # "none" \/ q[1] \notin seen']_vars
=============================================================================
