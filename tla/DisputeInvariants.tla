-------------------------- MODULE DisputeInvariants --------------------------
(***************************************************************************)
(* Why the money and the claims of DisputeSystem come out right: the       *)
(* inductive invariant behind its safety properties, one named part per    *)
(* reason.  DisputeSystemProofs proves it; TLC checks it too.              *)
(***************************************************************************)
EXTENDS DisputeSystem

(* disputes.transaction_id is a foreign key: only an unknown dispute can   *)
(* name an unknown charge.                                                 *)
Linked == \A d \in Disputes : state[d] # "absent" => ChargeOf[d] \in Charges

(* Runs are never deleted, so the one a reviewer has opened is there.      *)
ReviewOfRun ==
  \A r \in Reviewers : review[r] # Nil =>
    review[r].attempt \in 1..Len(runs[review[r].dispute])

TypeInv == TypeOK /\ Linked /\ ReviewOfRun

(* Every write to a dispute on file bumps its version, so a claim whose    *)
(* version still stands has seen no other write.                           *)
ClaimStanding ==
  \A a \in Agents : claim[a] # Nil =>
    LET c == claim[a] IN
    /\ c.version <= version[c.dispute]
    /\ c.version = version[c.dispute] =>
         /\ state[c.dispute] = "resolving"
         /\ c.attempt = Len(runs[c.dispute]) + 1

(* Two claims on one dispute were taken at different versions of it.       *)
ClaimsDiffer ==
  \A a, b \in Agents :
    /\ a # b /\ claim[a] # Nil /\ claim[b] # Nil
    /\ claim[a].dispute = claim[b].dispute
    => claim[a].version # claim[b].version

(* The same of a worker's snapshot; and what was decided on it was open to *)
(* be decided for such a dispute.                                          *)
SnapshotStanding ==
  \A w \in Workers : worker[w] # Nil =>
    LET s == worker[w] IN
    /\ s.state \in OnTheClock
    /\ s.action \in {"refund", "close"} => KindOf[s.dispute] = "alert"
    /\ s.version <= version[s.dispute]
    /\ s.version = version[s.dispute] => state[s.dispute] = s.state

(* No list an agent works from holds an alert.                             *)
ListedChargebacks == \A a \in Agents : \A d \in listed[a] : KindOf[d] = "chargeback"

(* A dispute that no operator can push into the agent's path although it   *)
(* is an alert.                                                            *)
Routed(d) == KindOf[d] = "alert" => d \notin Manual

(* Where a routed dispute stands says which entries it has in the ledger,  *)
(* up to an alert's answer, which may have been a refund made elsewhere.   *)
Settled(d) ==
  IF KindOf[d] = "alert"
  THEN /\ state[d] \in {"absent", "received", "refunded", "expired"}
       /\ posted[d] = {} \/ (state[d] = "refunded" /\ posted[d] = {"refund"})
  ELSE \/ state[d] = "absent" /\ posted[d] = {}
       \/ state[d] \in Open /\ posted[d] = {"hold"}
       \/ state[d] = "won" /\ posted[d] = {"hold", "release"}
       \/ state[d] \in {"lost", "expired"} /\ posted[d] = {"hold", "chargeback"}

SettledOnce == \A d \in Disputes : Routed(d) => Settled(d)

(* No event ends where a claim or nothing at all would be: a claim leaves  *)
(* no event, so the one before it is the last.                             *)
EventsEnd ==
  \A d \in Disputes : trail[d] # <<>> =>
    trail[d][Len(trail[d])][2] \notin {"absent", "resolving"}

Sent(d) == {i \in DOMAIN runs[d] : runs[d][i].review = "submitted"}

(* The run that was submitted, rather than how many.                       *)
SentOnce ==
  \A d \in Disputes :
    IF state[d] \in {"represented", "won", "lost"}
    THEN \E i \in 1..Len(runs[d]) : Sent(d) = {i}
    ELSE Sent(d) = {}

(* A charge has been refunded from a finite number of times, however many  *)
(* disputes there may ever be: what RefundsAddUp sums up.                  *)
RefundsFinite == \A c \in Charges : IsFiniteSet(RefundsOf(c))

(* Everything above, and the properties it was found for.                  *)
Inv ==
  /\ TypeInv
  /\ ClaimStanding
  /\ ClaimsDiffer
  /\ SnapshotStanding
  /\ ListedChargebacks
  /\ SettledOnce
  /\ HeldMoney
  /\ MerchantCharge
  /\ ResolvedIsTerminal
  /\ Announced
  /\ DraftHasRun
  /\ RulingStands
  /\ AuditTrail
  /\ EventsEnd
  /\ SentOnce
  /\ RefundsFinite
  /\ RefundsAddUp
=============================================================================
