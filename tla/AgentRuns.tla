------------------------------ MODULE AgentRuns ------------------------------
(***************************************************************************)
(* The drafting agent's claim on a dispute and the run it records          *)
(* (internal/agent/store.go, Assist in assist.go, drain in                 *)
(* cmd/agent/main.go).  What the two model calls answer is left open: any  *)
(* outcome attempt() can return may come back.                             *)
(***************************************************************************)
EXTENDS DisputeStore

CONSTANTS
  Agents,        (* processes running cmd/agent                              *)
  MaxAttempts,   (* AssistantOptions.MaxAttempts                             *)
  Manual,        (* the disputes an operator may pass to -dispute            *)
  Fails,         (* whether statements may fail, and contexts end            *)
  Crashes,       (* whether an agent process may die                         *)
  MaxVersion     (* bound: no claim once a dispute has changed this often    *)

ASSUME AgentAssumption ==
  /\ MaxAttempts \in Nat \ {0}
  /\ Manual \subseteq Disputes
  /\ Fails \in BOOLEAN /\ Crashes \in BOOLEAN
  /\ MaxVersion \in Nat

VARIABLES
  listed,        (* what is left of an agent's list of candidates *)
  claim,         (* the Claim an agent holds, or Nil              *)
  dropped        (* the claims that stand and that nobody holds:  *)
                 (* a record of the faults, no state of the code  *)

agentVars == <<listed, claim, dropped>>

Claim == [dispute : Disputes, version : Nat, attempt : Nat]

ASSUME NoClaimAssumption == Nil \notin Claim

AgentTypeOK ==
  /\ listed \in [Agents -> SUBSET Disputes]
  /\ claim \in [Agents -> Claim \cup {Nil}]
  /\ dropped \subseteq Claim

AgentInit ==
  /\ listed = [a \in Agents |-> {}]
  /\ claim = [a \in Agents |-> Nil]
  /\ dropped = {}

(* A seeded bug: the query has lost its test of the kind.                  *)
CandidatesOfAnyKind ==
  {d \in Disputes : state[d] = "received" /\ clock[d] = "open" /\ Len(runs[d]) < MaxAttempts}

Candidates ==
  {d \in Disputes : /\ state[d] = "received"
                    /\ KindOf[d] = "chargeback"
                    /\ clock[d] = "open"
                    /\ Len(runs[d]) < MaxAttempts}

(* drain lists once and then works through the list.                       *)
AgentList(a) ==
  /\ claim[a] = Nil
  /\ listed[a] = {}
  /\ Candidates # {}
  /\ listed' = [listed EXCEPT ![a] = Candidates]
  /\ UNCHANGED <<claim, dropped>>
  /\ UNCHANGED storeVars

(* Hold.  Its WHERE clause asks for the state and nothing else: neither    *)
(* the kind nor the number of attempts is looked at again.  No event is    *)
(* recorded.                                                               *)
Held(d) == [dispute |-> d, version |-> version[d] + 1, attempt |-> Len(runs[d]) + 1]

TakeHold(a, d) ==
  /\ claim[a] = Nil
  /\ d \in listed[a] \cup Manual
  /\ state[d] = "received"
  /\ version[d] < MaxVersion
  /\ Move(d, "resolving")
  /\ listed' = [listed EXCEPT ![a] = @ \ {d}]
  /\ UNCHANGED <<resolved, refunded, posted, books, trail, outbox, runs, clock>>

AgentHold(a, d) ==
  /\ TakeHold(a, d)
  /\ claim' = [claim EXCEPT ![a] = Held(d)]
  /\ UNCHANGED dropped

(* The UPDATE commits, and its answer is lost or cannot be read: Assist    *)
(* returns the error, with no claim to release.                            *)
AgentHoldUnanswered(a, d) ==
  /\ Fails
  /\ TakeHold(a, d)
  /\ dropped' = dropped \cup {Held(d)}
  /\ UNCHANGED claim

(* ErrClaimLost at the hold: somebody else took it since the listing.      *)
AgentSkip(a, d) ==
  /\ claim[a] = Nil
  /\ d \in listed[a]
  /\ state[d] # "received" \/ version[d] >= MaxVersion
  /\ listed' = [listed EXCEPT ![a] = @ \ {d}]
  /\ UNCHANGED <<claim, dropped>>
  /\ UNCHANGED storeVars

(* nextState, with the escalation attempt() decides: a rejected or         *)
(* unfinished run goes to a person only when it used up the attempts.      *)
NextState(outcome, attempt) ==
  IF outcome \in {"drafted", "insufficient_evidence"} \/ attempt >= MaxAttempts
  THEN "draft_ready" ELSE "received"

(* A seeded bug: Record moves the dispute without comparing its version.   *)
AttemptIsFree(c) == c.attempt = Len(runs[c.dispute]) + 1

(* The version still stands, and (dispute_id, attempt) is free.            *)
ClaimStands(c) ==
  /\ version[c.dispute] = c.version
  /\ c.attempt = Len(runs[c.dispute]) + 1

InsertRun(d, outcome) ==
  runs' = [runs EXCEPT ![d] = Append(@, [outcome |-> outcome, review |-> "none"])]

(* Record: the run and the dispute's move, together.                       *)
AgentRecord(a, outcome) ==
  LET c == claim[a]
      d == c.dispute
      to == NextState(outcome, c.attempt)
  IN
  /\ c # Nil
  /\ ClaimStands(c)
  /\ InsertRun(d, outcome)
  /\ Move(d, to)
  /\ RecordEvent(d, "resolving", to)
  /\ claim' = [claim EXCEPT ![a] = Nil]
  /\ UNCHANGED <<resolved, refunded, posted, books, outbox, clock, listed, dropped>>

(* A seeded bug: Assist returns without releasing after a failed attempt.  *)
AgentReleaseForgotten(a) ==
  /\ claim[a] # Nil
  /\ claim' = [claim EXCEPT ![a] = Nil]
  /\ UNCHANGED <<listed, dropped>>
  /\ UNCHANGED storeVars

(* Release, after a fault in the attempt or in Record.  No event.          *)
AgentRelease(a) ==
  LET c == claim[a]
      d == c.dispute
  IN
  /\ c # Nil
  /\ version[d] = c.version
  /\ Move(d, "received")
  /\ claim' = [claim EXCEPT ![a] = Nil]
  /\ UNCHANGED <<resolved, refunded, posted, books, trail, outbox, runs, clock, listed, dropped>>

(* ErrClaimLost, at Record or at Release: the dispute moved on.            *)
AgentClaimLost(a) ==
  /\ claim[a] # Nil
  /\ version[claim[a].dispute] # claim[a].version
  /\ claim' = [claim EXCEPT ![a] = Nil]
  /\ UNCHANGED <<listed, dropped>>
  /\ UNCHANGED storeVars

(* What an agent leaves behind when it gives a claim up unreleased.        *)
Leaves(a) ==
  /\ claim' = [claim EXCEPT ![a] = Nil]
  /\ dropped' = IF claim[a] # Nil /\ version[claim[a].dispute] = claim[a].version
                THEN dropped \cup {claim[a]}
                ELSE dropped
  /\ UNCHANGED storeVars

(* Release fails, which Assist logs and no more: for a reason of its own,  *)
(* or because it runs under the context whose end was the fault, and which *)
(* ends the list as well.                                                  *)
AgentReleaseFails(a) ==
  /\ Fails
  /\ claim[a] # Nil
  /\ listed' \in {listed, [listed EXCEPT ![a] = {}]}
  /\ Leaves(a)

AgentCrash(a) ==
  /\ Crashes
  /\ claim[a] # Nil \/ listed[a] # {}
  /\ listed' = [listed EXCEPT ![a] = {}]
  /\ Leaves(a)

AgentNext ==
  \E a \in Agents :
    \/ AgentList(a)
    \/ \E d \in Disputes : AgentHold(a, d) \/ AgentHoldUnanswered(a, d) \/ AgentSkip(a, d)
    \/ \E outcome \in Outcome : AgentRecord(a, outcome)
    \/ AgentRelease(a)
    \/ AgentClaimLost(a)
    \/ AgentReleaseFails(a)
    \/ AgentCrash(a)
=============================================================================
