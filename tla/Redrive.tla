------------------------------- MODULE Redrive ------------------------------
(***************************************************************************)
(* The dead-letter tool (internal/dlq/redrive.go, cmd/dlq): an operator    *)
(* looks at the dead letters, puts them back on the main queue, or purges  *)
(* them.                                                                   *)
(***************************************************************************)
EXTENDS MessageQueue

CONSTANTS
  Operators,   (* runs of the command                                       *)
  ReplayLimit, (* -n                                                        *)
  MaxRedrives, (* -max-redrives                                             *)
  ReceiveMax,  (* how many a receive returns at most: 10                    *)
  Nothing

ASSUME RedriveAssumption ==
  /\ ReplayLimit \in Nat \ {0} /\ MaxRedrives \in Nat /\ ReceiveMax \in Nat \ {0}
  /\ Nothing \notin Copies

VARIABLES
  command, (* what an operator is running                                   *)
  hand,    (* dead letters it has received and not come to                  *)
  skipped, (* those it leaves for the end                                   *)
  putBack, (* the one it has sent and not yet deleted                       *)
  count,   (* Replayed + Skipped + Failed                                   *)
  purged   (* rows whose dead letters somebody destroyed                    *)

redriveVars == <<command, hand, skipped, putBack, count, purged>>

RedriveTypeOK ==
  /\ command \in [Operators -> {"none", "look", "replay"}]
  /\ hand \in [Operators -> SUBSET Copies]
  /\ skipped \in [Operators -> SUBSET Copies]
  /\ putBack \in [Operators -> Copies \cup {Nothing}]
  /\ count \in [Operators -> Nat]
  /\ purged \subseteq Rows

RedriveInit ==
  /\ command = [o \in Operators |-> "none"]
  /\ hand = [o \in Operators |-> {}]
  /\ skipped = [o \in Operators |-> {}]
  /\ putBack = [o \in Operators |-> Nothing]
  /\ count = [o \in Operators |-> 0]
  /\ purged = {}

DeadBatches == {cs \in SUBSET Visible("dead") :
                  cs # {} /\ Cardinality(cs) <= ReceiveMax /\ Cardinality(cs) <= ReplayLimit}

(* Peek, and Replay's dry run: received, counted, and handed back.         *)
Look(o) ==
  /\ command[o] # "replay"
  /\ \E cs \in DeadBatches :
       /\ Cardinality(hand[o] \cup cs) <= ReplayLimit
       /\ Receive(cs)
       /\ hand' = [hand EXCEPT ![o] = @ \cup cs]
  /\ command' = [command EXCEPT ![o] = "look"]
  /\ UNCHANGED <<skipped, putBack, count, purged, faults>>

Looked(o) ==
  /\ command[o] = "look"
  /\ Show(hand[o])
  /\ hand' = [hand EXCEPT ![o] = {}]
  /\ command' = [command EXCEPT ![o] = "none"]
  /\ UNCHANGED <<skipped, putBack, count, purged, faults>>

(* Replay's loop, one receive.                                             *)
Pull(o) ==
  /\ command[o] # "look"
  /\ hand[o] = {} /\ putBack[o] = Nothing
  /\ count[o] < ReplayLimit
  /\ \E cs \in DeadBatches :
       /\ Receive(cs)
       /\ hand' = [hand EXCEPT ![o] = @ \cup cs]
  /\ command' = [command EXCEPT ![o] = "replay"]
  /\ UNCHANGED <<skipped, putBack, count, purged, faults>>

Replaying(o, c) == command[o] = "replay" /\ putBack[o] = Nothing /\ c \in hand[o]

Handled(o, c) == hand' = [hand EXCEPT ![o] = @ \ {c}]

(* A seeded bug: the count is not looked at.                               *)
NeverExhausted(c) == FALSE

Exhausted(c) == redrives[c] >= MaxRedrives

Skip(o, c) ==
  /\ Replaying(o, c)
  /\ Exhausted(c)
  /\ skipped' = [skipped EXCEPT ![o] = @ \cup {c}]
  /\ count' = [count EXCEPT ![o] = @ + 1]
  /\ Handled(o, c)
  /\ UNCHANGED <<command, putBack, purged, queueVars, faults>>

Resend(o, c) ==
  /\ Replaying(o, c)
  /\ ~Exhausted(c)
  /\ Send(of[c], redrives[c] + 1)
  /\ putBack' = [putBack EXCEPT ![o] = c]
  /\ Handled(o, c)
  /\ UNCHANGED <<command, skipped, count, purged, faults>>

(* The message may be on the main queue all the same.                      *)
ResendFails(o, c) ==
  /\ Replaying(o, c)
  /\ ~Exhausted(c)
  /\ Fault
  /\ Send(of[c], redrives[c] + 1) \/ UNCHANGED queueVars
  /\ count' = [count EXCEPT ![o] = @ + 1]
  /\ Handled(o, c)
  /\ UNCHANGED <<command, skipped, putBack, purged>>

Remove(o) ==
  /\ putBack[o] # Nothing
  /\ Delete(putBack[o], "dead")
  /\ putBack' = [putBack EXCEPT ![o] = Nothing]
  /\ count' = [count EXCEPT ![o] = @ + 1]
  /\ UNCHANGED <<command, hand, skipped, purged, faults>>

RemoveFails(o) ==
  /\ putBack[o] # Nothing
  /\ Fault
  /\ putBack' = [putBack EXCEPT ![o] = Nothing]
  /\ count' = [count EXCEPT ![o] = @ + 1]
  /\ UNCHANGED <<command, hand, skipped, purged, queueVars>>

Quit(o) ==
  /\ command' = [command EXCEPT ![o] = "none"]
  /\ hand' = [hand EXCEPT ![o] = {}]
  /\ skipped' = [skipped EXCEPT ![o] = {}]
  /\ putBack' = [putBack EXCEPT ![o] = Nothing]
  /\ count' = [count EXCEPT ![o] = 0]

(* The loop ends: at its limit, on an empty receive, or on a failed one.   *)
Finish(o) ==
  /\ command[o] = "replay"
  /\ hand[o] = {} /\ putBack[o] = Nothing
  /\ Show(skipped[o])
  /\ Quit(o)
  /\ UNCHANGED <<purged, faults>>

(* Interrupted, or past the command's two minutes: nothing is released.    *)
Abandon(o) ==
  /\ command[o] # "none"
  /\ Fault
  /\ Quit(o)
  /\ UNCHANGED <<purged, queueVars>>

Purge(o) ==
  /\ command[o] = "none"
  /\ \E c \in Copies : at[c] = "dead"
  /\ purged' = purged \cup {of[c] : c \in {b \in Copies : at[b] = "dead"}}
  /\ at' = [c \in Copies |-> IF at[c] = "dead" THEN "deleted" ELSE at[c]]
  /\ hidden' = {c \in hidden : at[c] # "dead"}
  /\ UNCHANGED <<command, hand, skipped, putBack, count, of, receives, redrives, faults>>

Operate(o) ==
  \/ Look(o) \/ Looked(o) \/ Pull(o) \/ Remove(o) \/ RemoveFails(o)
  \/ Finish(o) \/ Abandon(o) \/ Purge(o)
  \/ \E c \in Copies : Skip(o, c) \/ Resend(o, c) \/ ResendFails(o, c)
=============================================================================
