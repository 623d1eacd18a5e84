---------------------------- MODULE MessageQueue ----------------------------
(***************************************************************************)
(* The two SQS queues (external), as far as the relay, the consumer and    *)
(* the redrive tool can tell: infra/terraform/messaging.tf configures      *)
(* them.  Every message sent is a copy of an outbox row; a received copy   *)
(* is hidden until its visibility timeout lapses, and one received too     *)
(* often goes to the dead-letter queue.  Retention is left out: days.      *)
(***************************************************************************)
EXTENDS Integers, FiniteSets

CONSTANTS
  Rows,        (* outbox rows, by id                                        *)
  Copies,      (* bound: messages sent, in the order they are               *)
  MaxReceives, (* maxReceiveCount                                           *)
  MaxFaults    (* bound: failing calls, dead processes, overrun timeouts    *)

ASSUME QueueAssumption ==
  /\ Rows \subseteq Nat
  /\ Copies \subseteq Nat
  /\ MaxReceives \in Nat \ {0}
  /\ MaxFaults \in Nat

VARIABLES
  at,       (* where a copy is                                              *)
  of,       (* the row it was made from                                     *)
  hidden,   (* the copies somebody has received                             *)
  receives, (* ApproximateReceiveCount on the main queue                    *)
  redrives, (* redrive_count                                                *)
  faults

queueVars == <<at, of, hidden, receives, redrives>>

QueueTypeOK ==
  /\ at \in [Copies -> {"unsent", "main", "dead", "deleted"}]
  /\ of \in [Copies -> Rows]
  /\ hidden \subseteq Copies
  /\ receives \in [Copies -> 0..MaxReceives]
  /\ redrives \in [Copies -> Nat]
  /\ faults \in Nat

QueueInit ==
  /\ at = [c \in Copies |-> "unsent"]
  /\ of \in [Copies -> {x \in Rows : \A y \in Rows : x <= y}]
  /\ hidden = {}
  /\ receives = [c \in Copies |-> 0]
  /\ redrives = [c \in Copies |-> 0]
  /\ faults = 0

Fault == faults < MaxFaults /\ faults' = faults + 1

(* SendMessage.                                                            *)
Unused(c) == at[c] = "unsent" /\ \A b \in Copies : b < c => at[b] # "unsent"

Send(x, redriven) ==
  \E c \in Copies :
    /\ Unused(c)
    /\ at' = [at EXCEPT ![c] = "main"]
    /\ of' = [of EXCEPT ![c] = x]
    /\ redrives' = [redrives EXCEPT ![c] = redriven]
    /\ UNCHANGED <<hidden, receives>>

(* ReceiveMessage on the main queue, and on the dead-letter queue.         *)
Visible(queue) == {c \in Copies : at[c] = queue /\ c \notin hidden}

Receivable == {c \in Visible("main") : receives[c] < MaxReceives}

Receive(cs) ==
  /\ hidden' = hidden \cup cs
  /\ receives' = [c \in Copies |->
                    IF at[c] = "main" /\ c \in cs THEN receives[c] + 1 ELSE receives[c]]
  /\ UNCHANGED <<at, of, redrives>>

(* DeleteMessage, which comes to nothing if the copy is no longer there.   *)
Delete(c, queue) ==
  /\ at' = [at EXCEPT ![c] = IF @ = queue THEN "deleted" ELSE @]
  /\ hidden' = IF at[c] = queue THEN hidden \ {c} ELSE hidden
  /\ UNCHANGED <<of, receives, redrives>>

(* ChangeMessageVisibility to 0, or the end of the timeout.                *)
Show(cs) == hidden' = hidden \ cs /\ UNCHANGED <<at, of, receives, redrives>>

(* The redrive policy.                                                     *)
DeadLetter(c) ==
  /\ c \in Visible("main")
  /\ receives[c] = MaxReceives
  /\ at' = [at EXCEPT ![c] = "dead"]
  /\ UNCHANGED <<of, hidden, receives, redrives>>
=============================================================================
