---------------------------- MODULE QueueConsumer ---------------------------
(***************************************************************************)
(* The queue consumer of a worker process (internal/worker/events.go): it  *)
(* receives a batch, acts on one message after the other, and deletes each *)
(* once it has acted on it.                                                *)
(***************************************************************************)
EXTENDS MessageQueue

CONSTANTS
  Workers,     (* worker processes                                          *)
  MaxMessages, (* ConsumerOptions.MaxMessages                               *)
  Unhandled,   (* rows the deployed consumer cannot act on: ErrUnhandled    *)
  None

ASSUME ConsumerAssumption ==
  MaxMessages \in Nat \ {0} /\ Unhandled \subseteq Rows /\ None \notin Copies

VARIABLES
  inbox,  (* what a consumer received and has not come to                   *)
  acting, (* the message it has acted on and not yet deleted                *)
  handled (* the rows acted on: scheduled, or nothing but acknowledged      *)

consumerVars == <<inbox, acting, handled>>

ConsumerTypeOK ==
  /\ inbox \in [Workers -> SUBSET Copies]
  /\ acting \in [Workers -> Copies \cup {None}]
  /\ handled \subseteq Rows

ConsumerInit ==
  /\ inbox = [w \in Workers |-> {}]
  /\ acting = [w \in Workers |-> None]
  /\ handled = {}

ReceiveBatch(w) ==
  /\ inbox[w] = {} /\ acting[w] = None
  /\ \E cs \in SUBSET Receivable \ {{}} :
       /\ Cardinality(cs) <= MaxMessages
       /\ Receive(cs)
       /\ inbox' = [inbox EXCEPT ![w] = cs]
  /\ UNCHANGED <<acting, handled, faults>>

(* process.                                                                *)
Process(w, c) ==
  /\ acting[w] = None
  /\ c \in inbox[w]
  /\ of[c] \notin Unhandled
  /\ handled' = handled \cup {of[c]}
  /\ acting' = [acting EXCEPT ![w] = c]
  /\ inbox' = [inbox EXCEPT ![w] = @ \ {c}]
  /\ UNCHANGED <<queueVars, faults>>

(* A seeded bug: a message is deleted whether it could be handled or not.  *)
DropMessage(c) == Delete(c, "main")

LeaveMessage(c) == UNCHANGED queueVars

(* Not deleted: left for redelivery.  The ZADD may have been done.         *)
ProcessFails(w, c) ==
  /\ acting[w] = None
  /\ c \in inbox[w]
  /\ \/ of[c] \in Unhandled /\ UNCHANGED <<handled, faults>>
     \/ of[c] \notin Unhandled /\ Fault /\ handled' \in {handled, handled \cup {of[c]}}
  /\ inbox' = [inbox EXCEPT ![w] = @ \ {c}]
  /\ LeaveMessage(c)
  /\ UNCHANGED acting

Acknowledge(w) ==
  /\ acting[w] # None
  /\ Delete(acting[w], "main")
  /\ acting' = [acting EXCEPT ![w] = None]
  /\ UNCHANGED <<inbox, handled, faults>>

AcknowledgeFails(w) ==
  /\ acting[w] # None
  /\ Fault
  /\ acting' = [acting EXCEPT ![w] = None]
  /\ UNCHANGED <<inbox, handled, queueVars>>

(* The process dies, or is told to stop.                                   *)
ConsumerDies(w) ==
  /\ inbox[w] # {} \/ acting[w] # None
  /\ Fault
  /\ inbox' = [inbox EXCEPT ![w] = {}]
  /\ acting' = [acting EXCEPT ![w] = None]
  /\ UNCHANGED <<handled, queueVars>>

Consume(w) ==
  \/ ReceiveBatch(w) \/ Acknowledge(w) \/ AcknowledgeFails(w) \/ ConsumerDies(w)
  \/ \E c \in Copies : Process(w, c) \/ ProcessFails(w, c)
=============================================================================
