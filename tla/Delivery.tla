------------------------------ MODULE Delivery ------------------------------
(***************************************************************************)
(* The way of an event from the transaction that wrote it to the worker    *)
(* that acts on it: relays, the two queues, consumers and an operator at   *)
(* the dead letters.                                                       *)
(***************************************************************************)
EXTENDS OutboxRelay, QueueConsumer, Redrive

vars == <<queueVars, faults, relayVars, consumerVars, redriveVars>>

TypeOK == QueueTypeOK /\ RelayTypeOK /\ ConsumerTypeOK /\ RedriveTypeOK

Init == QueueInit /\ RelayInit /\ ConsumerInit /\ RedriveInit

InHand(c) ==
  \/ \E w \in Workers : c \in inbox[w] \/ acting[w] = c
  \/ \E o \in Operators : c \in hand[o] \cup skipped[o] \/ putBack[o] = c

(* A visibility timeout ends; too early if somebody still has the message. *)
Lapse(c) ==
  /\ c \in hidden
  /\ Show({c})
  /\ IF InHand(c) THEN Fault ELSE UNCHANGED faults

Queues ==
  \E c \in Copies : Lapse(c) \/ (DeadLetter(c) /\ UNCHANGED faults)

Next ==
  \/ /\ Queues
     /\ UNCHANGED <<relayVars, consumerVars, redriveVars>>
  \/ /\ (\E x \in Rows : Insert(x)) \/ (\E r \in Relays : Relay(r))
     /\ UNCHANGED <<consumerVars, redriveVars>>
  \/ /\ \E w \in Workers : Consume(w)
     /\ UNCHANGED <<relayVars, redriveVars>>
  \/ /\ \E o \in Operators : Operate(o)
     /\ UNCHANGED <<relayVars, consumerVars>>

Spec == Init /\ [][Next]_vars

(* The relay has a ticker, the consumer a loop, and SQS its timeouts;      *)
(* nobody has to run the redrive command.                                  *)
Fairness ==
  /\ \A r \in Relays :
       WF_vars(Relay(r) /\ UNCHANGED <<consumerVars, redriveVars>>)
  /\ \A w \in Workers :
       WF_vars(Consume(w) /\ UNCHANGED <<relayVars, redriveVars>>)
  /\ WF_vars(/\ \E c \in Copies : (~InHand(c) /\ Lapse(c)) \/ (DeadLetter(c) /\ UNCHANGED faults)
             /\ UNCHANGED <<relayVars, consumerVars, redriveVars>>)

FairSpec == Spec /\ Fairness

-----------------------------------------------------------------------------
CopiesOf(x) == {c \in Copies : at[c] # "unsent" /\ of[c] = x}

Dead(x) == \E c \in CopiesOf(x) : at[c] = "dead"

(* Publish before marking, act before deleting, send before deleting: a    *)
(* row is marked published only while its event is somewhere, or has been  *)
(* acted on, whichever of the processes fails between two of its steps.    *)
NeverLost ==
  \A x \in Rows : outbox[x] = "published" =>
    \/ x \in handled
    \/ x \in purged
    \/ \E c \in CopiesOf(x) : at[c] \in {"main", "dead"}

(* Two relays do not tell the same thing twice: until something fails,     *)
(* only an operator puts a second copy of an event on the queue.           *)
OnceUntilAFault ==
  faults = 0 => \A x \in Rows : \A b, c \in CopiesOf(x) :
                  redrives[b] = 0 /\ redrives[c] = 0 => b = c

(* A message that has been put back often enough stays with the dead       *)
(* letters, whoever replays them, until they are purged.                   *)
StaysDead ==
  [][\A c \in Copies : at[c] = "dead" /\ redrives[c] >= MaxRedrives =>
       at'[c] = "dead" \/ of[c] \in purged']_vars

(* The whole way implements AtLeastOnce.                                   *)
Promise == INSTANCE AtLeastOnce WITH
  committed <- {x \in Rows : outbox[x] # "absent"},
  acted <- handled,
  parked <- {x \in Rows : Dead(x) \/ x \in purged}

KeepsPromise == Promise!Spec
=============================================================================
