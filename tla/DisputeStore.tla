---------------------------- MODULE DisputeStore ----------------------------
(***************************************************************************)
(* The Postgres tables every actor of the dispute lifecycle reads and      *)
(* writes, and the statements they share.  A transaction of the code is    *)
(* one action of the module that issues it: it holds the dispute's row     *)
(* lock from its UPDATE to its COMMIT, and a statement that fails (a       *)
(* unique key, a CHECK, the balance trigger) undoes all of it.             *)
(***************************************************************************)
EXTENDS Ledger, Sequences

CONSTANTS
  Disputes,      (* the disputes processors may report                       *)
  Charges,       (* the rows of transactions: what the platform has captured *)
  KindOf,        (* disputes.kind                                            *)
  ChargeOf,      (* the charge a dispute names, known here or not            *)
  AmountOf,      (* disputes.amount_minor                                    *)
  CapturedOf,    (* transactions.amount_minor                                *)
  CeilingOf,     (* merchants.auto_refund_ceiling_minor, or Nil              *)
  AccountsOf,    (* the ledger accounts that exist in the dispute's currency *)
  Nil

Kind == {"alert", "chargeback"}

ASSUME StoreAssumption ==
  /\ KindOf \in [Disputes -> Kind]
  /\ AmountOf \in [Disputes -> Nat \ {0}]
  /\ CapturedOf \in [Charges -> Nat \ {0}]
  /\ \A d \in Disputes : CeilingOf[d] = Nil \/ CeilingOf[d] \in Nat
  /\ AccountsOf \in [Disputes -> {Account, PlatformAccount, {}}]

VARIABLES
  state,      (* disputes.state, "absent" before the row exists             *)
  version,    (* disputes.version                                           *)
  resolved,   (* disputes.resolved_at IS NOT NULL                           *)
  refunded,   (* transactions.refunded_minor                                *)
  posted,     (* the external_refs of ledger_transactions, per dispute      *)
  books,      (* the dispute's ledger_entries, netted per account           *)
  trail,      (* dispute_events: <<from_state, to_state>> in order          *)
  outbox,     (* outbox rows of the dispute: the state each announces       *)
  runs,       (* agent_runs, indexed by attempt                             *)
  clock       (* where now() stands against deadline_at                     *)

moneyVars == <<refunded, posted, books>>
storeVars == <<state, version, resolved, refunded, posted, books, trail,
               outbox, runs, clock>>

State == {"absent", "received", "resolving", "draft_ready", "represented",
          "refunded", "won", "lost", "expired"}

Terminal == {"refunded", "won", "lost", "expired"}

(* The states OpenDeadlines and the rule engine's stillOpen list.          *)
OnTheClock == {"received", "resolving", "draft_ready"}

Outcome == {"drafted", "rejected", "insufficient_evidence", "budget_exceeded"}

Review == {"none", "submitted", "discarded"}

Run == [outcome : Outcome, review : Review]

(* "closing" is the last five minutes, which Candidates leaves alone.      *)
Clock == {"open", "closing", "past"}

StoreTypeOK ==
  /\ state \in [Disputes -> State]
  /\ version \in [Disputes -> Nat]
  /\ resolved \in [Disputes -> BOOLEAN]
  /\ refunded \in [Charges -> Nat]
  /\ posted \in [Disputes -> SUBSET Ref]
  /\ books \in [Disputes -> [Account -> Int]]
  /\ trail \in [Disputes -> Seq(State \X State)]
  /\ outbox \in [Disputes -> Seq(State)]
  /\ runs \in [Disputes -> Seq(Run)]
  /\ clock \in [Disputes -> Clock]

StoreInit ==
  /\ state = [d \in Disputes |-> "absent"]
  /\ version = [d \in Disputes |-> 0]
  /\ resolved = [d \in Disputes |-> FALSE]
  /\ refunded = [c \in Charges |-> 0]
  /\ posted = [d \in Disputes |-> {}]
  /\ books = [d \in Disputes |-> Nothing]
  /\ trail = [d \in Disputes |-> <<>>]
  /\ outbox = [d \in Disputes |-> <<>>]
  /\ runs = [d \in Disputes |-> <<>>]
  /\ clock = [d \in Disputes |-> "open"]

(* A seeded bug: the write that ends a dispute does not bump its version.  *)
EndWithoutVersion(d, to) ==
  /\ state' = [state EXCEPT ![d] = to]
  /\ version' = [version EXCEPT ![d] = IF to \in Terminal THEN @ ELSE @ + 1]

(* UPDATE disputes SET state = to, version = version + 1 ...               *)
Move(d, to) ==
  /\ state' = [state EXCEPT ![d] = to]
  /\ version' = [version EXCEPT ![d] = @ + 1]

Resolve(d) == resolved' = [resolved EXCEPT ![d] = TRUE]

(* events.Record                                                           *)
RecordEvent(d, from, to) == trail' = [trail EXCEPT ![d] = Append(@, <<from, to>>)]

(* outbox.Insert: the event type is 'dispute.' and the new state.          *)
Announce(d, to) == outbox' = [outbox EXCEPT ![d] = Append(@, to)]

(* What ledger.write inserts for one dispute.                              *)
Entry(d, ref) == Written(Legs(ref, AmountOf[d]), AccountsOf[d])

(* The two ways a posting fails the transaction it is part of: its         *)
(* external_ref exists already, or its legs do not balance at COMMIT.      *)
Postable(d, ref) == ref \notin posted[d] /\ AcceptedAtCommit(Entry(d, ref))

Post(d, ref) ==
  /\ posted' = [posted EXCEPT ![d] = @ \cup {ref}]
  /\ books' = [books EXCEPT ![d] = Plus(@, Entry(d, ref))]

PostNothing == UNCHANGED <<posted, books>>

(* Time passes, for a dispute on file or not.                              *)
Tick(d) ==
  /\ clock[d] # "past"
  /\ clock' = [clock EXCEPT ![d] = IF @ = "open" THEN "closing" ELSE "past"]
  /\ UNCHANGED <<state, version, resolved, refunded, posted, books, trail,
                 outbox, runs>>
=============================================================================
