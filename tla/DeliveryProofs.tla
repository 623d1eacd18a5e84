--------------------------- MODULE DeliveryProofs ---------------------------
(***************************************************************************)
(* Proofs about Delivery, for any rows, processes, operators and bounds.   *)
(***************************************************************************)
EXTENDS Delivery, TLAPS

-----------------------------------------------------------------------------
(* Types.                                                                  *)

LEMMA SendTyped ==
  ASSUME QueueTypeOK, NEW x \in Rows, NEW n \in Nat, Send(x, n), UNCHANGED faults \/ Fault
  PROVE  QueueTypeOK'
BY DEF QueueTypeOK, Send, Fault

LEMMA ReceiveTyped ==
  ASSUME QueueTypeOK, NEW cs \in SUBSET Copies, Receive(cs), UNCHANGED faults,
         \A c \in cs : at[c] = "main" => receives[c] < MaxReceives
  PROVE  QueueTypeOK'
<1>1. \A c \in Copies : receives'[c] \in 0..MaxReceives
  BY QueueAssumption DEF QueueTypeOK, Receive
<1> QED BY <1>1 DEF QueueTypeOK, Receive

LEMMA DeleteTyped ==
  ASSUME QueueTypeOK, NEW c \in Copies, NEW q, Delete(c, q), UNCHANGED faults
  PROVE  QueueTypeOK'
BY DEF QueueTypeOK, Delete

LEMMA SameQueueTyped ==
  ASSUME QueueTypeOK, UNCHANGED queueVars, UNCHANGED faults \/ Fault
  PROVE  QueueTypeOK'
BY DEF QueueTypeOK, queueVars, Fault

LEMMA RelayTyped ==
  ASSUME TypeOK, NEW r \in Relays, Relay(r)
  PROVE  QueueTypeOK' /\ RelayTypeOK'
<1> USE DEF TypeOK
<1>1. CASE Select(r)
  BY <1>1, SameQueueTyped DEF Select, Oldest, Claimable, RelayTypeOK
<1>2. ASSUME NEW x \in Rows, Publish(r, x) PROVE QueueTypeOK' /\ RelayTypeOK'
  BY <1>2, SendTyped DEF Publish, RelayTypeOK
<1>3. ASSUME NEW x \in Rows, PublishFails(r, x) PROVE QueueTypeOK' /\ RelayTypeOK'
  <2>1. QueueTypeOK'
    BY <1>3, SendTyped, SameQueueTyped DEF PublishFails
  <2>2. RelayTypeOK'
    BY <1>3 DEF PublishFails, Done, RelayTypeOK
  <2> QED BY <2>1, <2>2
<1>4. CASE Commit(r) \/ CommitFails(r) \/ RelayDies(r)
  <2>1. QueueTypeOK'
    BY <1>4, SameQueueTyped DEF Commit, CommitFails, RelayDies
  <2>2. RelayTypeOK'
    BY <1>4 DEF Commit, CommitFails, RelayDies, MarkPublished, Done, RelayTypeOK
  <2> QED BY <2>1, <2>2
<1> QED BY <1>1, <1>2, <1>3, <1>4 DEF Relay

LEMMA ConsumeTyped ==
  ASSUME TypeOK, NEW w \in Workers, Consume(w)
  PROVE  QueueTypeOK' /\ ConsumerTypeOK'
<1> USE DEF TypeOK
<1>1. CASE ReceiveBatch(w)
  <2>1. PICK cs \in SUBSET Receivable \ {{}} :
          Receive(cs) /\ inbox' = [inbox EXCEPT ![w] = cs]
    BY <1>1 DEF ReceiveBatch
  <2>2. QueueTypeOK'
    BY <1>1, <2>1, ReceiveTyped DEF ReceiveBatch, Receivable, Visible
  <2> QED BY <1>1, <2>1, <2>2 DEF ReceiveBatch, Receivable, Visible, ConsumerTypeOK
<1>2. ASSUME NEW c \in Copies, Process(w, c) \/ ProcessFails(w, c)
      PROVE  QueueTypeOK' /\ ConsumerTypeOK'
  <2>1. QueueTypeOK'
    BY <1>2, SameQueueTyped DEF Process, ProcessFails, LeaveMessage
  <2>2. ConsumerTypeOK'
    BY <1>2 DEF Process, ProcessFails, ConsumerTypeOK, QueueTypeOK
  <2> QED BY <2>1, <2>2
<1>3. CASE Acknowledge(w)
  <2>1. acting[w] \in Copies
    BY <1>3 DEF Acknowledge, ConsumerTypeOK
  <2> QED BY <1>3, <2>1, DeleteTyped DEF Acknowledge, ConsumerTypeOK
<1>4. CASE AcknowledgeFails(w) \/ ConsumerDies(w)
  BY <1>4, SameQueueTyped DEF AcknowledgeFails, ConsumerDies, ConsumerTypeOK
<1> QED BY <1>1, <1>2, <1>3, <1>4 DEF Consume

LEMMA OperateTyped ==
  ASSUME TypeOK, NEW o \in Operators, Operate(o)
  PROVE  QueueTypeOK' /\ RedriveTypeOK'
<1> USE DEF TypeOK
<1>1. CASE Look(o) \/ Pull(o)
  <2>1. PICK cs \in DeadBatches : Receive(cs) /\ hand' = [hand EXCEPT ![o] = @ \cup cs]
    BY <1>1 DEF Look, Pull
  <2>2. cs \in SUBSET Copies /\ \A c \in cs : at[c] = "dead"
    BY <2>1 DEF DeadBatches, Visible
  <2>3. QueueTypeOK'
    BY <1>1, <2>1, <2>2, ReceiveTyped DEF Look, Pull
  <2> QED BY <1>1, <2>1, <2>2, <2>3 DEF Look, Pull, RedriveTypeOK
<1>2. CASE Looked(o) \/ Finish(o)
  BY <1>2 DEF Looked, Finish, Show, Quit, RedriveTypeOK, QueueTypeOK
<1>3. ASSUME NEW c \in Copies, Skip(o, c) PROVE QueueTypeOK' /\ RedriveTypeOK'
  BY <1>3, SameQueueTyped DEF Skip, Handled, RedriveTypeOK
<1>4. ASSUME NEW c \in Copies, Resend(o, c) \/ ResendFails(o, c)
      PROVE  QueueTypeOK' /\ RedriveTypeOK'
  <2>1. of[c] \in Rows /\ redrives[c] + 1 \in Nat
    BY DEF QueueTypeOK
  <2>2. QueueTypeOK'
    BY <1>4, <2>1, SendTyped, SameQueueTyped DEF Resend, ResendFails
  <2> QED BY <1>4, <2>2 DEF Resend, ResendFails, Handled, RedriveTypeOK
<1>5. CASE Remove(o)
  <2>1. putBack[o] \in Copies
    BY <1>5 DEF Remove, RedriveTypeOK
  <2> QED BY <1>5, <2>1, DeleteTyped DEF Remove, RedriveTypeOK
<1>6. CASE RemoveFails(o) \/ Abandon(o)
  BY <1>6, SameQueueTyped DEF RemoveFails, Abandon, Quit, RedriveTypeOK
<1>7. CASE Purge(o)
  BY <1>7 DEF Purge, RedriveTypeOK, QueueTypeOK
<1> QED BY <1>1, <1>2, <1>3, <1>4, <1>5, <1>6, <1>7 DEF Operate

LEMMA TypeStep == TypeOK /\ [Next]_vars => TypeOK'
<1> SUFFICES ASSUME TypeOK, [Next]_vars PROVE TypeOK' OBVIOUS
<1>1. UNCHANGED relayVars => RelayTypeOK'
  BY DEF TypeOK, relayVars, RelayTypeOK
<1>2. UNCHANGED consumerVars => ConsumerTypeOK'
  BY DEF TypeOK, consumerVars, ConsumerTypeOK
<1>3. UNCHANGED redriveVars => RedriveTypeOK'
  BY DEF TypeOK, redriveVars, RedriveTypeOK
<1>4. CASE Queues /\ UNCHANGED <<relayVars, consumerVars, redriveVars>>
  <2>1. QueueTypeOK'
    BY <1>4 DEF Queues, Lapse, Show, DeadLetter, Fault, TypeOK, QueueTypeOK
  <2> QED BY <1>1, <1>2, <1>3, <1>4, <2>1 DEF TypeOK
<1>5. ASSUME NEW x \in Rows, Insert(x), UNCHANGED <<consumerVars, redriveVars>> PROVE TypeOK'
  BY <1>2, <1>3, <1>5, SameQueueTyped DEF Insert, TypeOK, RelayTypeOK
<1>6. CASE UNCHANGED vars
  BY <1>1, <1>2, <1>3, <1>6, SameQueueTyped DEF vars, TypeOK
<1> QED
  BY <1>1, <1>2, <1>3, <1>4, <1>5, <1>6, RelayTyped, ConsumeTyped, OperateTyped
     DEF Next, TypeOK

LEMMA TypeInit == Init => TypeOK
BY QueueAssumption DEF Init, QueueInit, RelayInit, ConsumerInit, RedriveInit, TypeOK,
   QueueTypeOK, RelayTypeOK, ConsumerTypeOK, RedriveTypeOK

(* Every row, copy and process of the delivery keeps its type.             *)
THEOREM DeliveryTypes == Spec => []TypeOK
BY TypeInit, TypeStep, PTL DEF Spec

-----------------------------------------------------------------------------
(* What becomes of the copies of a row.                                    *)

Alive(c) == at[c] \in {"main", "dead"}

Settled(x) == x \in handled \/ x \in purged

Carried(x) == Settled(x) \/ \E c \in Copies : Alive(c) /\ of[c] = x

(* A copy, or one made later of the same row, is still there.              *)
Kept(c) == Settled(of[c]) \/ \E b \in Copies : b >= c /\ Alive(b) /\ of[b] = of[c]

Succeeded(c) == Settled(of[c]) \/ \E b \in Copies : b > c /\ Alive(b) /\ of[b] = of[c]

(* Copies are sent in the order of their ids, and made of committed rows.  *)
Segment ==
  \A c \in Copies : at[c] # "unsent" =>
    /\ outbox[of[c]] # "absent"
    /\ \A b \in Copies : b < c => at[b] # "unsent"

RelayKnows(r) ==
  /\ sent[r] \subseteq batch[r]
  /\ \A x \in batch[r] : outbox[x] # "absent"
  /\ \A x \in sent[r] : Carried(x)

(* A message is deleted after it was acted on ...                          *)
ConsumerKnows(w) ==
  /\ \A c \in inbox[w] : at[c] # "unsent"
  /\ acting[w] # None => at[acting[w]] # "unsent" /\ of[acting[w]] \in handled

(* ... and a dead letter after a later copy of it was sent.                *)
OperatorKnows(o) ==
  /\ \A c \in hand[o] : at[c] # "unsent"
  /\ putBack[o] # Nothing => at[putBack[o]] # "unsent" /\ Succeeded(putBack[o])

Inv ==
  /\ TypeOK
  /\ Segment
  /\ \A r \in Relays : RelayKnows(r)
  /\ \A w \in Workers : ConsumerKnows(w)
  /\ \A o \in Operators : OperatorKnows(o)
  /\ \A x \in Rows : outbox[x] = "published" => Carried(x)

(* What every step leaves alone.                                           *)
Keeps ==
  /\ handled \subseteq handled'
  /\ purged \subseteq purged'
  /\ \A x \in Rows : outbox[x] # "absent" => outbox'[x] # "absent"
  /\ \A c \in Copies : at[c] # "unsent" => at'[c] # "unsent" /\ of'[c] = of[c]
  /\ \A c \in Copies : Alive(c) => Kept(c)'

LEMMA CarriedStays ==
  ASSUME Keeps, NEW x \in Rows, Carried(x)
  PROVE  Carried(x)'
<1>1. CASE Settled(x)
  BY <1>1 DEF Keeps, Carried, Settled
<1>2. ASSUME NEW c \in Copies, Alive(c), of[c] = x PROVE Carried(x)'
  <2>1. Kept(c)' /\ of'[c] = x
    BY <1>2 DEF Keeps, Alive
  <2> QED BY <2>1 DEF Kept, Carried, Settled, Alive
<1> QED BY <1>1, <1>2 DEF Carried

LEMMA SucceededStays ==
  ASSUME TypeOK, Keeps, NEW c \in Copies, at[c] # "unsent", Succeeded(c)
  PROVE  Succeeded(c)'
<1>1. of'[c] = of[c]
  BY DEF Keeps
<1>2. CASE Settled(of[c])
  BY <1>1, <1>2 DEF Keeps, Succeeded, Settled
<1>3. ASSUME NEW b \in Copies, b > c, Alive(b), of[b] = of[c] PROVE Succeeded(c)'
  <2>1. Kept(b)' /\ of'[b] = of[c]
    BY <1>3 DEF Keeps, Alive
  <2>2. CASE Settled(of[b])'
    BY <1>1, <2>1, <2>2 DEF Succeeded, Settled
  <2>3. ASSUME NEW d \in Copies, d >= b, Alive(d)', of'[d] = of'[b] PROVE Succeeded(c)'
    <3>1. d > c
      BY <1>3, <2>3, QueueAssumption
    <3> QED BY <1>1, <2>1, <2>3, <3>1 DEF Succeeded, Alive
  <2> QED BY <2>1, <2>2, <2>3 DEF Kept
<1> QED BY <1>2, <1>3 DEF Succeeded

-----------------------------------------------------------------------------
(* The steps of the queues.                                                *)

(* What a step does to the rows besides.                                   *)
Grows ==
  /\ handled \subseteq handled'
  /\ purged \subseteq purged'
  /\ \A x \in Rows : outbox[x] # "absent" => outbox'[x] # "absent"

LEMMA CalmKeeps ==
  ASSUME TypeOK, Segment, Grows, UNCHANGED <<at, of>>
  PROVE  Keeps /\ Segment'
<1>1. \A c \in Copies : Alive(c) => Kept(c)'
  BY QueueAssumption DEF Alive, Kept
<1>2. \A c \in Copies : of[c] \in Rows
  BY DEF TypeOK, QueueTypeOK
<1> QED BY <1>1, <1>2 DEF Keeps, Grows, Segment

(* A new copy comes after every other.                                     *)
LEMMA SendKeeps ==
  ASSUME TypeOK, Segment, Grows, NEW x \in Rows, NEW n, Send(x, n), outbox[x] # "absent"
  PROVE  /\ Keeps /\ Segment' /\ Carried(x)'
         /\ \A c \in Copies : at[c] # "unsent" /\ of[c] = x => Succeeded(c)'
<1>1. PICK d \in Copies : Unused(d) /\ at' = [at EXCEPT ![d] = "main"]
                          /\ of' = [of EXCEPT ![d] = x]
  BY DEF Send
<1>2. at'[d] = "main" /\ of'[d] = x
  BY <1>1 DEF TypeOK, QueueTypeOK
<1>3. \A c \in Copies : c # d => at'[c] = at[c] /\ of'[c] = of[c]
  BY <1>1 DEF TypeOK, QueueTypeOK
<1>4. \A c \in Copies : at[c] # "unsent" => c < d
  <2>1. SUFFICES ASSUME NEW c \in Copies, at[c] # "unsent" PROVE c < d
    OBVIOUS
  <2>2. c # d /\ ~(d < c)
    BY <1>1, <2>1 DEF Unused, Segment
  <2> QED BY <2>2, QueueAssumption
<1>5. \A c \in Copies : at[c] # "unsent" => at'[c] # "unsent" /\ of'[c] = of[c]
  BY <1>1, <1>3 DEF Unused
<1>6. \A c \in Copies : Alive(c) => Kept(c)'
  <2>1. SUFFICES ASSUME NEW c \in Copies, Alive(c) PROVE Kept(c)'
    OBVIOUS
  <2>2. c # d
    BY <1>1, <2>1 DEF Unused, Alive
  <2>3. Alive(c)' /\ c >= c
    BY <1>3, <2>1, <2>2, QueueAssumption DEF Alive
  <2> QED BY <2>3 DEF Kept
<1>7. Segment'
  <2>1. SUFFICES ASSUME NEW c \in Copies, at'[c] # "unsent"
                 PROVE  outbox'[of'[c]] # "absent" /\ \A b \in Copies : b < c => at'[b] # "unsent"
    BY DEF Segment
  <2>2. CASE c = d
    BY <1>1, <1>2, <1>5, <2>2 DEF Unused, Grows
  <2>3. CASE c # d
    <3>1. at[c] # "unsent" /\ of'[c] = of[c] /\ of[c] \in Rows
      BY <1>3, <2>1, <2>3 DEF TypeOK, QueueTypeOK
    <3> QED BY <1>5, <3>1 DEF Segment, Grows
  <2> QED BY <2>2, <2>3
<1>8. Carried(x)'
  BY <1>2 DEF Carried, Alive
<1>9. \A c \in Copies : at[c] # "unsent" /\ of[c] = x => Succeeded(c)'
  BY <1>2, <1>4, <1>5, QueueAssumption DEF Succeeded, Alive
<1> QED BY <1>5, <1>6, <1>7, <1>8, <1>9 DEF Keeps, Grows

(* Copies move, or are deleted, each with a copy after it or settled.      *)
LEMMA MoveKeeps ==
  ASSUME TypeOK, Segment, Grows, UNCHANGED of,
         \A c \in Copies : at[c] # "unsent" => at'[c] # "unsent",
         \A c \in Copies : at[c] = "unsent" => at'[c] = "unsent",
         \A c \in Copies : Alive(c) => Kept(c)'
  PROVE  Keeps /\ Segment'
<1>1. \A c \in Copies : of[c] \in Rows
  BY DEF TypeOK, QueueTypeOK
<1> QED BY <1>1 DEF Keeps, Grows, Segment

LEMMA DeleteKeeps ==
  ASSUME TypeOK, Segment, Grows, NEW c \in Copies, NEW q \in {"main", "dead"},
         Delete(c, q), Succeeded(c)
  PROVE  Keeps /\ Segment'
<1>1. of' = of /\ at' = [at EXCEPT ![c] = IF @ = q THEN "deleted" ELSE @]
  BY DEF Delete
<1>2. \A b \in Copies : b # c => at'[b] = at[b]
  BY <1>1 DEF TypeOK, QueueTypeOK
<1>3. at'[c] = at[c] \/ (at[c] = q /\ at'[c] = "deleted")
  BY <1>1 DEF TypeOK, QueueTypeOK
<1>4. ASSUME NEW b \in Copies, Alive(b) PROVE Kept(b)'
  <2>1. CASE b # c
    <3>1. Alive(b)' /\ b >= b
      BY <1>2, <1>4, <2>1, QueueAssumption DEF Alive
    <3> QED BY <3>1 DEF Kept
  <2>2. CASE b = c
    <3>1. CASE Settled(of[c])
      BY <1>1, <2>2, <3>1 DEF Grows, Settled, Kept
    <3>2. ASSUME NEW d \in Copies, d > c, Alive(d), of[d] = of[c] PROVE Kept(b)'
      <4>1. d # c /\ d >= c
        BY <3>2, QueueAssumption
      <4>2. Alive(d)'
        BY <1>2, <3>2, <4>1 DEF Alive
      <4> QED BY <1>1, <2>2, <3>2, <4>1, <4>2 DEF Kept
    <3> QED BY <3>1, <3>2 DEF Succeeded
  <2> QED BY <2>1, <2>2
<1>5. \A b \in Copies : (at[b] # "unsent" => at'[b] # "unsent")
                       /\ (at[b] = "unsent" => at'[b] = "unsent")
  BY <1>2, <1>3
<1> QED BY <1>1, <1>4, <1>5, MoveKeeps

LEMMA QueuesKeep ==
  ASSUME Inv, Queues, UNCHANGED <<relayVars, consumerVars, redriveVars>>
  PROVE  Keeps /\ Segment'
<1>0. TypeOK /\ Segment /\ Grows
  BY DEF Inv, Grows, relayVars, consumerVars, redriveVars
<1>1. CASE \E c \in Copies : Lapse(c)
  BY <1>0, <1>1, CalmKeeps DEF Lapse, Show
<1>2. ASSUME NEW c \in Copies, DeadLetter(c) PROVE Keeps /\ Segment'
  <2>1. of' = of /\ at[c] = "main" /\ at' = [at EXCEPT ![c] = "dead"]
    BY <1>2 DEF DeadLetter, Visible
  <2>2. \A b \in Copies : Alive(b) => Alive(b)'
    BY <1>0, <2>1 DEF TypeOK, QueueTypeOK, Alive
  <2>3. \A b \in Copies : Alive(b) => Kept(b)'
    BY <2>2, QueueAssumption DEF Kept
  <2>4. \A b \in Copies : (at[b] # "unsent" => at'[b] # "unsent")
                         /\ (at[b] = "unsent" => at'[b] = "unsent")
    BY <1>0, <2>1 DEF TypeOK, QueueTypeOK
  <2> QED BY <1>0, <2>1, <2>3, <2>4, MoveKeeps
<1> QED BY <1>1, <1>2 DEF Queues

-----------------------------------------------------------------------------
(* What each process knows.                                                *)

LEMMA RelayStays ==
  ASSUME TypeOK, Keeps, NEW r \in Relays, RelayKnows(r), UNCHANGED <<batch, sent>>
  PROVE  RelayKnows(r)'
BY CarriedStays DEF RelayKnows, Keeps, TypeOK, RelayTypeOK

LEMMA ConsumerStays ==
  ASSUME TypeOK, Keeps, NEW w \in Workers, ConsumerKnows(w), UNCHANGED <<inbox, acting>>
  PROVE  ConsumerKnows(w)'
<1>1. inbox[w] \subseteq Copies /\ (acting[w] # None => acting[w] \in Copies)
  BY DEF TypeOK, ConsumerTypeOK
<1> QED BY <1>1 DEF ConsumerKnows, Keeps

LEMMA OperatorStays ==
  ASSUME TypeOK, Keeps, NEW o \in Operators, OperatorKnows(o), UNCHANGED <<hand, putBack>>
  PROVE  OperatorKnows(o)'
<1>1. hand[o] \subseteq Copies /\ (putBack[o] # Nothing => putBack[o] \in Copies)
  BY DEF TypeOK, RedriveTypeOK
<1> QED BY <1>1, SucceededStays DEF OperatorKnows, Keeps

LEMMA PublishedStays ==
  ASSUME Inv, Keeps, \A x \in Rows : outbox'[x] = "published" =>
                       outbox[x] = "published" \/ Carried(x)
  PROVE  \A x \in Rows : outbox'[x] = "published" => Carried(x)'
BY CarriedStays DEF Inv

LEMMA InsertSafe ==
  ASSUME Inv, NEW x \in Rows, Insert(x), UNCHANGED <<consumerVars, redriveVars>>
  PROVE  /\ Keeps /\ Segment' /\ \A r \in Relays : RelayKnows(r)'
         /\ \A y \in Rows : outbox'[y] = "published" => outbox[y] = "published"
<1>0. TypeOK /\ Segment /\ Grows
  BY DEF Inv, Insert, consumerVars, redriveVars, Grows, TypeOK, RelayTypeOK
<1>1. Keeps /\ Segment'
  BY <1>0, CalmKeeps DEF Insert, queueVars
<1>2. \A r \in Relays : RelayKnows(r)'
  BY <1>0, <1>1, RelayStays DEF Inv, Insert
<1> QED BY <1>0, <1>1, <1>2 DEF Insert, TypeOK, RelayTypeOK

LEMMA RelaySafe ==
  ASSUME Inv, NEW r \in Relays, Relay(r), UNCHANGED <<consumerVars, redriveVars>>
  PROVE  /\ Keeps /\ Segment' /\ \A s \in Relays : RelayKnows(s)'
         /\ \A x \in Rows : outbox'[x] = "published" => outbox[x] = "published" \/ Carried(x)
<1> DEFINE Marked == \A x \in Rows : outbox'[x] = "published" =>
                                     outbox[x] = "published" \/ Carried(x)
           Others == \A s \in Relays \ {r} : batch'[s] = batch[s] /\ sent'[s] = sent[s]
<1>0. TypeOK /\ Segment /\ RelayTypeOK /\ RelayKnows(r)
  BY DEF Inv, TypeOK
<1>1. ASSUME Keeps, Others PROVE \A s \in Relays \ {r} : RelayKnows(s)'
  BY <1>0, <1>1, CarriedStays DEF Inv, RelayKnows, Keeps, RelayTypeOK
<1>2. ASSUME UNCHANGED outbox PROVE Grows /\ Marked
  BY <1>2 DEF Grows, consumerVars, redriveVars
<1>3. CASE Select(r)
  <2>1. PICK xs \in SUBSET Claimable : batch' = [batch EXCEPT ![r] = xs]
    BY <1>3 DEF Select, Oldest
  <2>2. Keeps /\ Segment' /\ Marked
    BY <1>0, <1>2, <1>3, CalmKeeps DEF Select, queueVars
  <2>3. Others /\ sent'[r] = {} /\ batch'[r] = xs
    BY <1>0, <1>3, <2>1 DEF Select, RelayTypeOK, RelayKnows
  <2>4. \A x \in batch'[r] : outbox'[x] # "absent"
    BY <1>3, <2>1, <2>3 DEF Select, Claimable
  <2>5. RelayKnows(r)'
    BY <2>3, <2>4 DEF RelayKnows
  <2> QED BY <1>1, <2>2, <2>3, <2>5
<1>4. ASSUME Done(r) PROVE Others /\ batch'[r] = {} /\ sent'[r] = {}
  BY <1>0, <1>4 DEF Done, RelayTypeOK
<1>5. ASSUME Keeps, Done(r) PROVE \A s \in Relays : RelayKnows(s)'
  BY <1>1, <1>4, <1>5 DEF RelayKnows
<1>6. ASSUME NEW x \in Rows, Publish(r, x)
      PROVE  Keeps /\ Segment' /\ Marked /\ \A s \in Relays : RelayKnows(s)'
  <2>1. Send(x, 0) /\ outbox[x] # "absent" /\ Grows /\ Marked
    BY <1>0, <1>2, <1>6 DEF Publish, Following, RelayKnows
  <2>2. Keeps /\ Segment' /\ Carried(x)'
    BY <1>0, <2>1, SendKeeps
  <2>3. Others /\ batch' = batch /\ sent'[r] = sent[r] \cup {x} /\ x \in batch[r]
    BY <1>0, <1>6 DEF Publish, Following, RelayTypeOK
  <2>4. RelayKnows(r)'
    BY <1>0, <2>2, <2>3, CarriedStays DEF RelayKnows, Keeps, RelayTypeOK
  <2> QED BY <1>1, <2>1, <2>2, <2>3, <2>4
<1>7. ASSUME NEW x \in Rows, PublishFails(r, x)
      PROVE  Keeps /\ Segment' /\ Marked /\ \A s \in Relays : RelayKnows(s)'
  <2>1. outbox[x] # "absent" /\ Grows /\ Marked
    BY <1>0, <1>2, <1>7 DEF PublishFails, Following, RelayKnows
  <2>2. Send(x, 0) \/ UNCHANGED <<at, of>>
    BY <1>7 DEF PublishFails, queueVars
  <2>3. Keeps /\ Segment'
    BY <1>0, <2>1, <2>2, SendKeeps, CalmKeeps
  <2>4. CASE Done(r)
    BY <1>5, <2>1, <2>3, <2>4
  <2>5. CASE UNCHANGED <<batch, sent>>
    BY <1>0, <2>1, <2>3, <2>5, RelayStays DEF Inv
  <2> QED BY <1>7, <2>4, <2>5 DEF PublishFails
<1>8. ASSUME UNCHANGED outbox \/ MarkPublished(r) PROVE Grows /\ Marked
  <2>1. sent[r] \subseteq Rows /\ \A x \in sent[r] : Carried(x)
    BY <1>0 DEF RelayKnows, RelayTypeOK
  <2>2. \A x \in Rows : outbox'[x] = outbox[x] \/ (x \in sent[r] /\ outbox'[x] = "published")
    BY <1>8 DEF MarkPublished
  <2> QED BY <2>1, <2>2 DEF Grows, consumerVars, redriveVars
<1>9. CASE Commit(r) \/ CommitFails(r) \/ RelayDies(r)
  <2>1. Done(r) /\ UNCHANGED <<at, of>> /\ Grows /\ Marked
    BY <1>8, <1>9 DEF Commit, CommitFails, RelayDies, queueVars
  <2>2. Keeps /\ Segment'
    BY <1>0, <2>1, CalmKeeps
  <2> QED BY <1>5, <2>1, <2>2
<1> QED BY <1>3, <1>6, <1>7, <1>9 DEF Relay

LEMMA ConsumeSafe ==
  ASSUME Inv, NEW w \in Workers, Consume(w), UNCHANGED <<relayVars, redriveVars>>
  PROVE  Keeps /\ Segment' /\ \A v \in Workers : ConsumerKnows(v)'
<1> DEFINE Others == \A v \in Workers \ {w} : inbox'[v] = inbox[v] /\ acting'[v] = acting[v]
<1>0. TypeOK /\ Segment /\ ConsumerTypeOK /\ ConsumerKnows(w) /\ QueueTypeOK
  BY DEF Inv, TypeOK
<1>1. ASSUME Keeps, Others PROVE \A v \in Workers \ {w} : ConsumerKnows(v)'
  <2>1. \A v \in Workers : inbox[v] \subseteq Copies /\ (acting[v] # None => acting[v] \in Copies)
    BY <1>0 DEF ConsumerTypeOK
  <2> QED BY <1>1, <2>1 DEF Inv, ConsumerKnows, Keeps
<1>2. ASSUME handled \subseteq handled' PROVE Grows
  BY <1>2 DEF Grows, relayVars, redriveVars
<1>3. CASE ReceiveBatch(w)
  <2>1. PICK cs \in SUBSET Receivable \ {{}} :
          Receive(cs) /\ inbox' = [inbox EXCEPT ![w] = cs]
    BY <1>3 DEF ReceiveBatch
  <2>2. Keeps /\ Segment'
    BY <1>0, <1>2, <1>3, <2>1, CalmKeeps DEF ReceiveBatch, Receive
  <2>3. Others /\ inbox'[w] = cs /\ acting'[w] = None
    BY <1>0, <1>3, <2>1 DEF ReceiveBatch, ConsumerTypeOK
  <2>4. \A c \in cs : at'[c] = "main"
    BY <2>1 DEF Receive, Receivable, Visible
  <2>5. ConsumerKnows(w)'
    BY <2>3, <2>4 DEF ConsumerKnows
  <2> QED BY <1>1, <2>2, <2>3, <2>5
<1>4. ASSUME NEW c \in Copies, Process(w, c) \/ ProcessFails(w, c)
      PROVE  Keeps /\ Segment' /\ \A v \in Workers : ConsumerKnows(v)'
  <2>1. UNCHANGED <<at, of>> /\ handled \subseteq handled'
    BY <1>4 DEF Process, ProcessFails, LeaveMessage, queueVars
  <2>2. Keeps /\ Segment'
    BY <1>0, <1>2, <2>1, CalmKeeps
  <2>3. Others /\ inbox'[w] = inbox[w] \ {c} /\ c \in inbox[w]
    BY <1>0, <1>4 DEF Process, ProcessFails, ConsumerTypeOK
  <2>4. acting'[w] # None => acting'[w] = c /\ of[c] \in handled'
    BY <1>0, <1>4 DEF Process, ProcessFails, ConsumerTypeOK
  <2>5. ConsumerKnows(w)'
    BY <1>0, <2>1, <2>3, <2>4 DEF ConsumerKnows
  <2> QED BY <1>1, <2>2, <2>3, <2>5
<1>5. CASE Acknowledge(w)
  <2>1. acting[w] \in Copies /\ Succeeded(acting[w])
    BY <1>0, <1>5 DEF Acknowledge, ConsumerTypeOK, ConsumerKnows, Succeeded, Settled
  <2>2. Keeps /\ Segment'
    BY <1>0, <1>2, <1>5, <2>1, DeleteKeeps DEF Acknowledge
  <2>3. Others /\ inbox' = inbox /\ acting'[w] = None
    BY <1>0, <1>5 DEF Acknowledge, ConsumerTypeOK
  <2>4. ConsumerKnows(w)'
    BY <1>0, <2>2, <2>3 DEF ConsumerKnows, Keeps, ConsumerTypeOK
  <2> QED BY <1>1, <2>2, <2>3, <2>4
<1>6. CASE AcknowledgeFails(w) \/ ConsumerDies(w)
  <2>1. UNCHANGED <<at, of, handled>>
    BY <1>6 DEF AcknowledgeFails, ConsumerDies, queueVars
  <2>2. Keeps /\ Segment'
    BY <1>0, <1>2, <2>1, CalmKeeps
  <2>3. Others /\ inbox'[w] \subseteq inbox[w] /\ acting'[w] = None
    BY <1>0, <1>6 DEF AcknowledgeFails, ConsumerDies, ConsumerTypeOK
  <2>4. ConsumerKnows(w)'
    BY <1>0, <2>1, <2>3 DEF ConsumerKnows
  <2> QED BY <1>1, <2>2, <2>3, <2>4
<1> QED BY <1>3, <1>4, <1>5, <1>6 DEF Consume

LEMMA OperateSafe ==
  ASSUME Inv, NEW o \in Operators, Operate(o), UNCHANGED <<relayVars, consumerVars>>
  PROVE  Keeps /\ Segment' /\ \A p \in Operators : OperatorKnows(p)'
<1> DEFINE Others == \A p \in Operators \ {o} : hand'[p] = hand[p] /\ putBack'[p] = putBack[p]
<1>0. TypeOK /\ Segment /\ RedriveTypeOK /\ OperatorKnows(o) /\ QueueTypeOK
  BY DEF Inv, TypeOK
<1>1. ASSUME Keeps, Others PROVE \A p \in Operators \ {o} : OperatorKnows(p)'
  <2>1. SUFFICES ASSUME NEW p \in Operators \ {o} PROVE OperatorKnows(p)'
    OBVIOUS
  <2>2. hand'[p] = hand[p] /\ putBack'[p] = putBack[p] /\ OperatorKnows(p)
    BY <1>1 DEF Inv
  <2>3. \A c \in hand[p] : at'[c] # "unsent"
    BY <1>0, <1>1, <2>2 DEF OperatorKnows, Keeps, RedriveTypeOK
  <2>4. CASE putBack[p] # Nothing
    <3>1. PICK c \in Copies : c = putBack[p]
      BY <1>0, <2>4 DEF RedriveTypeOK
    <3>2. at[c] # "unsent" /\ Succeeded(c)
      BY <2>2, <2>4, <3>1 DEF OperatorKnows
    <3>3. at'[c] # "unsent" /\ Succeeded(c)'
      BY <1>0, <1>1, <3>2, SucceededStays DEF Keeps
    <3> QED BY <2>2, <2>3, <3>1, <3>3 DEF OperatorKnows
  <2> QED BY <2>2, <2>3, <2>4 DEF OperatorKnows
<1>2. ASSUME UNCHANGED handled, purged \subseteq purged' PROVE Grows
  BY <1>2 DEF Grows, relayVars
<1>3. ASSUME UNCHANGED <<at, of, purged>> PROVE Keeps /\ Segment'
  BY <1>0, <1>2, <1>3, CalmKeeps DEF consumerVars
<1>4. ASSUME Keeps, Others, \A c \in hand'[o] : at'[c] # "unsent", putBack'[o] = Nothing
      PROVE  \A p \in Operators : OperatorKnows(p)'
  BY <1>1, <1>4 DEF OperatorKnows
<1>5. CASE Look(o) \/ Pull(o)
  <2>1. PICK cs \in DeadBatches : Receive(cs) /\ hand' = [hand EXCEPT ![o] = @ \cup cs]
    BY <1>5 DEF Look, Pull
  <2>2. Keeps /\ Segment'
    BY <1>3, <1>5, <2>1 DEF Look, Pull, Receive
  <2>3. Others /\ hand'[o] = hand[o] \cup cs /\ putBack' = putBack
    BY <1>0, <1>5, <2>1 DEF Look, Pull, RedriveTypeOK
  <2>4. \A c \in hand'[o] : at'[c] # "unsent"
    BY <1>0, <2>1, <2>3 DEF Receive, DeadBatches, Visible, OperatorKnows
  <2>5. CASE putBack[o] # Nothing
    <3>1. PICK c \in Copies : c = putBack[o]
      BY <1>0, <2>5 DEF RedriveTypeOK
    <3>2. at'[c] # "unsent" /\ Succeeded(c)'
      BY <1>0, <2>2, <2>5, <3>1, SucceededStays DEF Keeps, OperatorKnows
    <3> QED BY <1>1, <2>2, <2>3, <2>4, <3>1, <3>2 DEF OperatorKnows
  <2> QED BY <1>4, <2>2, <2>3, <2>4, <2>5
<1>6. CASE Looked(o)
  <2>1. Keeps /\ Segment' /\ UNCHANGED putBack
    BY <1>3, <1>6 DEF Looked, Show
  <2>2. Others /\ hand'[o] = {}
    BY <1>0, <1>6 DEF Looked, RedriveTypeOK
  <2>3. CASE putBack[o] # Nothing
    <3>1. PICK c \in Copies : c = putBack[o]
      BY <1>0, <2>3 DEF RedriveTypeOK
    <3>2. at'[c] # "unsent" /\ Succeeded(c)'
      BY <1>0, <2>1, <2>3, <3>1, SucceededStays DEF Keeps, OperatorKnows
    <3> QED BY <1>1, <2>1, <2>2, <3>1, <3>2 DEF OperatorKnows
  <2> QED BY <1>4, <2>1, <2>2, <2>3
<1>7. ASSUME NEW c \in Copies, Skip(o, c) \/ Resend(o, c) \/ ResendFails(o, c)
      PROVE  Keeps /\ Segment' /\ \A p \in Operators : OperatorKnows(p)'
  <2>1. /\ putBack[o] = Nothing /\ c \in hand[o] /\ at[c] # "unsent"
        /\ of[c] \in Rows /\ outbox[of[c]] # "absent" /\ UNCHANGED <<handled, purged>>
    BY <1>0, <1>7
    DEF Skip, Resend, ResendFails, Replaying, OperatorKnows, QueueTypeOK, Segment, consumerVars
  <2>2. Send(of[c], redrives[c] + 1) \/ UNCHANGED <<at, of>>
    BY <1>7 DEF Skip, Resend, ResendFails, queueVars
  <2>3. Keeps /\ Segment'
    BY <1>0, <1>2, <1>3, <2>1, <2>2, SendKeeps
  <2>4. Others /\ hand'[o] = hand[o] \ {c}
    BY <1>0, <1>7 DEF Skip, Resend, ResendFails, Handled, RedriveTypeOK
  <2>5. \A b \in hand'[o] : at'[b] # "unsent"
    BY <1>0, <2>3, <2>4 DEF OperatorKnows, Keeps, RedriveTypeOK
  <2>6. CASE Resend(o, c)
    <3>1. putBack'[o] = c /\ at'[c] # "unsent"
      BY <1>0, <2>1, <2>3, <2>6 DEF Resend, RedriveTypeOK, Keeps
    <3>2. Succeeded(c)'
      BY <1>0, <1>2, <2>1, <2>6, SendKeeps DEF Resend
    <3> QED BY <1>1, <2>3, <2>4, <2>5, <3>1, <3>2 DEF OperatorKnows
  <2>7. CASE ~Resend(o, c)
    <3>1. putBack'[o] = Nothing
      BY <1>7, <2>1, <2>7 DEF Skip, ResendFails
    <3> QED BY <1>4, <2>3, <2>4, <2>5, <3>1
  <2> QED BY <2>6, <2>7
<1>8. CASE Remove(o) \/ RemoveFails(o) \/ Finish(o) \/ Abandon(o)
  <2>1. Keeps /\ Segment'
    <3>1. CASE Remove(o)
      <4>1. putBack[o] \in Copies /\ Succeeded(putBack[o]) /\ UNCHANGED <<handled, purged>>
        BY <1>0, <3>1 DEF Remove, RedriveTypeOK, OperatorKnows, consumerVars
      <4> QED BY <1>0, <1>2, <3>1, <4>1, DeleteKeeps DEF Remove
    <3>2. CASE RemoveFails(o) \/ Finish(o) \/ Abandon(o)
      BY <1>3, <3>2 DEF RemoveFails, Finish, Abandon, Show, queueVars
    <3> QED BY <1>8, <3>1, <3>2
  <2>2. Others /\ putBack'[o] = Nothing /\ hand'[o] \subseteq hand[o]
    BY <1>0, <1>8 DEF Remove, RemoveFails, Finish, Abandon, Quit, RedriveTypeOK
  <2>3. \A c \in hand'[o] : at'[c] # "unsent"
    BY <1>0, <2>1, <2>2 DEF OperatorKnows, Keeps, RedriveTypeOK
  <2> QED BY <1>4, <2>1, <2>2, <2>3
<1>9. CASE Purge(o)
  <2>1. /\ UNCHANGED <<of, handled, hand, putBack>> /\ Grows
        /\ purged' = purged \cup {of[c] : c \in {b \in Copies : at[b] = "dead"}}
        /\ at' = [c \in Copies |-> IF at[c] = "dead" THEN "deleted" ELSE at[c]]
    BY <1>2, <1>9 DEF Purge, consumerVars
  <2>2. \A c \in Copies : Alive(c) => Kept(c)'
    <3>1. SUFFICES ASSUME NEW c \in Copies, Alive(c) PROVE Kept(c)'
      OBVIOUS
    <3>2. CASE at[c] = "dead"
      BY <2>1, <3>2 DEF Kept, Settled
    <3>3. CASE at[c] = "main"
      <4>1. Alive(c)' /\ c >= c
        BY <2>1, <3>3, QueueAssumption DEF Alive
      <4> QED BY <4>1 DEF Kept
    <3> QED BY <3>1, <3>2, <3>3 DEF Alive
  <2>3. \A c \in Copies : (at[c] # "unsent" => at'[c] # "unsent")
                         /\ (at[c] = "unsent" => at'[c] = "unsent")
    BY <2>1
  <2>4. Keeps /\ Segment'
    BY <1>0, <2>1, <2>2, <2>3, MoveKeeps
  <2> QED BY <1>0, <2>1, <2>4, OperatorStays DEF Inv
<1> QED BY <1>5, <1>6, <1>7, <1>8, <1>9 DEF Operate

-----------------------------------------------------------------------------
LEMMA InvInit == Init => Inv
<1> SUFFICES ASSUME Init PROVE Inv
  OBVIOUS
<1>1. TypeOK
  BY TypeInit
<1>2. Segment /\ \A r \in Relays : RelayKnows(r)
  BY DEF Init, QueueInit, RelayInit, Segment, RelayKnows
<1>3. (\A w \in Workers : ConsumerKnows(w)) /\ \A o \in Operators : OperatorKnows(o)
  BY DEF Init, ConsumerInit, RedriveInit, ConsumerKnows, OperatorKnows
<1>4. \A x \in Rows : outbox[x] # "published"
  BY DEF Init, RelayInit
<1> QED BY <1>1, <1>2, <1>3, <1>4 DEF Inv

LEMMA InvStep == Inv /\ [Next]_vars => Inv'
<1> SUFFICES ASSUME Inv, [Next]_vars PROVE Inv'
  OBVIOUS
<1>0. TypeOK /\ TypeOK'
  BY TypeStep DEF Inv
<1> DEFINE Published == \A x \in Rows : outbox'[x] = "published" =>
                                        outbox[x] = "published" \/ Carried(x)
<1>1. Keeps /\ UNCHANGED relayVars => \A r \in Relays : RelayKnows(r)'
  BY <1>0, RelayStays DEF Inv, relayVars
<1>2. Keeps /\ UNCHANGED consumerVars => \A w \in Workers : ConsumerKnows(w)'
  BY <1>0, ConsumerStays DEF Inv, consumerVars
<1>3. Keeps /\ UNCHANGED redriveVars => \A o \in Operators : OperatorKnows(o)'
  BY <1>0, OperatorStays DEF Inv, redriveVars
<1>4. UNCHANGED relayVars => Published
  BY DEF relayVars
<1>5. ASSUME Keeps, Segment', \A r \in Relays : RelayKnows(r)', Published,
             \A w \in Workers : ConsumerKnows(w)', \A o \in Operators : OperatorKnows(o)'
      PROVE  Inv'
  BY <1>0, <1>5, PublishedStays DEF Inv
<1>6. CASE Queues /\ UNCHANGED <<relayVars, consumerVars, redriveVars>>
  BY <1>1, <1>2, <1>3, <1>4, <1>5, <1>6, QueuesKeep
<1>7. ASSUME NEW x \in Rows, Insert(x), UNCHANGED <<consumerVars, redriveVars>> PROVE Inv'
  BY <1>2, <1>3, <1>5, <1>7, InsertSafe
<1>8. ASSUME NEW r \in Relays, Relay(r), UNCHANGED <<consumerVars, redriveVars>> PROVE Inv'
  BY <1>2, <1>3, <1>5, <1>8, RelaySafe
<1>9. ASSUME NEW w \in Workers, Consume(w), UNCHANGED <<relayVars, redriveVars>> PROVE Inv'
  BY <1>1, <1>3, <1>4, <1>5, <1>9, ConsumeSafe
<1>10. ASSUME NEW o \in Operators, Operate(o), UNCHANGED <<relayVars, consumerVars>> PROVE Inv'
  BY <1>1, <1>2, <1>4, <1>5, <1>10, OperateSafe
<1>11. CASE UNCHANGED vars
  <2>1. Keeps /\ Segment'
    BY <1>0, <1>11, CalmKeeps DEF vars, queueVars, relayVars, consumerVars, redriveVars, Grows, Inv
  <2> QED BY <1>1, <1>2, <1>3, <1>4, <1>5, <1>11, <2>1 DEF vars
<1> QED BY <1>6, <1>7, <1>8, <1>9, <1>10, <1>11 DEF Next

(* Whichever process fails between two of its steps, a row is marked       *)
(* published only while its event is on a queue, or has been acted on, or  *)
(* was purged by somebody: for any number of processes, batches of any     *)
(* size, and any number of failures.                                       *)
THEOREM NothingLost == Spec => []NeverLost
<1>1. Inv => NeverLost
  BY DEF Inv, NeverLost, Carried, Settled, CopiesOf, Alive
<1> QED BY InvInit, InvStep, <1>1, PTL DEF Spec

-----------------------------------------------------------------------------
(* Delivery implements AtLeastOnce.                                        *)

Committed == {x \in Rows : outbox[x] # "absent"}

Parked == {x \in Rows : Dead(x) \/ x \in purged}

LEMMA StutterStep ==
  ASSUME Committed' = Committed, handled' = handled, Parked' = Parked
  PROVE  UNCHANGED Promise!vars
BY DEF Promise!vars, Committed, Parked

LEMMA ActStep ==
  ASSUME Committed' = Committed, Parked' = Parked, NEW x \in Committed,
         handled' = handled \cup {x}
  PROVE  [Promise!Next]_(Promise!vars)
<1>1. CASE x \in handled
  BY <1>1, StutterStep
<1>2. CASE x \notin handled
  <2>1. Promise!Act(x) /\ x \in Rows
    BY <1>2 DEF Promise!Act, Committed, Parked
  <2> QED BY <2>1 DEF Promise!Next
<1> QED BY <1>1, <1>2

LEMMA ParkStep ==
  ASSUME Committed' = Committed, handled' = handled, NEW x \in Committed,
         Parked' = Parked \cup {x}
  PROVE  [Promise!Next]_(Promise!vars)
<1>1. CASE x \in Parked
  BY <1>1, StutterStep
<1>2. CASE x \notin Parked
  <2>1. Promise!Park(x) /\ x \in Rows
    BY <1>2 DEF Promise!Park, Committed, Parked
  <2> QED BY <2>1 DEF Promise!Next
<1> QED BY <1>1, <1>2

LEMMA PutBackStep ==
  ASSUME Committed' = Committed, handled' = handled, NEW x \in Parked,
         Parked' = Parked \ {x}
  PROVE  [Promise!Next]_(Promise!vars)
<1>1. Promise!PutBack(x) /\ x \in Rows
  BY DEF Promise!PutBack, Committed, Parked
<1> QED BY <1>1 DEF Promise!Next

LEMMA SameDead ==
  ASSUME UNCHANGED purged,
         \/ UNCHANGED <<at, of>>
         \/ TypeOK /\ \E x \in Rows, n \in Nat : Send(x, n)
         \/ TypeOK /\ \E c \in Copies : Delete(c, "main")
  PROVE  Parked' = Parked
<1>1. CASE UNCHANGED <<at, of>>
  BY <1>1 DEF Parked, Dead, CopiesOf
<1>2. ASSUME TypeOK, NEW x \in Rows, NEW n \in Nat, Send(x, n) PROVE Parked' = Parked
  <2>1. PICK d \in Copies : at[d] = "unsent" /\ at' = [at EXCEPT ![d] = "main"]
                          /\ of' = [of EXCEPT ![d] = x]
    BY <1>2 DEF Send, Unused
  <2>2. \A c \in Copies : (at'[c] = "dead" <=> at[c] = "dead") /\ (c # d => of'[c] = of[c])
    BY <1>2, <2>1 DEF TypeOK, QueueTypeOK
  <2>3. \A y \in Rows : Dead(y)' <=> Dead(y)
    BY <2>1, <2>2 DEF Dead, CopiesOf
  <2> QED BY <2>3 DEF Parked
<1>3. ASSUME TypeOK, NEW c \in Copies, Delete(c, "main") PROVE Parked' = Parked
  <2>1. of' = of /\ \A b \in Copies : at'[b] = "dead" <=> at[b] = "dead"
    BY <1>3 DEF Delete, TypeOK, QueueTypeOK
  <2>2. \A y \in Rows : Dead(y)' <=> Dead(y)
    BY <2>1 DEF Dead, CopiesOf
  <2> QED BY <2>2 DEF Parked
<1> QED BY <1>1, <1>2, <1>3

LEMMA QueuesImplement ==
  ASSUME Inv, Queues, UNCHANGED <<relayVars, consumerVars, redriveVars>>
  PROVE  [Promise!Next]_(Promise!vars)
<1>1. Committed' = Committed /\ UNCHANGED <<handled, purged>>
  BY DEF relayVars, consumerVars, redriveVars, Committed
<1>2. CASE \E c \in Copies : Lapse(c)
  BY <1>1, <1>2, SameDead, StutterStep DEF Lapse, Show
<1>3. ASSUME NEW c \in Copies, DeadLetter(c) PROVE [Promise!Next]_(Promise!vars)
  <2>1. at[c] = "main" /\ at' = [at EXCEPT ![c] = "dead"] /\ of' = of
    BY <1>3 DEF DeadLetter, Visible
  <2>2. of[c] \in Committed
    BY <2>1 DEF Inv, Segment, TypeOK, QueueTypeOK, Committed
  <2>3. \A b \in Copies : at'[b] = "dead" <=> at[b] = "dead" \/ b = c
    BY <2>1 DEF Inv, TypeOK, QueueTypeOK
  <2>4. \A y \in Rows : Dead(y)' <=> Dead(y) \/ y = of[c]
    BY <2>1, <2>3 DEF Dead, CopiesOf
  <2>5. Parked' = Parked \cup {of[c]}
    BY <1>1, <2>2, <2>4 DEF Parked, Committed
  <2> QED BY <1>1, <2>2, <2>5, ParkStep
<1> QED BY <1>2, <1>3 DEF Queues

LEMMA RelayImplements ==
  ASSUME Inv, NEW r \in Relays, Relay(r), UNCHANGED <<consumerVars, redriveVars>>
  PROVE  [Promise!Next]_(Promise!vars)
<1>1. UNCHANGED <<handled, purged>> /\ RelayKnows(r)
  BY DEF consumerVars, redriveVars, Inv
<1>2. \A x \in Rows : outbox'[x] # "absent" <=> outbox[x] # "absent"
  BY <1>1 DEF Relay, Select, Publish, PublishFails, Commit, CommitFails, RelayDies,
              MarkPublished, RelayKnows
<1>3. Parked' = Parked
  BY <1>1, SameDead DEF Relay, Select, Publish, PublishFails, Commit, CommitFails, RelayDies,
                        queueVars, Inv
<1> QED BY <1>1, <1>2, <1>3, StutterStep DEF Committed

LEMMA ConsumeImplements ==
  ASSUME Inv, NEW w \in Workers, Consume(w), UNCHANGED <<relayVars, redriveVars>>
  PROVE  [Promise!Next]_(Promise!vars)
<1>1. Committed' = Committed /\ UNCHANGED purged
  BY DEF relayVars, redriveVars, Committed
<1>2. Parked' = Parked
  <2>1. acting[w] # None => acting[w] \in Copies
    BY DEF Inv, TypeOK, ConsumerTypeOK
  <2> QED BY <1>1, <2>1, SameDead
          DEF Consume, ReceiveBatch, Process, ProcessFails, LeaveMessage, Acknowledge,
              AcknowledgeFails, ConsumerDies, Receive, queueVars, Inv
<1>3. handled' = handled \/ \E x \in Committed : handled' = handled \cup {x}
  <2>1. \A c \in inbox[w] : of[c] \in Committed
    BY DEF Inv, ConsumerKnows, Segment, TypeOK, QueueTypeOK, ConsumerTypeOK, Committed
  <2> QED BY <2>1 DEF Consume, ReceiveBatch, Process, ProcessFails, Acknowledge,
                      AcknowledgeFails, ConsumerDies
<1> QED BY <1>1, <1>2, <1>3, StutterStep, ActStep

LEMMA OperateImplements ==
  ASSUME Inv, NEW o \in Operators, Operate(o), UNCHANGED <<relayVars, consumerVars>>
  PROVE  [Promise!Next]_(Promise!vars)
<1>1. Committed' = Committed /\ UNCHANGED handled /\ TypeOK
  BY DEF relayVars, consumerVars, Committed, Inv
<1>2. CASE Look(o) \/ Looked(o) \/ Pull(o) \/ RemoveFails(o) \/ Finish(o) \/ Abandon(o)
  <2>1. UNCHANGED <<at, of, purged>>
    BY <1>2 DEF Look, Looked, Pull, RemoveFails, Finish, Abandon, Receive, Show, queueVars
  <2> QED BY <1>1, <2>1, SameDead, StutterStep
<1>3. ASSUME NEW c \in Copies, Skip(o, c) \/ Resend(o, c) \/ ResendFails(o, c)
      PROVE  [Promise!Next]_(Promise!vars)
  <2>1. of[c] \in Rows /\ redrives[c] + 1 \in Nat
    BY <1>1 DEF TypeOK, QueueTypeOK
  <2>2. UNCHANGED purged /\ (Send(of[c], redrives[c] + 1) \/ UNCHANGED <<at, of>>)
    BY <1>3 DEF Skip, Resend, ResendFails, queueVars
  <2> QED BY <1>1, <2>1, <2>2, SameDead, StutterStep
<1>4. CASE Remove(o)
  <2>1. PICK c \in Copies : c = putBack[o]
    BY <1>1, <1>4 DEF Remove, TypeOK, RedriveTypeOK
  <2>2. of' = of /\ purged' = purged /\ at' = [at EXCEPT ![c] = IF @ = "dead" THEN "deleted" ELSE @]
    BY <1>4, <2>1 DEF Remove, Delete
  <2>3. \A b \in Copies : at'[b] = "dead" <=> at[b] = "dead" /\ b # c
    BY <1>1, <2>2 DEF TypeOK, QueueTypeOK
  <2>4. \A y \in Rows : y # of[c] => (Dead(y)' <=> Dead(y))
    BY <2>2, <2>3 DEF Dead, CopiesOf
  <2>5. Dead(of[c])' => Dead(of[c])
    BY <2>2, <2>3 DEF Dead, CopiesOf
  <2>6. Parked' = Parked \/ (of[c] \in Parked /\ Parked' = Parked \ {of[c]})
    BY <2>2, <2>4, <2>5 DEF Parked
  <2> QED BY <1>1, <2>6, StutterStep, PutBackStep
<1>5. CASE Purge(o)
  <2>1. /\ purged' = purged \cup {of[c] : c \in {b \in Copies : at[b] = "dead"}}
        /\ of' = of /\ \A c \in Copies : at'[c] # "dead"
    BY <1>5 DEF Purge
  <2>2. \A y \in Rows : ~Dead(y)'
    BY <2>1 DEF Dead, CopiesOf
  <2>3. \A y \in Rows : y \in purged' <=> y \in purged \/ Dead(y)
    BY <2>1 DEF Dead, CopiesOf
  <2>4. Parked' = Parked
    BY <2>2, <2>3 DEF Parked
  <2> QED BY <1>1, <2>4, StutterStep
<1> QED BY <1>2, <1>3, <1>4, <1>5 DEF Operate

(* The relays, the queues, the consumers and the redrive tool together do  *)
(* only what AtLeastOnce allows: nothing is told before it is committed,   *)
(* and only an operator takes an event away from the dead letters.         *)
THEOREM DeliveryImplements == Spec => Promise!Safety
<1>1. Init => Promise!Init
  BY DEF Init, QueueInit, RelayInit, ConsumerInit, RedriveInit, Promise!Init, Dead, CopiesOf
<1>2. Inv /\ [Next]_vars => [Promise!Next]_(Promise!vars)
  <2> SUFFICES ASSUME Inv, [Next]_vars PROVE [Promise!Next]_(Promise!vars)
    OBVIOUS
  <2>1. ASSUME NEW x \in Rows, Insert(x), UNCHANGED <<consumerVars, redriveVars>>
        PROVE  [Promise!Next]_(Promise!vars)
    <3>1. Parked' = Parked /\ handled' = handled
      BY <2>1, SameDead DEF Insert, queueVars, consumerVars, redriveVars
    <3>2. x \notin Committed /\ Committed' = Committed \cup {x}
      BY <2>1 DEF Insert, Committed, Inv, TypeOK, RelayTypeOK
    <3>3. Promise!Commit(x)
      BY <3>1, <3>2 DEF Promise!Commit, Committed, Parked
    <3> QED BY <3>3 DEF Promise!Next
  <2>2. CASE UNCHANGED vars
    <3>1. UNCHANGED <<at, of, outbox, handled, purged>>
      BY <2>2 DEF vars, queueVars, relayVars, consumerVars, redriveVars
    <3> QED BY <3>1, SameDead, StutterStep DEF Committed
  <2> QED BY <2>1, <2>2, QueuesImplement, RelayImplements, ConsumeImplements, OperateImplements
          DEF Next
<1> QED BY <1>1, <1>2, InvInit, InvStep, PTL DEF Spec, Promise!Safety

-----------------------------------------------------------------------------
(* What a step does to the copies there were.                              *)

SameCopies ==
  /\ UNCHANGED <<of, redrives>>
  /\ \A c \in Copies : at'[c] # "unsent" <=> at[c] # "unsent"

OneMore(x, n) ==
  \E d \in Copies :
    /\ at[d] = "unsent" /\ at'[d] = "main" /\ of'[d] = x /\ redrives'[d] = n
    /\ \A c \in Copies \ {d} : at'[c] = at[c] /\ of'[c] = of[c] /\ redrives'[c] = redrives[c]

LEMMA SendIsOneMore ==
  ASSUME TypeOK, NEW x \in Rows, NEW n \in Nat, Send(x, n)
  PROVE  OneMore(x, n)
BY DEF TypeOK, QueueTypeOK, Send, Unused, OneMore

LEMMA QueuesSame ==
  ASSUME TypeOK, Queues
  PROVE  SameCopies
BY DEF TypeOK, QueueTypeOK, Queues, Lapse, Show, DeadLetter, Visible, SameCopies

LEMMA DeleteSame ==
  ASSUME TypeOK, NEW c \in Copies, NEW q \in {"main", "dead"}, Delete(c, q)
  PROVE  SameCopies
BY DEF TypeOK, QueueTypeOK, Delete, SameCopies

LEMMA ConsumeSame ==
  ASSUME TypeOK, NEW w \in Workers, Consume(w)
  PROVE  SameCopies
<1>1. CASE ReceiveBatch(w)
  BY <1>1 DEF ReceiveBatch, Receive, SameCopies
<1>2. CASE Acknowledge(w)
  <2>1. acting[w] \in Copies
    BY <1>2 DEF Acknowledge, TypeOK, ConsumerTypeOK
  <2> QED BY <1>2, <2>1, DeleteSame DEF Acknowledge
<1>3. CASE AcknowledgeFails(w) \/ ConsumerDies(w)
  BY <1>3 DEF AcknowledgeFails, ConsumerDies, queueVars, SameCopies
<1>4. ASSUME NEW c \in Copies, Process(w, c) \/ ProcessFails(w, c) PROVE SameCopies
  BY <1>4 DEF Process, ProcessFails, LeaveMessage, queueVars, SameCopies
<1> QED BY <1>1, <1>2, <1>3, <1>4 DEF Consume

LEMMA OperateSame ==
  ASSUME TypeOK, NEW o \in Operators, Operate(o)
  PROVE  SameCopies \/ \E x \in Rows, n \in Nat \ {0} : OneMore(x, n)
<1>1. CASE Look(o) \/ Pull(o)
  BY <1>1 DEF Look, Pull, Receive, SameCopies
<1>2. CASE Looked(o) \/ Finish(o)
  BY <1>2 DEF Looked, Finish, Show, SameCopies
<1>3. CASE Remove(o)
  <2>1. putBack[o] \in Copies
    BY <1>3 DEF Remove, TypeOK, RedriveTypeOK
  <2> QED BY <1>3, <2>1, DeleteSame DEF Remove
<1>4. CASE RemoveFails(o) \/ Abandon(o)
  BY <1>4 DEF RemoveFails, Abandon, queueVars, SameCopies
<1>5. CASE Purge(o)
  BY <1>5 DEF Purge, SameCopies
<1>6. ASSUME NEW c \in Copies, Skip(o, c) \/ Resend(o, c) \/ ResendFails(o, c)
      PROVE  SameCopies \/ \E x \in Rows, n \in Nat \ {0} : OneMore(x, n)
  <2>1. of[c] \in Rows /\ redrives[c] \in Nat
    BY DEF TypeOK, QueueTypeOK
  <2>2. Send(of[c], redrives[c] + 1) \/ UNCHANGED queueVars
    BY <1>6 DEF Skip, Resend, ResendFails
  <2>3. redrives[c] + 1 \in Nat \ {0}
    BY <2>1
  <2> QED BY <2>1, <2>2, <2>3, SendIsOneMore DEF queueVars, SameCopies
<1> QED BY <1>1, <1>2, <1>3, <1>4, <1>5, <1>6 DEF Operate

-----------------------------------------------------------------------------
(* Two relays do not tell the same thing twice.                            *)

FirstCopies(x) == {c \in Copies : at[c] # "unsent" /\ of[c] = x /\ redrives[c] = 0}

Told(x) == outbox[x] = "published" \/ \E r \in Relays : x \in sent[r]

(* FOR UPDATE SKIP LOCKED: a row is in one batch, and not published in it. *)
Locked ==
  \A r \in Relays : \A x \in batch[r] :
    outbox[x] = "unpublished" /\ \A s \in Relays \ {r} : x \notin batch[s]

(* Until something fails, a relay knows of every copy a relay has sent.    *)
TellsOnce ==
  faults = 0 => \A x \in Rows : /\ FirstCopies(x) # {} => Told(x)
                                /\ \A b, c \in FirstCopies(x) : b = c

LEMMA QuietTells ==
  ASSUME TypeOK, TellsOnce, faults' = faults \/ faults' # 0,
         SameCopies \/ \E x \in Rows, n \in Nat \ {0} : OneMore(x, n),
         \A x \in Rows : faults' = 0 /\ Told(x) => Told(x)'
  PROVE  TellsOnce'
<1> SUFFICES ASSUME faults' = 0, NEW x \in Rows
             PROVE  /\ FirstCopies(x)' # {} => Told(x)'
                    /\ \A b, c \in FirstCopies(x)' : b = c
  BY DEF TellsOnce
<1>1. FirstCopies(x)' \subseteq FirstCopies(x)
  BY DEF SameCopies, OneMore, FirstCopies
<1> QED BY <1>1 DEF TellsOnce

LEMMA RelayTells ==
  ASSUME Inv, Locked, TellsOnce, NEW r \in Relays, Relay(r)
  PROVE  Locked' /\ TellsOnce'
<1>0. TypeOK /\ RelayTypeOK /\ \A s \in Relays : sent[s] \subseteq batch[s]
  BY DEF Inv, TypeOK, RelayKnows
<1>a. faults' = faults \/ faults' # 0
  BY <1>0 DEF Relay, Select, Commit, CommitFails, RelayDies, Publish, PublishFails, Fault,
              TypeOK, QueueTypeOK
<1>1. CASE Select(r)
  <2>1. PICK xs \in Oldest(BatchSize) : batch' = [batch EXCEPT ![r] = xs]
    BY <1>1 DEF Select
  <2>2. \A x \in xs : outbox[x] = "unpublished" /\ \A s \in Relays : x \notin batch[s]
    BY DEF Oldest, Claimable
  <2>3. Locked'
    BY <1>0, <1>1, <2>1, <2>2 DEF Locked, Select, RelayTypeOK
  <2>4. SameCopies /\ \A x \in Rows : Told(x) => Told(x)'
    BY <1>1 DEF Select, queueVars, SameCopies, Told
  <2> QED BY <1>0, <1>a, <2>3, <2>4, QuietTells
<1>2. ASSUME NEW x \in Rows, Publish(r, x) PROVE Locked' /\ TellsOnce'
  <2>1. OneMore(x, 0)
    BY <1>0, <1>2, SendIsOneMore DEF Publish
  <2>2. UNCHANGED <<outbox, batch, faults>> /\ sent' = [sent EXCEPT ![r] = @ \cup {x}]
    BY <1>2 DEF Publish
  <2>3. x \in batch[r] /\ x \notin sent[r] /\ ~Told(x)
    BY <1>0, <1>2 DEF Publish, Following, Locked, Told
  <2>4. Locked'
    BY <2>2 DEF Locked
  <2>5. \A y \in Rows : Told(y) => Told(y)'
    BY <1>0, <2>2 DEF Told, RelayTypeOK
  <2>6. Told(x)'
    BY <1>0, <2>2 DEF Told, RelayTypeOK
  <2>7. faults = 0 => FirstCopies(x) = {}
    BY <2>3 DEF TellsOnce
  <2>8. PICK d \in Copies : \A c \in Copies \ {d} :
          at'[c] = at[c] /\ of'[c] = of[c] /\ redrives'[c] = redrives[c]
    BY <2>1 DEF OneMore
  <2>9. ASSUME faults' = 0 PROVE \A b, c \in FirstCopies(x)' : b = c
    <3>1. FirstCopies(x)' \subseteq FirstCopies(x) \cup {d}
      BY <2>8 DEF FirstCopies
    <3> QED BY <2>2, <2>7, <2>9, <3>1
  <2>10. \A y \in Rows \ {x} : FirstCopies(y)' \subseteq FirstCopies(y)
    BY <2>1 DEF OneMore, FirstCopies
  <2>11. TellsOnce'
    BY <2>2, <2>5, <2>6, <2>9, <2>10 DEF TellsOnce
  <2> QED BY <2>4, <2>11
<1>3. ASSUME NEW x \in Rows, PublishFails(r, x) PROVE Locked' /\ TellsOnce'
  <2>1. /\ UNCHANGED outbox /\ \A s \in Relays \ {r} : batch'[s] = batch[s] /\ sent'[s] = sent[s]
        /\ batch'[r] \subseteq batch[r] /\ (sent'[r] = sent[r] \/ sent[r] = {})
    BY <1>0, <1>3 DEF PublishFails, Done, RelayTypeOK
  <2>2. Locked'
    BY <2>1 DEF Locked
  <2>3. faults' = 0 => SameCopies
    BY <1>0, <1>3 DEF PublishFails, Fault, queueVars, SameCopies, TypeOK, QueueTypeOK
  <2>4. \A y \in Rows : Told(y) => Told(y)'
    BY <2>1 DEF Told
  <2> QED BY <1>0, <1>a, <2>2, <2>3, <2>4, QuietTells DEF TellsOnce
<1>4. CASE Commit(r) \/ CommitFails(r) \/ RelayDies(r)
  <2>1. /\ \A s \in Relays \ {r} : batch'[s] = batch[s] /\ sent'[s] = sent[s]
        /\ batch'[r] = {}
    BY <1>0, <1>4 DEF Commit, CommitFails, RelayDies, Done, RelayTypeOK
  <2>2. \A x \in Rows : x \notin sent[r] => outbox'[x] = outbox[x]
    BY <1>0, <1>4 DEF Commit, CommitFails, RelayDies, MarkPublished, RelayTypeOK
  <2>3. Locked'
    BY <1>0, <2>1, <2>2 DEF Locked, RelayTypeOK
  <2>4. SameCopies
    BY <1>4 DEF Commit, CommitFails, RelayDies, queueVars, SameCopies
  <2>5. \A x \in Rows : faults' = 0 /\ Told(x) => Told(x)'
    <3>1. ASSUME faults' = 0
          PROVE  outbox' = [x \in Rows |-> IF x \in sent[r] THEN "published" ELSE outbox[x]]
      BY <1>0, <1>4, <3>1
      DEF Commit, CommitFails, RelayDies, Fault, MarkPublished, TypeOK, QueueTypeOK
    <3> QED BY <2>1, <3>1 DEF Told
  <2> QED BY <1>0, <1>a, <2>3, <2>4, <2>5, QuietTells
<1> QED BY <1>1, <1>2, <1>3, <1>4 DEF Relay

LEMMA TellsStep == Inv /\ Locked /\ TellsOnce /\ [Next]_vars => Locked' /\ TellsOnce'
<1> SUFFICES ASSUME Inv, Locked, TellsOnce, [Next]_vars PROVE Locked' /\ TellsOnce'
  OBVIOUS
<1>0. TypeOK
  BY DEF Inv
<1>1. ASSUME UNCHANGED relayVars, faults' = faults \/ faults' # 0,
             SameCopies \/ \E x \in Rows, n \in Nat \ {0} : OneMore(x, n)
      PROVE  Locked' /\ TellsOnce'
  <2>1. Locked' /\ \A x \in Rows : Told(x) => Told(x)'
    BY <1>1 DEF relayVars, Locked, Told
  <2> QED BY <1>0, <1>1, <2>1, QuietTells
<1>2. Fault => faults' # 0
  BY <1>0 DEF Fault, TypeOK, QueueTypeOK
<1>3. CASE Queues /\ UNCHANGED <<relayVars, consumerVars, redriveVars>>
  <2>1. faults' = faults \/ faults' # 0
    BY <1>2, <1>3 DEF Queues, Lapse
  <2> QED BY <1>0, <1>1, <1>3, <2>1, QueuesSame
<1>4. ASSUME NEW x \in Rows, Insert(x) PROVE Locked' /\ TellsOnce'
  <2>1. outbox' = [outbox EXCEPT ![x] = "unpublished"] /\ outbox[x] = "absent"
        /\ UNCHANGED <<batch, sent, queueVars, faults>>
    BY <1>4 DEF Insert
  <2>2. Locked' /\ \A y \in Rows : Told(y) => Told(y)'
    BY <1>0, <2>1 DEF Locked, Told, TypeOK, RelayTypeOK
  <2>3. SameCopies
    BY <2>1 DEF queueVars, SameCopies
  <2> QED BY <1>0, <2>1, <2>2, <2>3, QuietTells
<1>5. ASSUME NEW w \in Workers, Consume(w), UNCHANGED <<relayVars, redriveVars>>
      PROVE  Locked' /\ TellsOnce'
  <2>1. faults' = faults \/ faults' # 0
    BY <1>2, <1>5 DEF Consume, ReceiveBatch, Acknowledge, AcknowledgeFails, ConsumerDies,
                      Process, ProcessFails
  <2> QED BY <1>0, <1>1, <1>5, <2>1, ConsumeSame
<1>6. ASSUME NEW o \in Operators, Operate(o), UNCHANGED <<relayVars, consumerVars>>
      PROVE  Locked' /\ TellsOnce'
  <2>1. faults' = faults \/ faults' # 0
    BY <1>2, <1>6 DEF Operate, Look, Looked, Pull, Remove, RemoveFails, Finish, Abandon, Purge,
                      Skip, Resend, ResendFails
  <2> QED BY <1>0, <1>1, <1>6, <2>1, OperateSame
<1>7. CASE UNCHANGED vars
  BY <1>1, <1>7 DEF vars, queueVars, SameCopies
<1> QED BY <1>3, <1>4, <1>5, <1>6, <1>7, RelayTells DEF Next

(* However many relays run side by side, with batches of any size: until a *)
(* call fails, a process dies or a timeout is overrun, a relay puts at     *)
(* most one copy of an event on the queue.                                 *)
THEOREM ToldOnce == Spec => []OnceUntilAFault
<1>1. Init => Locked /\ TellsOnce
  BY DEF Init, QueueInit, RelayInit, Locked, TellsOnce, FirstCopies
<1>2. TellsOnce => OnceUntilAFault
  BY DEF TellsOnce, OnceUntilAFault, FirstCopies, CopiesOf
<1> QED BY <1>1, <1>2, InvInit, InvStep, TellsStep, PTL DEF Spec

-----------------------------------------------------------------------------
(* A message that has been put back often enough stays dead.               *)

PutBackFew ==
  \A o \in Operators : putBack[o] # Nothing =>
    at[putBack[o]] # "unsent" /\ redrives[putBack[o]] < MaxRedrives

LEMMA FewStay ==
  ASSUME TypeOK, PutBackFew, SameCopies \/ \E x \in Rows, n \in Nat : OneMore(x, n),
         NEW o \in Operators, putBack'[o] = putBack[o]
  PROVE  putBack'[o] # Nothing =>
           at'[putBack'[o]] # "unsent" /\ redrives'[putBack'[o]] < MaxRedrives
<1> SUFFICES ASSUME putBack[o] # Nothing
             PROVE  at'[putBack[o]] # "unsent" /\ redrives'[putBack[o]] < MaxRedrives
  OBVIOUS
<1>1. PICK c \in Copies : c = putBack[o]
  BY DEF TypeOK, RedriveTypeOK
<1>2. at[c] # "unsent" /\ redrives[c] < MaxRedrives
  BY <1>1 DEF PutBackFew
<1>3. at'[c] # "unsent" /\ redrives'[c] = redrives[c]
  BY <1>2 DEF SameCopies, OneMore
<1> QED BY <1>1, <1>2, <1>3

LEMMA RelaySame ==
  ASSUME TypeOK, NEW r \in Relays, Relay(r)
  PROVE  UNCHANGED <<at, of, redrives>> \/ \E x \in Rows : OneMore(x, 0)
BY SendIsOneMore
   DEF Relay, Select, Commit, CommitFails, RelayDies, Publish, PublishFails, queueVars

LEMMA FewStep == Inv /\ PutBackFew /\ [Next]_vars => PutBackFew'
<1> SUFFICES ASSUME Inv, PutBackFew, [Next]_vars PROVE PutBackFew'
  OBVIOUS
<1>0. TypeOK /\ RedriveTypeOK /\ \A o \in Operators : OperatorKnows(o)
  BY DEF Inv, TypeOK
<1>1. ASSUME UNCHANGED redriveVars, SameCopies \/ \E x \in Rows, n \in Nat : OneMore(x, n)
      PROVE  PutBackFew'
  BY <1>0, <1>1, FewStay DEF redriveVars, PutBackFew
<1>2. CASE Queues /\ UNCHANGED <<relayVars, consumerVars, redriveVars>>
  BY <1>0, <1>1, <1>2, QueuesSame
<1>3. ASSUME NEW x \in Rows, Insert(x), UNCHANGED <<consumerVars, redriveVars>> PROVE PutBackFew'
  BY <1>1, <1>3 DEF Insert, queueVars, SameCopies
<1>4. ASSUME NEW r \in Relays, Relay(r), UNCHANGED <<consumerVars, redriveVars>> PROVE PutBackFew'
  BY <1>0, <1>1, <1>4, RelaySame DEF SameCopies
<1>5. ASSUME NEW w \in Workers, Consume(w), UNCHANGED <<relayVars, redriveVars>> PROVE PutBackFew'
  BY <1>0, <1>1, <1>5, ConsumeSame
<1>6. ASSUME NEW o \in Operators, Operate(o) PROVE PutBackFew'
  <2>1. SameCopies \/ \E x \in Rows, n \in Nat : OneMore(x, n)
    BY <1>0, <1>6, OperateSame
  <2>2. \A p \in Operators \ {o} : putBack'[p] = putBack[p]
    BY <1>0, <1>6 DEF Operate, Look, Looked, Pull, Remove, RemoveFails, Finish, Abandon, Quit,
                      Purge, Skip, Resend, ResendFails, RedriveTypeOK
  <2>3. putBack'[o] \in {putBack[o], Nothing} \/ \E c \in Copies : Resend(o, c)
    BY <1>0, <1>6 DEF Operate, Look, Looked, Pull, Remove, RemoveFails, Finish, Abandon, Quit,
                      Purge, Skip, ResendFails, RedriveTypeOK
  <2>4. ASSUME NEW c \in Copies, Resend(o, c)
        PROVE  at'[putBack'[o]] # "unsent" /\ redrives'[putBack'[o]] < MaxRedrives
    <3>1. putBack'[o] = c /\ at[c] # "unsent" /\ ~(redrives[c] >= MaxRedrives)
      BY <1>0, <2>4 DEF Resend, Replaying, Exhausted, OperatorKnows, RedriveTypeOK
    <3>2. redrives[c] < MaxRedrives
      BY <1>0, <3>1, RedriveAssumption DEF TypeOK, QueueTypeOK
    <3>3. at'[c] # "unsent" /\ redrives'[c] = redrives[c]
      BY <2>1, <3>1 DEF SameCopies, OneMore
    <3> QED BY <3>1, <3>2, <3>3
  <2>5. \A p \in Operators : putBack'[p] = putBack[p] =>
          (putBack'[p] # Nothing =>
             at'[putBack'[p]] # "unsent" /\ redrives'[putBack'[p]] < MaxRedrives)
    BY <1>0, <2>1, FewStay
  <2> QED BY <2>2, <2>3, <2>4, <2>5 DEF PutBackFew
<1>7. CASE UNCHANGED vars
  BY <1>1, <1>7 DEF vars, queueVars, SameCopies
<1> QED BY <1>2, <1>3, <1>4, <1>5, <1>6, <1>7 DEF Next

LEMMA DeadStep ==
  ASSUME Inv, PutBackFew, [Next]_vars, NEW c \in Copies,
         at[c] = "dead", redrives[c] >= MaxRedrives
  PROVE  at'[c] = "dead" \/ of[c] \in purged'
<1>0. TypeOK /\ QueueTypeOK /\ RedriveTypeOK /\ ConsumerTypeOK
  BY DEF Inv, TypeOK
<1>1. ASSUME NEW x \in Rows, NEW n \in Nat, OneMore(x, n) PROVE at'[c] = "dead"
  BY <1>1 DEF OneMore
<1>2. CASE Queues
  BY <1>0, <1>2 DEF Queues, Lapse, Show, DeadLetter, Visible, QueueTypeOK
<1>3. ASSUME NEW x \in Rows, Insert(x) PROVE at'[c] = "dead"
  BY <1>3 DEF Insert, queueVars
<1>4. ASSUME NEW r \in Relays, Relay(r) PROVE at'[c] = "dead"
  BY <1>0, <1>1, <1>4, RelaySame
<1>5. ASSUME NEW w \in Workers, Consume(w) PROVE at'[c] = "dead"
  BY <1>0, <1>5 DEF Consume, ReceiveBatch, Receive, Acknowledge, AcknowledgeFails, ConsumerDies,
                    Process, ProcessFails, LeaveMessage, Delete, queueVars, QueueTypeOK
<1>6. ASSUME NEW o \in Operators, Operate(o) PROVE at'[c] = "dead" \/ of[c] \in purged'
  <2>1. CASE Remove(o)
    <3>1. putBack[o] \in Copies /\ redrives[putBack[o]] < MaxRedrives
      BY <1>0, <2>1 DEF Remove, RedriveTypeOK, PutBackFew
    <3>2. putBack[o] # c
      BY <1>0, <3>1, RedriveAssumption DEF QueueTypeOK
    <3> QED BY <1>0, <2>1, <3>1, <3>2 DEF Remove, Delete, QueueTypeOK
  <2>2. CASE Purge(o)
    BY <2>2 DEF Purge
  <2>3. CASE Look(o) \/ Looked(o) \/ Pull(o) \/ RemoveFails(o) \/ Finish(o) \/ Abandon(o)
    BY <2>3 DEF Look, Looked, Pull, RemoveFails, Finish, Abandon, Receive, Show, queueVars
  <2>4. ASSUME NEW b \in Copies, Skip(o, b) \/ Resend(o, b) \/ ResendFails(o, b)
        PROVE  at'[c] = "dead"
    <3>1. of[b] \in Rows /\ redrives[b] + 1 \in Nat
      BY <1>0 DEF QueueTypeOK
    <3>2. Send(of[b], redrives[b] + 1) \/ UNCHANGED queueVars
      BY <2>4 DEF Skip, Resend, ResendFails
    <3> QED BY <1>0, <1>1, <3>1, <3>2, SendIsOneMore DEF queueVars
  <2> QED BY <1>6, <2>1, <2>2, <2>3, <2>4 DEF Operate
<1>7. CASE UNCHANGED vars
  BY <1>7 DEF vars, queueVars
<1> QED BY <1>2, <1>3, <1>4, <1>5, <1>6, <1>7 DEF Next

(* A dead letter that has been put back MaxRedrives times leaves the dead  *)
(* letters only by a purge, however many operators replay them at once:    *)
(* what an operator deletes after sending is never one of those.           *)
THEOREM DeadStayDead == Spec => StaysDead
<1>1. Init => PutBackFew
  BY DEF Init, RedriveInit, PutBackFew
<1>2. Inv /\ PutBackFew /\ [Next]_vars =>
        [\A c \in Copies : at[c] = "dead" /\ redrives[c] >= MaxRedrives =>
           at'[c] = "dead" \/ of[c] \in purged']_vars
  BY DeadStep
<1> QED BY <1>1, <1>2, InvInit, InvStep, FewStep, PTL DEF Spec, StaysDead
=============================================================================
