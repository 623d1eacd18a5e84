---------------------------- MODULE ToolLoopProofs ---------------------------
(***************************************************************************)
(* Proofs about ToolLoop and the reads it is made of, for any tables, any  *)
(* tools the model may ask for, any prices up to MaxPrice and any budget:  *)
(* the accounts of a question; what each answer of a request still says of *)
(* tables that move on beneath it, and so what pages, exports and panels   *)
(* that were read statement by statement are worth; what a trace tells of. *)
(***************************************************************************)
EXTENDS ToolLoop, SequenceTheorems, FiniteSetTheorems, TLAPS

AccountTypes ==
  /\ cost \in Nat /\ price \in Nat /\ billed \in Nat /\ wasted \in Nat
  /\ turn \in Nat /\ attempt \in 1..MaxAttempts

(* What the provider has charged is what is on record, the turn whose      *)
(* tools are still running, and what was no use.                           *)
Books == billed = wasted + IF stage = "tools" THEN cost + price ELSE cost

Affordable == MaxCost > 0 => billed - wasted < MaxCost + MaxPrice

(* As many attempts as may have been in vain: those of every turn before,  *)
(* and of this one those before the next; all of this one once it has been *)
(* answered or given up.                                                   *)
TriesOf(t, a, s) == t * MaxAttempts + IF s = "turn" THEN a - 1 ELSE MaxAttempts

Tries == TriesOf(turn, attempt, stage)

WasteBound == wasted <= Tries * MaxPrice

IInv == AccountTypes /\ Books /\ Affordable /\ WasteBound

(* The steps that leave the accounts alone.                                *)
Idle == UNCHANGED <<turn, accounts>> /\ (stage' = "tools" <=> stage = "tools")
          /\ (stage' = "turn" => stage = "turn")

(* More tries cost as much or more.                                        *)
LEMMA MoreTries ==
  ASSUME NEW m \in Nat, NEW n \in Nat, m <= n, NEW p \in Nat
  PROVE  m * p \in Nat /\ n * p \in Nat /\ m * p <= n * p /\ (m + 1) * p = m * p + p
<1>1. PICK k \in Nat : n = m + k
  <2>1. n - m \in Nat /\ n = m + (n - m)
    OBVIOUS
  <2> QED BY <2>1
<1>2. n * p = m * p + k * p
  BY <1>1
<1>3. k * p \in Nat /\ m * p \in Nat
  OBVIOUS
<1> QED BY <1>2, <1>3

(* The number of tries is a number, and what they cost is one.             *)
LEMMA TriesNumber ==
  ASSUME NEW t \in Nat, NEW a \in 1..MaxAttempts, NEW s
  PROVE  TriesOf(t, a, s) \in Nat /\ TriesOf(t, a, s) * MaxPrice \in Nat
<1>1. MaxAttempts \in Nat /\ MaxPrice \in Nat /\ a - 1 \in Nat
  BY LoopAssumption
<1>2. t * MaxAttempts \in Nat
  BY <1>1, MoreTries
<1>3. TriesOf(t, a, s) \in Nat
  <2>. DEFINE prior == t * MaxAttempts
  <2>1. prior \in Nat /\ TriesOf(t, a, s) = prior + IF s = "turn" THEN a - 1 ELSE MaxAttempts
    BY <1>2 DEF TriesOf
  <2>. HIDE DEF prior
  <2> QED BY <1>1, <2>1
<1> QED BY <1>1, <1>3, MoreTries

(* So they are of this turn.                                               *)
LEMMA TriesTyped ==
  ASSUME AccountTypes
  PROVE  /\ MaxAttempts \in Nat /\ MaxAttempts > 0 /\ MaxPrice \in Nat
         /\ turn * MaxAttempts \in Nat /\ Tries \in Nat /\ Tries * MaxPrice \in Nat
         /\ Tries <= turn * MaxAttempts + MaxAttempts
<1>1. MaxAttempts \in Nat /\ MaxAttempts > 0 /\ MaxPrice \in Nat
  BY LoopAssumption
<1>2. turn * MaxAttempts \in Nat
  BY <1>1, MoreTries DEF AccountTypes
<1>3. Tries \in Nat /\ Tries <= turn * MaxAttempts + MaxAttempts
  <2>. DEFINE prior == turn * MaxAttempts
  <2>1. prior \in Nat /\ attempt \in 1..MaxAttempts
    BY <1>2 DEF AccountTypes
  <2>2. Tries = prior + IF stage = "turn" THEN attempt - 1 ELSE MaxAttempts
    BY DEF Tries, TriesOf
  <2>. HIDE DEF prior
  <2>3. Tries \in Nat /\ Tries <= prior + MaxAttempts
    BY <1>1, <2>1, <2>2
  <2> QED BY <2>3 DEF prior
<1> QED BY <1>1, <1>2, <1>3, MoreTries

(* What was in vain stays within what more tries cost.                     *)
LEMMA WasteStays ==
  ASSUME AccountTypes, AccountTypes', WasteBound, wasted' = wasted, Tries <= Tries'
  PROVE  WasteBound'
<1>1. Tries \in Nat /\ Tries' \in Nat /\ MaxPrice \in Nat
  BY TriesNumber, LoopAssumption DEF AccountTypes, Tries
<1>2. PICK m, n : m = Tries /\ n = Tries'
  OBVIOUS
<1>3. m * MaxPrice <= n * MaxPrice /\ m * MaxPrice \in Nat /\ n * MaxPrice \in Nat
  BY <1>1, <1>2, MoreTries
<1>4. wasted \in Nat /\ wasted <= m * MaxPrice
  BY <1>2 DEF AccountTypes, WasteBound
<1>5. wasted' <= n * MaxPrice
  BY <1>3, <1>4
<1> QED BY <1>2, <1>5 DEF WasteBound

(* Steps that touch no account keep the books.                             *)
LEMMA IdleStep ==
  ASSUME IInv, Idle
  PROVE  IInv'
<1>1. AccountTypes' /\ Books' /\ Affordable'
  BY DEF IInv, AccountTypes, Books, Affordable, Idle, accounts
<1>2. Tries <= Tries'
  <2>. DEFINE prior == turn * MaxAttempts
  <2>1. prior \in Nat /\ attempt \in 1..MaxAttempts /\ MaxAttempts \in Nat
    BY TriesTyped DEF IInv, AccountTypes
  <2>2. /\ Tries = prior + IF stage = "turn" THEN attempt - 1 ELSE MaxAttempts
        /\ Tries' = prior + IF stage' = "turn" THEN attempt - 1 ELSE MaxAttempts
        /\ stage' = "turn" => stage = "turn"
    BY DEF Tries, TriesOf, Idle, accounts
  <2>. HIDE DEF prior
  <2> QED BY <2>1, <2>2
<1>3. wasted' = wasted
  BY DEF Idle, accounts
<1> QED BY <1>1, <1>2, <1>3, WasteStays DEF IInv

(* The ceiling is looked at before a call, so the call may pass it once.   *)
LEMMA RoomForOne ==
  ASSUME IInv, Completing, NEW paid \in Prices
  PROVE  /\ paid \in Nat /\ billed = cost + wasted
         /\ MaxCost > 0 => billed + paid - wasted < MaxCost + MaxPrice
<1>1. paid \in Nat /\ paid <= MaxPrice /\ MaxPrice \in Nat /\ MaxCost \in Nat
  BY LoopAssumption
<1>2. billed = wasted + cost
  BY DEF IInv, Books, Completing, Turning
<1>3. MaxCost > 0 => ~(cost >= MaxCost)
  BY DEF Completing, OverBudget
<1>4. cost \in Nat /\ wasted \in Nat /\ billed \in Nat
  BY DEF IInv, AccountTypes
<1> QED BY <1>1, <1>2, <1>3, <1>4

(* The attempts of a turn that is over were no more than MaxAttempts.      *)
LEMMA TurnOver ==
  ASSUME AccountTypes, AccountTypes', stage = "turn", stage' # "turn", turn' \in {turn, turn + 1}
  PROVE  Tries <= Tries'
<1>. DEFINE prior == turn * MaxAttempts
            now == turn' * MaxAttempts
<1>1. /\ prior \in Nat /\ MaxAttempts \in Nat /\ attempt \in 1..MaxAttempts
      /\ (turn + 1) * MaxAttempts = prior + MaxAttempts
  BY TriesTyped, MoreTries DEF AccountTypes
<1>2. now = prior \/ now = prior + MaxAttempts
  BY <1>1
<1>3. Tries = prior + (attempt - 1) /\ Tries' = now + MaxAttempts
  BY DEF Tries, TriesOf
<1>. HIDE DEF prior, now
<1> QED BY <1>1, <1>2, <1>3

(* A response is charged when it comes in, and recorded with its turn.     *)
LEMMA CallStep ==
  ASSUME IInv, ModelEnds \/ ModelAsksForTools
  PROVE  IInv'
<1>1. PICK paid \in Prices : billed' = billed + paid /\ attempt' = 1 /\ wasted' = wasted
                            /\ \/ /\ cost' = cost + paid /\ price' = price
                                  /\ turn' = turn + 1 /\ stage' = "returned"
                               \/ /\ price' = paid /\ cost' = cost
                                  /\ turn' = turn /\ stage' = "tools"
  BY DEF ModelEnds, ModelAsksForTools, Finish, Charge, Return
<1>2. Completing /\ stage = "turn"
  BY DEF ModelEnds, ModelAsksForTools, Completing, Turning
<1>3. /\ paid \in Nat /\ billed = cost + wasted
      /\ MaxCost > 0 => billed + paid - wasted < MaxCost + MaxPrice
  BY <1>2, RoomForOne
<1>4. AccountTypes'
  <2>1. 1 \in 1..MaxAttempts
    BY LoopAssumption
  <2> QED BY <1>1, <1>3, <2>1 DEF IInv, AccountTypes
<1>5. Books' /\ Affordable'
  BY <1>1, <1>3 DEF IInv, AccountTypes, Books, Affordable
<1>6. Tries <= Tries'
  BY <1>1, <1>2, <1>4, TurnOver DEF IInv
<1> QED BY <1>1, <1>4, <1>5, <1>6, WasteStays DEF IInv

(* One more attempt is in vain, and the last of a run may be.              *)
LEMMA WasteStep ==
  ASSUME IInv, ModelRetries \/ ModelFails
  PROVE  IInv'
<1>1. PICK paid \in Prices \cup {0} : billed' = billed + paid /\ wasted' = wasted + paid
  BY DEF ModelRetries, ModelFails, Waste
<1>2. /\ UNCHANGED <<cost, price, turn>> /\ stage = "turn"
      /\ \/ stage' = "turn" /\ attempt' = attempt + 1 /\ attempt < MaxAttempts
         \/ stage' = "failed" /\ attempt' = attempt
  BY DEF ModelRetries, ModelFails, Waste, Completing, Turning, Return
<1>3. paid \in Nat /\ paid <= MaxPrice /\ MaxPrice \in Nat /\ MaxCost \in Nat /\ MaxAttempts \in Nat
  BY LoopAssumption
<1>4. AccountTypes'
  BY <1>1, <1>2, <1>3 DEF IInv, AccountTypes
<1>5. Books' /\ Affordable'
  BY <1>1, <1>2, <1>3 DEF IInv, AccountTypes, Books, Affordable
<1>6. Tries \in Nat /\ Tries' \in Nat /\ Tries + 1 <= Tries'
  <2>. DEFINE prior == turn * MaxAttempts
  <2>1. prior \in Nat /\ attempt \in 1..MaxAttempts
    BY TriesTyped DEF IInv, AccountTypes
  <2>2. /\ Tries = prior + (attempt - 1)
        /\ Tries' = prior + IF stage' = "turn" THEN attempt' - 1 ELSE MaxAttempts
    BY <1>2 DEF Tries, TriesOf
  <2>3. Tries \in Nat /\ Tries' \in Nat
    BY <1>4, TriesNumber DEF IInv, AccountTypes, Tries
  <2>. HIDE DEF prior
  <2> QED BY <1>2, <1>3, <2>1, <2>2, <2>3
<1>7. WasteBound'
  <2>1. PICK m, n : m = Tries /\ n = Tries'
    OBVIOUS
  <2>2. m \in Nat /\ n \in Nat /\ m + 1 \in Nat /\ m + 1 <= n
    BY <1>6, <2>1
  <2>3. /\ (m + 1) * MaxPrice = m * MaxPrice + MaxPrice
        /\ (m + 1) * MaxPrice <= n * MaxPrice
        /\ m * MaxPrice \in Nat /\ n * MaxPrice \in Nat
    BY <1>3, <2>2, MoreTries
  <2>4. wasted \in Nat /\ wasted <= m * MaxPrice
    BY <2>1 DEF IInv, AccountTypes, WasteBound
  <2>5. wasted' <= n * MaxPrice
    BY <1>1, <1>3, <2>3, <2>4
  <2> QED BY <2>1, <2>5 DEF WasteBound
<1> QED BY <1>4, <1>5, <1>7 DEF IInv

(* The turn whose tools were running is recorded, failed or not.           *)
LEMMA EndToolsStep ==
  ASSUME IInv, EndTools
  PROVE  IInv'
<1>1. /\ stage = "tools" /\ cost' = cost + price /\ price' = 0 /\ turn' = turn + 1
      /\ UNCHANGED <<billed, attempt, wasted>>
  BY DEF EndTools, Finish
<1>2. stage' # "tools"
  BY DEF EndTools, Return
<1>3. AccountTypes' /\ Books' /\ Affordable'
  BY <1>1, <1>2 DEF IInv, AccountTypes, Books, Affordable
<1>4. Tries <= Tries'
  <2>. DEFINE prior == turn * MaxAttempts
  <2>1. /\ prior \in Nat /\ MaxAttempts \in Nat /\ attempt \in 1..MaxAttempts
        /\ (turn + 1) * MaxAttempts = prior + MaxAttempts
    BY TriesTyped, MoreTries DEF IInv, AccountTypes
  <2>2. /\ Tries = prior + MaxAttempts
        /\ Tries' = (turn + 1) * MaxAttempts
                      + IF stage' = "turn" THEN attempt - 1 ELSE MaxAttempts
    BY <1>1 DEF Tries, TriesOf
  <2>. HIDE DEF prior
  <2> QED BY <2>1, <2>2
<1> QED BY <1>1, <1>3, <1>4, WasteStays DEF IInv

(* The accounts through every step of the loop and of the tables.          *)
LEMMA IInvStep == IInv /\ [Next]_vars => IInv'
<1> SUFFICES ASSUME IInv, [Next]_vars PROVE IInv'
  OBVIOUS
<1>1. CASE UNCHANGED loopVars
  BY <1>1, IdleStep DEF loopVars, Idle
<1>2. CASE Ask
  BY <1>2, IdleStep DEF Ask, loopVars, Idle
<1>3. CASE Expire
  BY <1>3, IdleStep DEF Expire, Idle
<1>4. CASE GiveUp \/ TurnCeiling \/ BudgetCeiling
  BY <1>4, IdleStep DEF GiveUp, TurnCeiling, BudgetCeiling, Turning, Return, Idle
<1>5. ASSUME NEW i \in 1..MaxUses,
             StartCall(i) \/ ReadForCall(i) \/ AnswerCall(i) \/ CallFails(i)
      PROVE  IInv'
  BY <1>5, IdleStep DEF StartCall, ReadForCall, AnswerCall, CallFails, Idle
<1>6. CASE UNCHANGED vars
  BY <1>1, <1>6 DEF vars
<1> QED
  BY <1>1, <1>2, <1>3, <1>4, <1>5, <1>6, CallStep, WasteStep, EndToolsStep DEF Next, LoopNext

(* No account is open before the question.                                 *)
LEMMA IInvInit == Init => IInv
<1> SUFFICES ASSUME Init PROVE IInv
  OBVIOUS
<1>1. AccountTypes /\ Books /\ Affordable
  BY LoopAssumption DEF Init, AccountTypes, Books, Affordable
<1>2. WasteBound
  <2>1. wasted = 0 /\ Tries * MaxPrice \in Nat
    BY <1>1, TriesTyped DEF Init
  <2> QED BY <2>1 DEF WasteBound
<1> QED BY <1>1, <1>2 DEF IInv

(* Of the responses it was given a question costs less than the ceiling    *)
(* and one more, and what Run returns, after whichever of its ends,        *)
(* accounts for every one of them, the turn in which a tool failed         *)
(* included.  What is charged besides, for responses that were no use, is  *)
(* bounded by the attempts there are.                                      *)
THEOREM SpendKept == Spec => []SpendHolds
<1>1. ASSUME IInv PROVE SpendHolds
  <2>1. wasted <= (turn + 1) * MaxAttempts * MaxPrice
    <3>. DEFINE most == (turn + 1) * MaxAttempts
    <3>1. most \in Nat /\ most = turn * MaxAttempts + MaxAttempts
      BY <1>1, TriesTyped, MoreTries DEF IInv, AccountTypes
    <3>2. Tries \in Nat /\ Tries <= most /\ MaxPrice \in Nat
      BY <1>1, <3>1, TriesTyped DEF IInv
    <3>. HIDE DEF most
    <3>3. Tries * MaxPrice <= most * MaxPrice /\ Tries * MaxPrice \in Nat /\ most * MaxPrice \in Nat
      BY <3>1, <3>2, MoreTries
    <3>4. wasted \in Nat /\ wasted <= Tries * MaxPrice
      BY <1>1 DEF IInv, AccountTypes, WasteBound
    <3>5. wasted <= most * MaxPrice
      BY <3>3, <3>4
    <3> QED BY <3>5 DEF most
  <2>2. stage \in {"returned", "failed"} => billed = cost + wasted
    BY <1>1 DEF IInv, AccountTypes, Books
  <2> QED BY <1>1, <2>1, <2>2 DEF IInv, Affordable, SpendHolds
<1> QED BY IInvInit, IInvStep, <1>1, PTL DEF Spec

-----------------------------------------------------------------------------
(* Rows in order.                                                          *)

(* The least of some numbers.                                              *)
LEMMA LeastNumber ==
  ASSUME NEW N \in SUBSET Nat, N # {}
  PROVE  \E n \in N : \A m \in N : n <= m
<1>. DEFINE SS == {0..n : n \in N}
<1>1. SS \subseteq FiniteSubsetsOf(Nat) /\ SS # {}
  <2>1. \A n \in N : IsFiniteSet(0..n) /\ 0..n \subseteq Nat
    BY FS_Interval
  <2>. QED
    BY <2>1 DEF FiniteSubsetsOf
<1>2. PICK S \in SS : \A T \in SS : <<T, S>> \notin StrictSubsetOrdering(Nat)
  <2>. HIDE DEF SS
  <2>. QED BY <1>1, FS_StrictSubsetOrderingWellFounded, WFMin
<1>3. PICK n \in N : S = 0..n
  OBVIOUS
<1>4. ASSUME NEW m \in N, m < n PROVE FALSE
  <2>1. 0..m \in SS /\ 0..m \subseteq 0..n /\ n \in 0..n /\ n \notin 0..m
    BY <1>4
  <2>2. <<0..m, S>> \in StrictSubsetOrdering(Nat)
    BY <1>1, <1>3, <2>1 DEF StrictSubsetOrdering
  <2>. QED
    BY <1>2, <2>1, <2>2
<1>. QED
  BY <1>4

(* An order of some rows is a sequence of all of them, each once.          *)
LEMMA Enumerates ==
  ASSUME NEW S, IsFiniteSet(S), NEW s \in SetToSeqs(S)
  PROVE  /\ s \in Seq(S) /\ Len(s) = Cardinality(S) /\ Cardinality(S) \in Nat
         /\ DOMAIN s = 1..Len(s)
         /\ \A i, j \in 1..Len(s) : s[i] = s[j] => i = j
         /\ ToSet(s) = S
<1>. DEFINE n == Cardinality(S)
<1>1. n \in Nat
  BY FS_CardinalityType
<1>2. s \in [1..n -> S] /\ \A i, j \in 1..n : i # j => s[i] # s[j]
  BY DEF SetToSeqs
<1>3. s \in Seq(S) /\ Len(s) = n /\ DOMAIN s = 1..n
  <2>. HIDE DEF n
  <2>. QED BY <1>1, <1>2
<1>4. ToSet(s) = S
  <2>1. s \in Injection(1..n, S)
    BY <1>2 DEF Injection, IsInjective
  <2>2. Cardinality(1..n) = n /\ IsFiniteSet(1..n)
    BY <1>1, FS_Interval
  <2>3. s \in Surjection(1..n, S)
    BY <2>1, <2>2, FS_Injection
  <2>. QED
    BY <1>2, <2>3 DEF Surjection, ToSet
<1>. QED
  BY <1>1, <1>2, <1>3, <1>4

(* What an order of some rows holds, and how.                              *)
LEMMA OrderedRows ==
  ASSUME NEW S \in SUBSET Disputes, NEW s \in Orders(S)
  PROVE  /\ s \in Seq(S) /\ Len(s) = Cardinality(S) /\ Len(s) \in Nat
         /\ DOMAIN s = 1..Len(s) /\ ToSet(s) = S /\ InOrder(s)
<1>1. IsFiniteSet(S)
  BY ReadsAssumption, FS_Subset
<1>. QED
  BY <1>1, Enumerates DEF Orders

(* By their deadlines, and by their ids where those are the same, rows     *)
(* come in one order only: where two orders part first, each would have    *)
(* the other's row behind its own.                                         *)
LEMMA OneOrder ==
  ASSUME NEW S \in SUBSET Disputes, NEW s \in Orders(S), NEW t \in Orders(S)
  PROVE  s = t
<1>1. IsFiniteSet(S) /\ s \in SetToSeqs(S) /\ t \in SetToSeqs(S) /\ InOrder(s) /\ InOrder(t)
  BY ReadsAssumption, FS_Subset DEF Orders
<1>. DEFINE n == Cardinality(S)
            Apart == {i \in 1..n : s[i] # t[i]}
<1>2. /\ n \in Nat
      /\ s \in Seq(S) /\ Len(s) = n /\ DOMAIN s = 1..n /\ ToSet(s) = S
      /\ t \in Seq(S) /\ Len(t) = n /\ DOMAIN t = 1..n /\ ToSet(t) = S
      /\ \A i, j \in 1..n : s[i] = s[j] => i = j
      /\ \A i, j \in 1..n : t[i] = t[j] => i = j
  BY <1>1, Enumerates
<1>. HIDE DEF n
<1>3. Apart = {}
  <2>. SUFFICES ASSUME Apart # {} PROVE FALSE
    OBVIOUS
  <2>1. PICK k \in Apart : \A l \in Apart : k <= l
    <3>1. Apart \in SUBSET Nat
      BY <1>2
    <3>. HIDE DEF Apart
    <3>. QED BY <3>1, LeastNumber
  <2>2. k \in 1..n /\ s[k] # t[k] /\ \A l \in 1..n : l < k => s[l] = t[l]
    BY <1>2, <2>1
  <2>3. PICK i \in 1..n : t[i] = s[k]
    BY <1>2, <2>2 DEF ToSet
  <2>4. PICK j \in 1..n : s[j] = t[k]
    BY <1>2, <2>2 DEF ToSet
  <2>5. k < i /\ k < j
    BY <1>2, <2>2, <2>3, <2>4
  <2>6. Earlier(t[k], s[k]) /\ Earlier(s[k], t[k])
    BY <1>1, <1>2, <2>2, <2>3, <2>4, <2>5 DEF InOrder
  <2>7. /\ s[k] \in Nat /\ t[k] \in Nat
        /\ DeadlineOf[s[k]] \in Nat /\ DeadlineOf[t[k]] \in Nat
    <3>1. s[k] \in Disputes /\ t[k] \in Disputes
      BY <1>2, <2>2
    <3>. QED
      BY <3>1, ReadsAssumption
  <2>. QED
    BY <2>6, <2>7 DEF Earlier
<1>. QED
  BY <1>2, <1>3, SeqEqual

-----------------------------------------------------------------------------
(* A request on its way, and what its answers say of the tables.           *)

(* What is on record, and the write a request counts from.                 *)
TablesTyped ==
  /\ history \in [Disputes -> Seq(Told)] /\ claimed \subseteq Disputes
  /\ \A d \in claimed : history[d] # <<>> /\ Last(history[d]) = "received"
  /\ writes \in Nat /\ since \in 0..writes

Fields == {"kind", "filter", "limit", "offset", "id", "answers"}

Kinds == {"list", "export", "detail", "history", "summary"}

Given(q) == DOMAIN q.answers

(* A request the handlers make: its fields, and answers of its own kind.   *)
WellFormed(q) ==
  /\ DOMAIN q = Fields
  /\ q.kind \in Kinds /\ q.filter \in Filter
  /\ q.limit \in 1..MaxLimit /\ q.offset \in Nat
  /\ Given(q) \subseteq Parts(q.kind)

(* A list, while nothing changes.                                          *)
ListTells(q, from) ==
  q.kind = "list" /\ from = writes =>
    /\ "page" \in Given(q) => q.answers["page"] \in PageOf(q)
    /\ "count" \in Given(q) => q.answers["count"] = Cardinality(Matching(q.filter))

(* A dispute's page: what has happened to it is never taken back.          *)
DetailTells(q, from) ==
  q.kind = "detail" =>
    /\ "row" \in Given(q) =>
         \/ q.answers["row"] = "missing"
         \/ /\ q.id \in Disputes /\ ToldIn(q.answers["row"], ToSet(history[q.id]))
            /\ from = writes => ToldIn(q.answers["row"], {Last(history[q.id])})
    /\ "events" \in Given(q) =>
         /\ "row" \in Given(q) /\ ToldIn(q.answers["row"], ToSet(q.answers["events"]))
         /\ q.id \in Disputes /\ ToSet(q.answers["events"]) \subseteq ToSet(history[q.id])
         /\ from = writes => ToldIn(q.answers["row"], {Last(q.answers["events"])})
    /\ "postings" \in Given(q) =>
         /\ "events" \in Given(q)
         /\ "refunded" \in ToSet(q.answers["events"]) /\ q.id \in Booked => q.answers["postings"]

(* The summary: a panel is off by no more than was written since.          *)
Near(n, now, slack) == n \in Nat /\ Distance(n, now) <= slack

SummaryTells(q, from) ==
  q.kind = "summary" =>
    LET slack == writes - from IN
    /\ "states" \in Given(q) => /\ Near(q.answers["states"].open, Cardinality(Open), slack)
                                /\ Near(q.answers["states"].filed, Cardinality(Filed), slack)
    /\ "exposure" \in Given(q) => Near(q.answers["exposure"], Cardinality(Open), slack)
    /\ "deadlines" \in Given(q) => Near(q.answers["deadlines"], Cardinality(Open), slack)
    /\ "daily" \in Given(q) => Near(q.answers["daily"], Cardinality(Filed), slack)
    /\ {"states", "exposure"} \subseteq Given(q) =>
         Near(q.answers["states"].open, q.answers["exposure"], slack)
    /\ {"exposure", "deadlines"} \subseteq Given(q) =>
         Near(q.answers["exposure"], q.answers["deadlines"], slack)
    /\ {"states", "daily"} \subseteq Given(q) =>
         Near(q.answers["states"].filed, q.answers["daily"], slack)

(* What the answers a request has so far say of the tables, when it began  *)
(* at write number from.                                                   *)
Tells(q, from) == ListTells(q, from) /\ DetailTells(q, from) /\ SummaryTells(q, from)

Sound(q, from) == from \in 0..writes /\ WellFormed(q) /\ Tells(q, from)

(* The counts the statements return are numbers.                           *)
LEMMA FiniteTables ==
  ASSUME TablesTyped
  PROVE  /\ Filed \in SUBSET Disputes /\ IsFiniteSet(Filed) /\ Cardinality(Filed) \in Nat
         /\ Open \in SUBSET Disputes /\ IsFiniteSet(Open) /\ Cardinality(Open) \in Nat
<1>1. Filed \in SUBSET Disputes /\ Open \in SUBSET Disputes /\ IsFiniteSet(Disputes)
  BY ReadsAssumption DEF Filed, Open
<1>2. IsFiniteSet(Filed) /\ IsFiniteSet(Open)
  BY <1>1, FS_Subset
<1>. QED
  BY <1>1, <1>2, FS_CardinalityType

(* What one more statement makes of a request.                             *)
LEMMA OneMoreIs ==
  ASSUME NEW q, WellFormed(q), NEW r \in OneMore(q)
  PROVE  /\ ~Answered(q)
         /\ DOMAIN r = Fields
         /\ r.kind = q.kind /\ r.filter = q.filter /\ r.limit = q.limit
         /\ r.offset = q.offset /\ r.id = q.id
         /\ \E part \in Parts(q.kind) \ Given(q) : \E answer \in Answers(q, part) :
              /\ After(part) \subseteq Given(q)
              /\ Given(r) = Given(q) \cup {part}
              /\ r.answers[part] = answer
              /\ \A p \in Given(q) : r.answers[p] = q.answers[p]
<1>1. ~Answered(q)
  BY DEF OneMore
<1>2. PICK part \in Parts(q.kind) \ Given(q) :
        /\ After(part) \subseteq Given(q)
        /\ \E answer \in Answers(q, part) :
             r = [q EXCEPT !.answers = [p \in Given(q) \cup {part} |->
                                          IF p = part THEN answer ELSE q.answers[p]]]
  BY <1>1 DEF OneMore, Given
<1>3. PICK answer \in Answers(q, part) :
        r = [q EXCEPT !.answers = [p \in Given(q) \cup {part} |->
                                     IF p = part THEN answer ELSE q.answers[p]]]
  BY <1>2
<1>4. r.answers = [p \in Given(q) \cup {part} |-> IF p = part THEN answer ELSE q.answers[p]]
  BY <1>3 DEF WellFormed, Fields
<1>5. /\ DOMAIN r = Fields
      /\ r.kind = q.kind /\ r.filter = q.filter /\ r.limit = q.limit
      /\ r.offset = q.offset /\ r.id = q.id
  BY <1>3 DEF WellFormed, Fields
<1>6. /\ Given(r) = Given(q) \cup {part} /\ r.answers[part] = answer
      /\ \A p \in Given(q) : r.answers[p] = q.answers[p]
  BY <1>2, <1>4 DEF Given
<1>. QED
  BY <1>1, <1>2, <1>3, <1>5, <1>6

(* The tables of the model, row by row.                                    *)
LEMMA Statements ==
  ASSUME NEW q
  PROVE  /\ Answers(q, "page") = PageOf(q) /\ Answers(q, "count") = CountOf(q)
         /\ Answers(q, "rows") = RowsOf(q)
         /\ Answers(q, "row") = RowOf(q) /\ Answers(q, "events") = EventsOf(q)
         /\ Answers(q, "postings") = PostingsOf(q)
         /\ Answers(q, "states") = StatesNow /\ Answers(q, "exposure") = ExposureNow
         /\ Answers(q, "deadlines") = DeadlinesNow /\ Answers(q, "daily") = DailyNow
BY DEF Answers

(* The statements of each kind of request, and those that follow others.   *)
LEMMA Sequels ==
  /\ Parts("list") = {"page", "count"} /\ Parts("export") = {"rows"}
  /\ Parts("detail") = {"row", "events", "postings"} /\ Parts("history") = {"prior"}
  /\ Parts("summary") = {"states", "exposure", "deadlines", "daily"}
  /\ After("events") = {"row"} /\ After("postings") = {"row", "events"}
BY DEF Parts, After

(* One more statement of a list reads the tables its others did, while     *)
(* nothing is written.                                                     *)
LEMMA ListGoesOn ==
  ASSUME TablesTyped, NEW q, NEW from, Sound(q, from), NEW r \in OneMore(q)
  PROVE  ListTells(r, from)
<1>1. PICK part \in Parts(q.kind) \ Given(q) : \E answer \in Answers(q, part) :
        /\ Given(r) = Given(q) \cup {part} /\ r.answers[part] = answer
        /\ \A p \in Given(q) : r.answers[p] = q.answers[p]
  BY OneMoreIs DEF Sound
<1>2. r.kind = q.kind /\ r.filter = q.filter /\ r.limit = q.limit /\ r.offset = q.offset
  BY OneMoreIs DEF Sound
<1>3. PageOf(r) = PageOf(q)
  BY <1>2 DEF PageOf
<1>. SUFFICES ASSUME q.kind = "list", from = writes
              PROVE  /\ "page" \in Given(r) => r.answers["page"] \in PageOf(q)
                     /\ "count" \in Given(r) =>
                          r.answers["count"] = Cardinality(Matching(q.filter))
  BY <1>2, <1>3 DEF ListTells
<1>4. /\ "page" \in Given(q) => q.answers["page"] \in PageOf(q)
      /\ "count" \in Given(q) => q.answers["count"] = Cardinality(Matching(q.filter))
  BY DEF Sound, Tells, ListTells
<1>5. CASE part = "page"
  BY <1>1, <1>4, <1>5, Statements
<1>6. CASE part = "count"
  BY <1>1, <1>4, <1>6, Statements DEF CountOf
<1>. QED
  BY <1>1, <1>5, <1>6, Sequels

(* The last of a dispute's events tells of the state it is in now.         *)
LEMMA LastTells ==
  ASSUME TablesTyped, NEW d \in Filed
  PROVE  /\ d \in Disputes /\ ToldIn(StateOf(d), {Last(history[d])})
         /\ ToldIn(StateOf(d), ToSet(history[d]))
<1>1. d \in Disputes /\ history[d] \in Seq(Told) /\ history[d] # <<>>
  BY DEF Filed, TablesTyped
<1>2. Last(history[d]) \in ToSet(history[d]) /\ Last(history[d]) \in Told
  <2>1. \A h \in Seq(Told) : h # <<>> => Len(h) \in DOMAIN h /\ h[Len(h)] \in Told
    OBVIOUS
  <2>. QED
    BY <1>1, <2>1 DEF Last, ToSet
<1>3. ToldIn(StateOf(d), {Last(history[d])})
  BY <1>2 DEF ToldIn, StateOf, TablesTyped, Told
<1>. QED
  BY <1>1, <1>2, <1>3 DEF ToldIn

(* The events of a dispute are read after its row, and so hold its state;  *)
(* its postings after both, and so hold what the events tell of.           *)
LEMMA DetailGoesOn ==
  ASSUME TablesTyped, NEW q, NEW from, Sound(q, from), NEW r \in OneMore(q)
  PROVE  DetailTells(r, from)
<1>1. PICK part \in Parts(q.kind) \ Given(q) : \E answer \in Answers(q, part) :
        /\ After(part) \subseteq Given(q)
        /\ Given(r) = Given(q) \cup {part} /\ r.answers[part] = answer
        /\ \A p \in Given(q) : r.answers[p] = q.answers[p]
  BY OneMoreIs DEF Sound
<1>2. r.kind = q.kind /\ r.id = q.id
  BY OneMoreIs DEF Sound
<1>. SUFFICES ASSUME q.kind = "detail" PROVE DetailTells(r, from)
  BY <1>2 DEF DetailTells
<1>3. DetailTells(q, from)
  BY DEF Sound, Tells
<1>4. CASE part = "row"
  <2>1. "events" \notin Given(q) /\ "postings" \notin Given(q)
    BY <1>1, <1>3, <1>4 DEF DetailTells
  <2>2. r.answers["row"] = IF q.id \in Filed THEN StateOf(q.id) ELSE "missing"
    BY <1>1, <1>4, Statements DEF RowOf
  <2>3. q.id \in Filed => /\ q.id \in Disputes
                          /\ ToldIn(r.answers["row"], {Last(history[q.id])})
                          /\ ToldIn(r.answers["row"], ToSet(history[q.id]))
    BY <2>2, LastTells
  <2>. QED
    BY <1>1, <1>2, <1>4, <2>1, <2>2, <2>3 DEF DetailTells
<1>5. CASE part = "events"
  <2>1. "row" \in Given(q) /\ "postings" \notin Given(q)
    BY <1>1, <1>3, <1>5, Sequels DEF DetailTells
  <2>2. q.answers["row"] # "missing"
    BY <2>1, OneMoreIs DEF Sound, Answered, NotFound, Given
  <2>3. r.answers["events"] = history[q.id] /\ r.answers["row"] = q.answers["row"]
    BY <1>1, <1>5, <2>1, Statements DEF EventsOf
  <2>. QED
    BY <1>1, <1>2, <1>3, <1>5, <2>1, <2>2, <2>3 DEF DetailTells
<1>6. CASE part = "postings"
  <2>1. "row" \in Given(q) /\ "events" \in Given(q)
    BY <1>1, <1>6, Sequels
  <2>2. r.answers["postings"] = (q.id \in Booked /\ "refunded" \in ToSet(history[q.id]))
    BY <1>1, <1>6, Statements DEF PostingsOf
  <2>3. r.answers["events"] = q.answers["events"] /\ r.answers["row"] = q.answers["row"]
    BY <1>1, <2>1
  <2>. QED
    BY <1>1, <1>2, <1>3, <1>6, <2>1, <2>2, <2>3 DEF DetailTells
<1>. QED
  BY <1>1, <1>4, <1>5, <1>6, Sequels

(* A panel that is read now is exact, and as far from the others as they   *)
(* are from the tables.                                                    *)
LEMMA SummaryGoesOn ==
  ASSUME TablesTyped, NEW q, NEW from, Sound(q, from), NEW r \in OneMore(q)
  PROVE  SummaryTells(r, from)
<1>1. PICK part \in Parts(q.kind) \ Given(q) : \E answer \in Answers(q, part) :
        /\ Given(r) = Given(q) \cup {part} /\ r.answers[part] = answer
        /\ \A p \in Given(q) : r.answers[p] = q.answers[p]
  BY OneMoreIs DEF Sound
<1>2. r.kind = q.kind
  BY OneMoreIs DEF Sound
<1>. SUFFICES ASSUME q.kind = "summary" PROVE SummaryTells(r, from)
  BY <1>2 DEF SummaryTells
<1>3. SummaryTells(q, from) /\ from \in 0..writes /\ writes \in Nat
  BY DEF Sound, Tells, TablesTyped
<1>4. \A n, now : now \in Nat /\ n = now => Near(n, now, writes - from)
  BY <1>3 DEF Near, Distance
<1>5. \A n, now : now \in Nat /\ Near(n, now, writes - from) => Near(now, n, writes - from)
  BY <1>3 DEF Near, Distance
<1>6. Cardinality(Open) \in Nat /\ Cardinality(Filed) \in Nat
  BY FiniteTables
<1>7. CASE part = "states"
  <2>1. r.answers["states"] = [filed |-> Cardinality(Filed), open |-> Cardinality(Open)]
    BY <1>1, <1>7, Statements DEF StatesNow
  <2>2. /\ r.answers["states"].filed = Cardinality(Filed)
        /\ r.answers["states"].open = Cardinality(Open)
    BY <2>1
  <2>. QED
    BY <1>1, <1>3, <1>4, <1>5, <1>6, <1>7, <2>2 DEF SummaryTells
<1>8. CASE part = "exposure"
  <2>1. r.answers["exposure"] = Cardinality(Open)
    BY <1>1, <1>8, Statements DEF ExposureNow, OpenClause
  <2>. QED
    BY <1>1, <1>3, <1>4, <1>5, <1>6, <1>8, <2>1 DEF SummaryTells
<1>9. CASE part = "deadlines"
  <2>1. r.answers["deadlines"] = Cardinality(Open)
    BY <1>1, <1>9, Statements DEF DeadlinesNow, OpenClause
  <2>. QED
    BY <1>1, <1>3, <1>4, <1>5, <1>6, <1>9, <2>1 DEF SummaryTells
<1>10. CASE part = "daily"
  <2>1. r.answers["daily"] = Cardinality(Filed)
    BY <1>1, <1>10, Statements DEF DailyNow
  <2>. QED
    BY <1>1, <1>3, <1>4, <1>5, <1>6, <1>10, <2>1 DEF SummaryTells
<1>. QED
  BY <1>1, <1>7, <1>8, <1>9, <1>10, Sequels

(* Whatever a statement answers keeps what is said of the request.         *)
LEMMA OneMoreSound ==
  ASSUME TablesTyped, NEW q, NEW from, Sound(q, from), NEW r \in OneMore(q)
  PROVE  Sound(r, from)
<1>1. WellFormed(r)
  BY OneMoreIs DEF Sound, WellFormed
<1>. QED
  BY <1>1, ListGoesOn, DetailGoesOn, SummaryGoesOn DEF Sound, Tells

(* Two sets that differ in one element differ by one at most.              *)
LEMMA ByOne ==
  ASSUME NEW S, NEW T, IsFiniteSet(S), IsFiniteSet(T), NEW d, S \ {d} = T \ {d}
  PROVE  Distance(Cardinality(S), Cardinality(T)) <= 1
<1>1. Cardinality(S) \in Nat /\ Cardinality(T) \in Nat
  BY FS_CardinalityType
<1>2. /\ Cardinality(S \ {d}) \in {Cardinality(S), Cardinality(S) - 1}
      /\ Cardinality(T \ {d}) \in {Cardinality(T), Cardinality(T) - 1}
  BY FS_RemoveElement
<1>3. Cardinality(S \ {d}) = Cardinality(T \ {d})
  OBVIOUS
<1>. DEFINE m == Cardinality(S)
            n == Cardinality(T)
<1>4. m - n <= 1 /\ n - m <= 1
  <2>1. m = n \/ m = n - 1 \/ m - 1 = n
    <3>1. m \in Nat /\ n \in Nat
      BY <1>1
    <3>2. \E k : k \in {m, m - 1} /\ k \in {n, n - 1}
      BY <1>2, <1>3
    <3>. HIDE DEF m, n
    <3>. QED BY <3>1, <3>2
  <2>. HIDE DEF m, n
  <2>2. m \in Nat /\ n \in Nat
    BY <1>1 DEF m, n
  <2>. QED BY <2>1, <2>2
<1>. QED
  BY <1>1, <1>4 DEF Distance

(* One write: a dispute is filed, moves, or is claimed or released.  What  *)
(* it has been is not lost, and the counts change by one at most.          *)
LEMMA WriteEffect ==
  ASSUME TablesTyped, Write
  PROVE  /\ TablesTyped' /\ writes' = writes + 1
         /\ \A d \in Disputes : ToSet(history[d]) \subseteq ToSet(history'[d])
         /\ Distance(Cardinality(Open), Cardinality(Open')) <= 1
         /\ Distance(Cardinality(Filed), Cardinality(Filed')) <= 1
         /\ Cardinality(Open') \in Nat /\ Cardinality(Filed') \in Nat
<1>1. PICK d \in Disputes : Move(d) \/ Hold(d) \/ Release(d)
  BY DEF Write
<1>2. writes' = writes + 1 /\ since' = since
  BY DEF Write
<1>3. \A x \in Disputes : x # d =>
        history'[x] = history[x] /\ (x \in claimed' <=> x \in claimed)
  BY <1>1 DEF Move, Hold, Release, TablesTyped
<1>4. /\ history' \in [Disputes -> Seq(Told)] /\ claimed' \subseteq Disputes
      /\ ToSet(history[d]) \subseteq ToSet(history'[d])
      /\ d \in claimed' => history'[d] # <<>> /\ Last(history'[d]) = "received"
  <2>1. CASE Move(d)
    <3>1. PICK to \in Told : history' = [history EXCEPT ![d] = Append(@, to)]
      BY <2>1 DEF Move
    <3>2. history'[d] = Append(history[d], to) /\ history[d] \in Seq(Told)
      BY <3>1 DEF TablesTyped
    <3>3. \A i \in DOMAIN history[d] : i \in DOMAIN history'[d] /\ history'[d][i] = history[d][i]
      BY <3>2, AppendProperties, LenProperties
    <3>4. Append(history[d], to) \in Seq(Told)
      BY <3>2
    <3>. QED
      BY <2>1, <3>1, <3>3, <3>4 DEF TablesTyped, ToSet, Move
  <2>2. CASE Hold(d)
    BY <2>2 DEF Hold, Filed, StateOf, TablesTyped
  <2>3. CASE Release(d)
    BY <2>3 DEF Release, TablesTyped
  <2>. QED
    BY <1>1, <2>1, <2>2, <2>3
<1>5. TablesTyped'
  <2>1. \A x \in claimed' : history'[x] # <<>> /\ Last(history'[x]) = "received"
    BY <1>3, <1>4 DEF TablesTyped, Last
  <2>. QED
    BY <1>2, <1>4, <2>1 DEF TablesTyped
<1>6. Filed \ {d} = Filed' \ {d} /\ Open \ {d} = Open' \ {d}
  BY <1>3 DEF Filed, Open, StateOf, Last
<1>7. IsFiniteSet(Filed) /\ IsFiniteSet(Open)
  BY FiniteTables
<1>8. IsFiniteSet(Filed') /\ IsFiniteSet(Open')
  <2>1. Filed' \in SUBSET Disputes /\ Open' \in SUBSET Disputes
    BY DEF Filed, Open
  <2>. QED
    BY <2>1, ReadsAssumption, FS_Subset
<1>. QED
  BY <1>2, <1>3, <1>4, <1>5, <1>6, <1>7, <1>8, ByOne, FS_CardinalityType

(* What was near to a count is as near to it after one more write.         *)
LEMMA StaysNear ==
  ASSUME TablesTyped, NEW from \in 0..writes, Write, NEW n
  PROVE  /\ Near(n, Cardinality(Open), writes - from) =>
              Near(n, Cardinality(Open'), writes' - from)
         /\ Near(n, Cardinality(Filed), writes - from) =>
              Near(n, Cardinality(Filed'), writes' - from)
         /\ \A m \in Nat : Near(n, m, writes - from) => Near(n, m, writes' - from)
<1>1. writes \in Nat /\ writes' = writes + 1 /\ from \in Nat
  BY WriteEffect DEF TablesTyped
<1>2. \A m, now, later \in Nat :
        Distance(m, now) <= writes - from /\ Distance(now, later) <= 1 =>
          Distance(m, later) <= writes' - from
  BY <1>1 DEF Distance
<1>3. /\ Cardinality(Open) \in Nat /\ Cardinality(Filed) \in Nat
      /\ Cardinality(Open') \in Nat /\ Cardinality(Filed') \in Nat
  BY FiniteTables, WriteEffect
<1>4. Near(n, Cardinality(Open), writes - from) => Near(n, Cardinality(Open'), writes' - from)
  BY <1>2, <1>3, WriteEffect DEF Near
<1>5. Near(n, Cardinality(Filed), writes - from) => Near(n, Cardinality(Filed'), writes' - from)
  BY <1>2, <1>3, WriteEffect DEF Near
<1>6. ASSUME NEW m \in Nat, Near(n, m, writes - from) PROVE Near(n, m, writes' - from)
  <2>1. n \in Nat /\ Distance(n, m) <= writes - from
    BY <1>6 DEF Near
  <2>2. Distance(n, m) <= writes' - from
    BY <1>1, <2>1 DEF Distance
  <2>. QED
    BY <2>1, <2>2 DEF Near
<1>. QED
  BY <1>4, <1>5, <1>6

(* A write puts every panel off by one more at most, and takes back        *)
(* nothing a dispute's page has shown.                                     *)
LEMMA WriteSound ==
  ASSUME TablesTyped, NEW q, NEW from, Sound(q, from), Write
  PROVE  Sound(q, from)'
<1>1. from \in 0..writes /\ writes \in Nat /\ writes' = writes + 1
  BY WriteEffect DEF Sound, TablesTyped
<1>2. ListTells(q, from)'
  BY <1>1 DEF ListTells
<1>3. DetailTells(q, from)'
  <2>1. DetailTells(q, from) /\ from # writes'
    BY <1>1 DEF Sound, Tells
  <2>2. \A state, some, more : some \subseteq more /\ ToldIn(state, some) => ToldIn(state, more)
    BY DEF ToldIn
  <2>. QED
    BY <2>1, <2>2, WriteEffect DEF DetailTells, Given, ToldIn
<1>4. SummaryTells(q, from)'
  <2>1. \A n :
          /\ Near(n, Cardinality(Open), writes - from) =>
               Near(n, Cardinality(Open'), writes' - from)
          /\ Near(n, Cardinality(Filed), writes - from) =>
               Near(n, Cardinality(Filed'), writes' - from)
          /\ \A m \in Nat : Near(n, m, writes - from) => Near(n, m, writes' - from)
    BY <1>1, StaysNear
  <2>2. SummaryTells(q, from)
    BY DEF Sound, Tells
  <2>3. \A n, m, slack : Near(n, m, slack) => n \in Nat
    BY DEF Near
  <2>. QED
    BY <2>1, <2>2, <2>3 DEF SummaryTells, Given
<1>. QED
  BY <1>1, <1>2, <1>3, <1>4 DEF Sound, Tells, WellFormed, Given

(* Nothing said of a request changes while the tables stay as they are.    *)
LEMMA StillSound ==
  ASSUME UNCHANGED tableVars, NEW q, NEW from, Sound(q, from)
  PROVE  Sound(q, from)'
<1>1. history' = history /\ claimed' = claimed /\ writes' = writes
  BY DEF tableVars
<1>2. Filed' = Filed /\ Open' = Open
  BY <1>1 DEF Filed, Open, StateOf
<1>3. ListTells(q, from)'
  BY <1>1, <1>2 DEF Sound, Tells, ListTells, PageOf, Matching, Given
<1>4. DetailTells(q, from)'
  BY <1>1 DEF Sound, Tells, DetailTells, Given, ToldIn
<1>5. SummaryTells(q, from)'
  BY <1>1, <1>2 DEF Sound, Tells, SummaryTells, Given
<1>. QED
  BY <1>1, <1>3, <1>4, <1>5 DEF Sound, Tells, WellFormed, Given

(* Nothing is said yet of a request that was just sent.                    *)
LEMMA FreshSound ==
  ASSUME TablesTyped, NEW kind \in Kinds, NEW filter \in Filter,
         NEW limit \in 1..MaxLimit, NEW offset \in Nat, NEW id,
         NEW q, q = Sent(kind, filter, limit, offset, id)
  PROVE  /\ Sound(q, writes) /\ Given(q) = {}
         /\ q.kind = kind /\ q.filter = filter /\ q.limit = limit /\ q.offset = offset
<1>1. /\ DOMAIN q = Fields
      /\ q.kind = kind /\ q.filter = filter /\ q.limit = limit /\ q.offset = offset
      /\ q.answers = [part \in {} |-> None]
  BY DEF Sent, Fields
<1>2. Given(q) = {}
  BY <1>1 DEF Given
<1>3. WellFormed(q)
  BY <1>1, <1>2 DEF WellFormed
<1>4. Tells(q, writes)
  BY <1>2 DEF Tells, ListTells, DetailTells, SummaryTells
<1>. QED
  BY <1>1, <1>2, <1>3, <1>4 DEF Sound, TablesTyped

-----------------------------------------------------------------------------
(* What is being read.                                                     *)

(* A walk has come as far as its offset, along the one order there is.     *)
Walked ==
  \A s \in Orders(Open) : request.offset <= Len(s) /\ seen = SubSeq(s, 1, request.offset)

(* What each job under way can tell of the tables.                         *)
JobInv ==
  /\ job = "idle" => seen = <<>>
  /\ job = "walk" => /\ Sound(request, since)
                     /\ request.kind = "list" /\ request.filter = "open"
                     /\ since = writes => Walked
  /\ job = "export" => /\ WellFormed(request)
                       /\ request.kind = "export" /\ Given(request) = {"rows"}
                       /\ before \subseteq Disputes
                       /\ request.answers["rows"] \in Orders(before)
  /\ job = "detail" => Sound(request, since) /\ request.kind = "detail"
  /\ job = "summary" => Sound(request, since) /\ request.kind = "summary"

ReadsInv == TablesTyped /\ JobInv /\ ListsWhole /\ HangsTogether

(* Nothing is being read at first.                                         *)
LEMMA ReadsInitially == Init => ReadsInv
BY ReadsAssumption
   DEF Init, ReadsInit, ReadsInv, TablesTyped, JobInv, ListsWhole, HangsTogether

(* Nothing is claimed of what was refused, failed or never got far.        *)
LEMMA NothingRead ==
  ASSUME ReadsInv, UNCHANGED tableVars, since' \in 0..writes',
         job' \in {"question", "asked", "refused", "failed", "not found", "too deep"}
  PROVE  ReadsInv'
BY DEF ReadsInv, tableVars, TablesTyped, JobInv, ListsWhole, HangsTogether

(* A step that leaves tables and request alone leaves what they tell.      *)
LEMMA ReadsStill ==
  ASSUME ReadsInv, UNCHANGED <<tableVars, job, since, before, request, seen>>
  PROVE  ReadsInv'
<1>1. Sound(request, since) => Sound(request, since)'
  BY StillSound
<1>2. /\ Filed' = Filed /\ Open' = Open
      /\ UNCHANGED <<writes, history, claimed>>
  BY DEF tableVars, Filed, Open, StateOf
<1>3. JobInv'
  BY <1>1, <1>2 DEF ReadsInv, JobInv, Walked, WellFormed, Given
<1>. QED
  BY <1>2, <1>3 DEF ReadsInv, TablesTyped, ListsWhole, HangsTogether

(* A write while something is being read.                                  *)
LEMMA WriteStep ==
  ASSUME ReadsInv, Write
  PROVE  ReadsInv'
<1>1. TablesTyped' /\ writes' = writes + 1
  BY WriteEffect DEF ReadsInv
<1>2. UNCHANGED <<job, since, before, request, seen>> /\ job \notin Ended
  BY DEF Write
<1>3. Sound(request, since) => Sound(request, since)'
  BY <1>2, WriteSound DEF ReadsInv
<1>4. since # writes'
  BY <1>1 DEF ReadsInv, TablesTyped
<1>5. JobInv'
  BY <1>2, <1>3, <1>4 DEF ReadsInv, JobInv, WellFormed, Given
<1>6. ListsWhole' /\ HangsTogether'
  BY <1>2 DEF ListsWhole, HangsTogether, Ended
<1>. QED
  BY <1>1, <1>5, <1>6 DEF ReadsInv

(* A request sent, or answered a little further, in this step is as sound  *)
(* as one that was there before it.                                        *)
LEMMA SentSound ==
  ASSUME UNCHANGED tableVars, Sound(request', since')
  PROVE  Sound(request, since)'
<1>1. PICK q, from : q = request' /\ from = since'
  OBVIOUS
<1>2. Sound(q, from)'
  BY <1>1, StillSound
<1>. QED
  BY <1>1, <1>2

(* No row has been shown when nothing has been asked for yet.              *)
LEMMA StartStep ==
  ASSUME ReadsInv, (\E asked \in Limits : StartWalk(asked)) \/ StartDetail \/ StartSummary
  PROVE  ReadsInv'
<1>1. /\ UNCHANGED tableVars /\ seen' = <<>> /\ since' = writes /\ writes' = writes
      /\ UNCHANGED <<history, claimed>> /\ TablesTyped
  BY DEF StartWalk, StartDetail, StartSummary, Begin, ReadsInv, JobInv, tableVars
<1>2. TablesTyped'
  BY <1>1 DEF TablesTyped
<1>3. CASE \E asked \in Limits : StartWalk(asked)
  <2>1. PICK asked \in Limits : StartWalk(asked)
    BY <1>3
  <2>2. job' = "walk" /\ asked # 0 /\ request' = Sent("list", "open", ParseLimit(asked), 0, 0)
    BY <2>1 DEF StartWalk, Begin, OpenList
  <2>3. ParseLimit(asked) \in 1..MaxLimit
    BY <2>2, ReadsAssumption DEF ParseLimit, Least
  <2>4. /\ Sound(request', since') /\ request'.kind = "list" /\ request'.filter = "open"
        /\ request'.offset = 0
    BY <1>1, <2>2, <2>3, FreshSound DEF Kinds, Filter
  <2>5. Walked'
    <3>1. ASSUME NEW s \in Orders(Open')
          PROVE  0 <= Len(s) /\ SubSeq(s, 1, 0) = <<>>
      <4>1. Open' \in SUBSET Disputes
        BY DEF Open, Filed
      <4>2. Len(s) \in Nat
        BY <4>1, OrderedRows
      <4>. QED
        BY <4>2, SubSeqEmpty
    <3>. QED
      BY <1>1, <2>4, <3>1 DEF Walked
  <2>6. JobInv'
    BY <1>1, <2>2, <2>4, <2>5, SentSound DEF JobInv
  <2>. QED
    BY <1>2, <2>2, <2>6 DEF ReadsInv, ListsWhole, HangsTogether
<1>4. CASE StartDetail
  <2>1. PICK d \in Disputes : request' = Sent("detail", "all", DefaultLimit, 0, d)
    BY <1>4 DEF StartDetail
  <2>2. job' = "detail"
    BY <1>4 DEF StartDetail, Begin
  <2>3. Sound(request', since') /\ request'.kind = "detail"
    BY <1>1, <2>1, ReadsAssumption, FreshSound DEF Kinds, Filter
  <2>4. JobInv'
    BY <1>1, <2>2, <2>3, SentSound DEF JobInv
  <2>. QED
    BY <1>2, <2>2, <2>4 DEF ReadsInv, ListsWhole, HangsTogether
<1>5. CASE StartSummary
  <2>1. request' = Sent("summary", "all", DefaultLimit, 0, 0) /\ job' = "summary"
    BY <1>5 DEF StartSummary, Begin
  <2>2. Sound(request', since') /\ request'.kind = "summary"
    BY <1>1, <2>1, ReadsAssumption, FreshSound DEF Kinds, Filter
  <2>3. JobInv'
    BY <1>1, <2>1, <2>2, SentSound DEF JobInv
  <2>. QED
    BY <1>2, <2>1, <2>3 DEF ReadsInv, ListsWhole, HangsTogether
<1>. QED
  BY <1>3, <1>4, <1>5

(* One statement more of the request under way.                            *)
LEMMA ReadOneStep ==
  ASSUME ReadsInv, ReadOne
  PROVE  ReadsInv'
<1>1. /\ UNCHANGED <<tableVars, job, since, before, seen>>
      /\ job \in Reading /\ request' \in OneMore(request)
  BY DEF ReadOne
<1>2. /\ UNCHANGED <<history, claimed, writes>> /\ Filed' = Filed /\ Open' = Open
  BY <1>1 DEF tableVars, Filed, Open, StateOf
<1>3. CASE job = "question"
  BY <1>1, <1>3, <1>2, NothingRead DEF ReadsInv, TablesTyped
<1>4. CASE job = "export"
  BY <1>1, <1>4, Sequels, OneMoreIs DEF ReadsInv, JobInv, Answered, Given
<1>5. CASE job \in {"walk", "detail", "summary"}
  <2>1. Sound(request, since)
    BY <1>5 DEF ReadsInv, JobInv
  <2>2. Sound(request', since') /\ Sound(request, since)'
    BY <1>1, <2>1, OneMoreSound, SentSound DEF ReadsInv
  <2>3. /\ request'.kind = request.kind /\ request'.filter = request.filter
        /\ request'.offset = request.offset
    BY <1>1, <2>1, OneMoreIs DEF Sound
  <2>4. JobInv'
    BY <1>1, <1>2, <1>5, <2>2, <2>3 DEF ReadsInv, JobInv, Walked
  <2>. QED
    BY <1>1, <1>2, <1>5, <2>4 DEF ReadsInv, TablesTyped, ListsWhole, HangsTogether
<1>. QED
  BY <1>1, <1>3, <1>4, <1>5 DEF Reading

(* The next page starts where the last one ended, in the same order.       *)
LEMMA PageFollows ==
  ASSUME ReadsInv, NextPage, since = writes
  PROVE  \E s \in Orders(Open) :
           /\ seen' = SubSeq(s, 1, Least(NextOffset(request), Len(s)))
           /\ request.answers["count"] = Len(s)
           /\ s \in Seq(Open) /\ Len(s) \in Nat /\ ToSet(s) = Open
<1>1. /\ Sound(request, since) /\ request.kind = "list" /\ request.filter = "open"
      /\ Walked /\ Answered(request)
  BY DEF ReadsInv, JobInv, NextPage
<1>2. request.limit \in Nat /\ request.offset \in Nat
  BY <1>1, ReadsAssumption DEF Sound, WellFormed
<1>3. Given(request) = {"page", "count"}
  BY <1>1, Sequels DEF Answered, NotFound, Given, Sound, WellFormed
<1>4. Matching("open") = Open
  BY DEF Matching
<1>5. /\ request.answers["page"] \in PageOf(request)
      /\ request.answers["count"] = Cardinality(Open)
  BY <1>1, <1>3, <1>4 DEF Sound, Tells, ListTells
<1>6. PICK s \in Orders(Open) : request.answers["page"] = Window(s, request.limit, request.offset)
  BY <1>1, <1>4, <1>5 DEF PageOf
<1>7. s \in Seq(Open) /\ Len(s) = Cardinality(Open) /\ Len(s) \in Nat /\ ToSet(s) = Open
  BY <1>6, FiniteTables, OrderedRows DEF ReadsInv
<1>8. request.offset <= Len(s) /\ seen = SubSeq(s, 1, request.offset)
  BY <1>1 DEF Walked
<1>. DEFINE from == request.offset
            upTo == Least(NextOffset(request), Len(s))
<1>9. from \in 0..Len(s) /\ upTo \in from..Len(s)
  BY <1>2, <1>7, <1>8 DEF Least, NextOffset
<1>10. seen' = SubSeq(s, 1, from) \o SubSeq(s, from + 1, upTo)
  BY <1>6, <1>8 DEF NextPage, Window, NextOffset
<1>11. seen' = SubSeq(s, 1, upTo)
  <2>. HIDE DEF from, upTo
  <2>1. 1 \in 1..(Len(s) + 1) /\ from \in (1 - 1)..Len(s)
    BY <1>7, <1>9
  <2>. QED
    BY <1>7, <1>9, <1>10, <2>1, ConcatAdjacentSubSeq
<1>. QED
  BY <1>5, <1>7, <1>11

(* The page that was asked for is the stretch of the one order that        *)
(* follows what was seen, up to the offset of the next.                    *)
LEMMA NextPageStep ==
  ASSUME ReadsInv, NextPage
  PROVE  ReadsInv'
<1>. DEFINE next == NextOffset(request)
<1>1. /\ UNCHANGED <<history, claimed, writes, since, before>> /\ Filed' = Filed /\ Open' = Open
      /\ TablesTyped /\ TablesTyped'
  BY DEF NextPage, tableVars, ReadsInv, TablesTyped, Filed, Open, StateOf
<1>2. /\ Sound(request, since) /\ request.kind = "list" /\ request.filter = "open"
  BY DEF ReadsInv, JobInv, NextPage
<1>3. request.limit \in 1..MaxLimit /\ request.offset \in Nat /\ next \in Nat
  BY <1>2, ReadsAssumption DEF Sound, WellFormed, NextOffset
<1>4. CASE next >= request.answers["count"]
  <2>1. job' = "walked"
    BY <1>4 DEF NextPage
  <2>2. ASSUME writes = since PROVE InOrder(seen') /\ ToSet(seen') = Open
    <3>1. PICK s \in Orders(Open) :
            /\ seen' = SubSeq(s, 1, Least(next, Len(s)))
            /\ request.answers["count"] = Len(s)
            /\ s \in Seq(Open) /\ Len(s) \in Nat /\ ToSet(s) = Open
      BY <2>2, PageFollows
    <3>2. Least(next, Len(s)) = Len(s)
      BY <1>3, <1>4, <3>1 DEF Least
    <3>3. seen' = s
      BY <3>1, <3>2, SubSeqFull
    <3>. QED
      BY <3>1, <3>3 DEF Orders
  <2>3. ListsWhole'
    BY <1>1, <2>1, <2>2 DEF ListsWhole
  <2>. QED
    BY <1>1, <2>1, <2>3 DEF ReadsInv, JobInv, HangsTogether
<1>5. CASE ~(next >= request.answers["count"]) /\ next > MaxOffset
  BY <1>1, <1>5, NothingRead DEF NextPage, TablesTyped, ReadsInv
<1>6. CASE ~(next >= request.answers["count"]) /\ ~(next > MaxOffset)
  <2>1. job' = "walk" /\ request' = Sent("list", "open", request.limit, next, 0)
    BY <1>6 DEF NextPage, OpenList
  <2>2. /\ Sound(request', writes) /\ request'.kind = "list" /\ request'.filter = "open"
        /\ request'.offset = next
    BY <1>1, <1>3, <2>1, FreshSound DEF Kinds, Filter
  <2>3. Sound(request', since')
    BY <1>1, <1>2, <2>2 DEF Sound, Tells, ListTells, DetailTells, SummaryTells, TablesTyped
  <2>4. ASSUME since = writes PROVE Walked'
    <3>1. PICK s \in Orders(Open) :
            /\ seen' = SubSeq(s, 1, Least(next, Len(s)))
            /\ request.answers["count"] = Len(s) /\ Len(s) \in Nat
      BY <2>4, PageFollows
    <3>2. next <= Len(s) /\ Least(next, Len(s)) = next
      BY <1>3, <1>6, <3>1 DEF Least
    <3>3. \A t \in Orders(Open) : t = s
      BY FiniteTables, OneOrder, <3>1 DEF ReadsInv
    <3>. QED
      BY <1>1, <2>2, <3>1, <3>2, <3>3 DEF Walked
  <2>5. JobInv'
    BY <1>1, <2>1, <2>2, <2>3, <2>4, SentSound DEF JobInv, NextPage, tableVars
  <2>. QED
    BY <1>1, <2>1, <2>5 DEF ReadsInv, ListsWhole, HangsTogether
<1>. QED
  BY <1>4, <1>5, <1>6

(* An export is one statement, answered when it begins.                    *)
LEMMA StartExportStep ==
  ASSUME ReadsInv, StartExport
  PROVE  ReadsInv'
<1>1. /\ UNCHANGED <<history, claimed, writes>>
      /\ job' = "export" /\ since' = writes /\ before' = Open
      /\ TablesTyped /\ TablesTyped'
  BY DEF StartExport, Begin, tableVars, ReadsInv, TablesTyped
<1>. DEFINE q == Sent("export", "open", DefaultLimit, 0, 0)
<1>2. Sound(q, writes) /\ Given(q) = {} /\ q.kind = "export" /\ q.filter = "open"
  BY <1>1, ReadsAssumption, FreshSound DEF Kinds, Filter
<1>3. request' \in OneMore(q)
  BY DEF StartExport
<1>. HIDE DEF q
<1>4. WellFormed(q) /\ WellFormed(request')
  <2>1. Sound(request', writes)
    BY <1>1, <1>2, <1>3, OneMoreSound
  <2>. QED
    BY <1>2, <2>1 DEF Sound
<1>5. PICK part \in Parts("export") : \E answer \in Answers(q, part) :
        Given(request') = Given(q) \cup {part} /\ request'.answers[part] = answer
  BY <1>2, <1>3, <1>4, OneMoreIs
<1>6. /\ request'.kind = "export" /\ Given(request') = {"rows"}
      /\ request'.answers["rows"] \in Orders(Open)
  <2>1. part = "rows"
    BY <1>5, Sequels
  <2>2. request'.answers["rows"] \in RowsOf(q)
    BY <1>5, <2>1, Statements
  <2>. QED
    BY <1>2, <1>3, <1>4, <1>5, <2>1, <2>2, OneMoreIs DEF RowsOf, Matching
<1>7. WellFormed(request)' /\ Given(request)' = Given(request')
  BY <1>4 DEF WellFormed, Given
<1>8. JobInv'
  BY <1>1, <1>6, <1>7, FiniteTables DEF JobInv
<1>. QED
  BY <1>1, <1>8 DEF ReadsInv, ListsWhole, HangsTogether

(* The rows written out begin the list that was open when it began.        *)
LEMMA ExportStep ==
  ASSUME ReadsInv, Export \/ CutOff
  PROVE  ReadsInv'
<1>. DEFINE rows == request.answers["rows"]
<1>1. /\ UNCHANGED <<history, claimed, writes, since, before>> /\ TablesTyped /\ TablesTyped'
      /\ before \in SUBSET Disputes /\ rows \in Orders(before)
  BY DEF Export, CutOff, tableVars, ReadsInv, JobInv, TablesTyped
<1>. HIDE DEF rows
<1>2. InOrder(rows)
  BY <1>1, OrderedRows
<1>3. /\ rows \in Seq(before) /\ Len(rows) \in Nat /\ DOMAIN rows = 1..Len(rows)
      /\ ToSet(rows) = before
  BY <1>1, OrderedRows
<1>4. CASE Export
  <2>1. job' = "exported" /\ seen' = rows
    BY <1>4 DEF Export, Streamed, rows
  <2>. QED
    BY <1>1, <1>2, <1>3, <2>1 DEF ReadsInv, JobInv, ListsWhole, HangsTogether
<1>5. CASE CutOff
  <2>1. job' = "cut off" /\ \E n \in 0..Len(rows) : seen' = SubSeq(rows, 1, n)
    BY <1>5 DEF CutOff, Streamed, rows
  <2>2. PICK n \in 0..Len(rows) : seen' = SubSeq(rows, 1, n)
    BY <2>1
  <2>3. DOMAIN seen' = 1..n /\ \A i \in 1..n : i \in 1..Len(rows) /\ seen'[i] = rows[i]
    <3>1. \A i \in 1..n : rows[i] \in before
      BY <1>3, <2>2
    <3>2. /\ SubSeq(rows, 1, n) \in Seq(before) /\ Len(SubSeq(rows, 1, n)) = n
          /\ \A i \in 1..n : SubSeq(rows, 1, n)[i] = rows[i]
      BY <3>1, SubSeqProperties
    <3>. QED
      BY <1>3, <2>2, <3>2, LenProperties
  <2>4. InOrder(seen') /\ ToSet(seen') \subseteq before
    BY <1>2, <1>3, <2>3 DEF InOrder, ToSet
  <2>5. ASSUME NEW i \in DOMAIN seen', NEW d \in before \ ToSet(seen')
        PROVE  Earlier(seen'[i], d)
    <3>1. PICK j \in 1..Len(rows) : rows[j] = d
      BY <1>3 DEF ToSet
    <3>2. i \in 1..n /\ j \notin 1..n
      BY <2>3, <3>1 DEF ToSet
    <3>3. i < j
      BY <1>3, <2>2, <3>1, <3>2
    <3>. QED
      BY <1>2, <1>3, <2>3, <3>1, <3>2, <3>3 DEF InOrder
  <2>. QED
    BY <1>1, <2>1, <2>4, <2>5 DEF ReadsInv, JobInv, ListsWhole, HangsTogether
<1>. QED
  BY <1>4, <1>5

(* A page that is shown has been answered in full.                         *)
LEMMA ShowStep ==
  ASSUME ReadsInv, Show
  PROVE  ReadsInv'
<1>1. /\ UNCHANGED <<tableVars, since, before, request, seen>> /\ TablesTyped
      /\ job \in {"detail", "summary"} /\ Answered(request)
      /\ job' = IF NotFound(request) THEN "not found" ELSE "shown"
  BY DEF Show, EndsAs, ReadsInv
<1>2. CASE NotFound(request)
  BY <1>1, <1>2, NothingRead DEF TablesTyped, tableVars
<1>3. CASE ~NotFound(request)
  <2>1. Sound(request, since) /\ request.kind = job
    BY <1>1 DEF ReadsInv, JobInv
  <2>2. Given(request) = Parts(request.kind)
    BY <1>1, <1>3 DEF Answered, Given
  <2>3. TablesTyped' /\ writes' = writes
    BY <1>1 DEF TablesTyped, tableVars
  <2>4. request.kind = "detail" =>
          /\ ToldIn(request.answers["row"], ToSet(request.answers["events"]))
          /\ since = writes => ToldIn(request.answers["row"], {Last(request.answers["events"])})
          /\ "refunded" \in ToSet(request.answers["events"]) /\ request.id \in Booked =>
               request.answers["postings"]
    BY <2>1, <2>2, Sequels DEF Sound, Tells, DetailTells
  <2>5. request.kind = "summary" =>
          /\ Distance(request.answers["states"].open, request.answers["exposure"])
               <= writes - since
          /\ Distance(request.answers["exposure"], request.answers["deadlines"])
               <= writes - since
          /\ Distance(request.answers["states"].filed, request.answers["daily"])
               <= writes - since
    BY <2>1, <2>2, Sequels DEF Sound, Tells, SummaryTells, Near
  <2>6. HangsTogether'
    <3>1. writes - since = 0 => since = writes
      BY <2>1 DEF Sound, ReadsInv, TablesTyped
    <3>. QED
      BY <1>1, <2>3, <2>4, <2>5, <3>1 DEF HangsTogether, ToldIn
  <2>. QED
    BY <1>1, <1>3, <2>3, <2>6 DEF ReadsInv, JobInv, ListsWhole
<1>. QED
  BY <1>2, <1>3

(* Every step of the read side.                                            *)
LEMMA ReadsNextStep ==
  ASSUME ReadsInv, ReadsNext
  PROVE  ReadsInv'
<1>1. CASE RefusesQuery
  BY <1>1, NothingRead DEF RefusesQuery, Begin, ReadsInv, TablesTyped, tableVars
<1>2. CASE ReadFails
  BY <1>2, NothingRead DEF ReadFails, ReadsInv, TablesTyped, tableVars
<1>. QED
  BY <1>1, <1>2, WriteStep, StartStep, ReadOneStep, NextPageStep, StartExportStep, ExportStep,
     ShowStep
  DEF ReadsNext

-----------------------------------------------------------------------------
(* The calls of a turn, and its trace.                                     *)

CallFields == {"use", "tool", "status", "since", "rule", "note", "request"}

(* An entry of the trace.                                                  *)
Traceable == [use : Nat, tool : Asks, rule : Rule]

(* Every call has its place, its tool and a rule.                          *)
CallsTyped ==
  /\ Len(calls) \in Nat /\ DOMAIN calls = 1..Len(calls)
  /\ \A i \in DOMAIN calls :
       /\ DOMAIN calls[i] = CallFields
       /\ calls[i].use = i /\ calls[i].tool \in Asks /\ calls[i].rule \in Rule

(* Of the first n calls: the ones that were answered, in order.            *)
KeptUpTo(kept, n) ==
  kept = [i \in 0..n |->
            IF i = 0 THEN <<>>
            ELSE IF calls[i].status = "answered" THEN Append(kept[i - 1], Entry(calls[i]))
            ELSE kept[i - 1]]

(* The slices filtered, as the function that filters them.                 *)
LEMMA CompletedIsKept ==
  Completed = (CHOOSE kept : KeptUpTo(kept, Len(calls)))[Len(calls)]
BY DEF Completed, KeptUpTo

(* That function exists for any number of calls: of the numbers it did     *)
(* not exist for, the least would be one more than one it does.            *)
LEMMA KeptExists ==
  ASSUME NEW n \in Nat
  PROVE  \E kept : KeptUpTo(kept, n)
<1>. DEFINE N == {m \in Nat : ~ \E kept : KeptUpTo(kept, m)}
<1>. SUFFICES ASSUME N # {} PROVE FALSE
  OBVIOUS
<1>1. PICK m \in N : \A l \in N : m <= l
  <2>1. N \in SUBSET Nat
    OBVIOUS
  <2>. HIDE DEF N
  <2>. QED BY <2>1, LeastNumber
<1>2. CASE m = 0
  <2>1. KeptUpTo([i \in 0..0 |-> <<>>], 0)
    BY DEF KeptUpTo
  <2>. QED
    BY <1>2, <2>1
<1>3. CASE m # 0
  <2>1. m - 1 \in Nat /\ m - 1 \notin N
    BY <1>1, <1>3
  <2>2. PICK f : KeptUpTo(f, m - 1)
    BY <2>1
  <2>. DEFINE next == IF calls[m].status = "answered" THEN Append(f[m - 1], Entry(calls[m]))
                      ELSE f[m - 1]
              g == [i \in 0..m |-> IF i = m THEN next ELSE f[i]]
  <2>3. ASSUME NEW i \in 0..m
        PROVE  g[i] = IF i = 0 THEN <<>>
                      ELSE IF calls[i].status = "answered" THEN Append(g[i - 1], Entry(calls[i]))
                      ELSE g[i - 1]
    <3>1. CASE i = m
      <4>1. g[m] = next /\ g[m - 1] = f[m - 1]
        BY <2>1
      <4>. QED
        BY <1>3, <3>1, <4>1
    <3>2. CASE i # m
      <4>1. i \in 0..(m - 1) /\ g[i] = f[i] /\ (i # 0 => g[i - 1] = f[i - 1])
        <5>. HIDE DEF next
        <5>. QED BY <2>1, <3>2
      <4>. QED
        BY <2>2, <4>1 DEF KeptUpTo
    <3>. QED
      BY <3>1, <3>2
  <2>4. KeptUpTo(g, m)
    <3>. HIDE DEF next
    <3>1. g = [i \in 0..m |->
                 IF i = 0 THEN <<>>
                 ELSE IF calls[i].status = "answered" THEN Append(g[i - 1], Entry(calls[i]))
                 ELSE g[i - 1]]
      BY <2>3
    <3>. HIDE DEF g
    <3>. QED BY <3>1 DEF KeptUpTo
  <2>. QED
    BY <1>1, <2>4
<1>. QED
  BY <1>2, <1>3

(* What is kept of the first n calls: the entries of those that were       *)
(* answered, each once and in order.                                       *)
Kept(some, k, n) ==
  /\ some[k].use \in 1..n /\ calls[some[k].use].status = "answered"
  /\ some[k] = Entry(calls[some[k].use])

KeptWell(some, n) ==
  /\ some \in Seq(Traceable)
  /\ \A k \in 1..Len(some) : Kept(some, k, n)
  /\ \A j, k \in 1..Len(some) : j < k => some[j].use < some[k].use
  /\ \A i \in 1..n : calls[i].status = "answered" => \E k \in 1..Len(some) : some[k].use = i
  /\ (\A i \in 1..n : calls[i].status = "answered") => Len(some) = n

(* One more call that was answered comes last.                             *)
LEMMA KeptOneMore ==
  ASSUME CallsTyped, NEW n \in 1..Len(calls), NEW some, KeptWell(some, n - 1)
  PROVE  /\ calls[n].status = "answered" => KeptWell(Append(some, Entry(calls[n])), n)
         /\ calls[n].status # "answered" => KeptWell(some, n)
<1>. DEFINE entry == Entry(calls[n])
            more == Append(some, entry)
            l == Len(some)
<1>1. n \in Nat /\ n - 1 \in Nat /\ n \in DOMAIN calls
  BY DEF CallsTyped
<1>2. entry \in Traceable /\ entry.use = n
  BY <1>1 DEF CallsTyped, Entry, Traceable
<1>3. some \in Seq(Traceable) /\ l \in Nat
  BY LenProperties DEF KeptWell
<1>. HIDE DEF entry, l
<1>4. /\ more \in Seq(Traceable) /\ Len(more) = l + 1 /\ more[l + 1] = entry
      /\ \A k \in 1..l : more[k] = some[k]
  BY <1>2, <1>3, AppendProperties DEF l
<1>. HIDE DEF more
<1>5. \A k \in 1..l : Kept(some, k, n - 1)
  BY DEF KeptWell, l
<1>6. CASE calls[n].status = "answered"
  <2>1. ASSUME NEW k \in 1..(l + 1) PROVE Kept(more, k, n)
    <3>1. CASE k = l + 1
      BY <1>1, <1>2, <1>4, <1>6, <3>1 DEF Kept, entry
    <3>2. CASE k \in 1..l
      <4>1. Kept(some, k, n - 1) /\ more[k] = some[k]
        BY <1>4, <1>5, <3>2
      <4>2. \A u \in 1..(n - 1) : u \in 1..n
        BY <1>1
      <4>. QED
        BY <4>1, <4>2 DEF Kept
    <3>. QED
      BY <1>3, <3>1, <3>2
  <2>2. ASSUME NEW j \in 1..(l + 1), NEW k \in 1..(l + 1), j < k
        PROVE  more[j].use < more[k].use
    <3>1. j \in 1..l
      BY <1>3, <2>2
    <3>2. CASE k = l + 1
      <4>1. some[j].use \in 1..(n - 1) /\ more[j] = some[j]
        BY <1>4, <1>5, <3>1 DEF Kept
      <4>. QED
        BY <1>1, <1>2, <1>4, <3>2, <4>1
    <3>3. CASE k \in 1..l
      BY <1>4, <2>2, <3>1, <3>3 DEF KeptWell, l
    <3>. QED
      BY <1>3, <3>2, <3>3
  <2>3. ASSUME NEW i \in 1..n, calls[i].status = "answered"
        PROVE  \E k \in 1..(l + 1) : more[k].use = i
    <3>1. CASE i = n
      <4>1. l + 1 \in 1..(l + 1)
        BY <1>3
      <4>. QED
        BY <1>2, <1>4, <3>1, <4>1
    <3>2. CASE i \in 1..(n - 1)
      <4>1. PICK k \in 1..l : some[k].use = i
        BY <2>3, <3>2 DEF KeptWell, l
      <4>2. k \in 1..(l + 1)
        BY <1>3
      <4>. QED
        BY <1>4, <4>1, <4>2
    <3>. QED
      BY <1>1, <3>1, <3>2
  <2>4. (\A i \in 1..n : calls[i].status = "answered") => l + 1 = n
    <3>1. (\A i \in 1..n : calls[i].status = "answered") => l = n - 1
      <4>1. \A i \in 1..(n - 1) : i \in 1..n
        BY <1>1
      <4>. QED
        BY <4>1 DEF KeptWell, l
    <3>. QED
      BY <1>1, <1>3, <3>1
  <2>5. KeptWell(more, n)
    BY <1>4, <2>1, <2>2, <2>3, <2>4 DEF KeptWell
  <2>. QED
    BY <1>6, <2>5 DEF more, entry
<1>7. CASE calls[n].status # "answered"
  <2>1. \A u \in 1..(n - 1) : u \in 1..n
    BY <1>1
  <2>2. \A i \in 1..n : i = n \/ i \in 1..(n - 1)
    BY <1>1
  <2>3. \A k \in 1..Len(some) : Kept(some, k, n)
    BY <1>5, <2>1 DEF Kept, l
  <2>4. n \in 1..n
    BY <1>1
  <2>. QED
    BY <1>7, <2>2, <2>3, <2>4 DEF KeptWell
<1>. QED
  BY <1>6, <1>7

(* What is kept is in order, and all of it when nothing failed.            *)
LEMMA CompletedWell ==
  ASSUME CallsTyped
  PROVE  KeptWell(Completed, Len(calls))
<1>. DEFINE n == Len(calls)
            kept == CHOOSE f : KeptUpTo(f, n)
            N == {i \in 0..n : ~KeptWell(kept[i], i)}
<1>1. n \in Nat
  BY DEF CallsTyped
<1>2. KeptUpTo(kept, n)
  <2>. HIDE DEF n
  <2>. QED BY <1>1, KeptExists
<1>3. Completed = kept[n]
  BY CompletedIsKept
<1>. HIDE DEF kept
<1>4. N = {}
  <2>. SUFFICES ASSUME N # {} PROVE FALSE
    OBVIOUS
  <2>1. PICK i \in N : \A j \in N : i <= j
    <3>1. N \in SUBSET Nat
      OBVIOUS
    <3>. HIDE DEF N
    <3>. QED BY <3>1, LeastNumber
  <2>2. i \in 0..n /\ ~KeptWell(kept[i], i)
    OBVIOUS
  <2>3. kept[i] = IF i = 0 THEN <<>>
                  ELSE IF calls[i].status = "answered" THEN Append(kept[i - 1], Entry(calls[i]))
                  ELSE kept[i - 1]
    BY <1>2, <2>2 DEF KeptUpTo
  <2>4. CASE i = 0
    BY <2>2, <2>3, <2>4, EmptySeq DEF KeptWell
  <2>5. CASE i # 0
    <3>1. i \in 1..Len(calls) /\ i - 1 \in 0..n /\ KeptWell(kept[i - 1], i - 1)
      BY <1>1, <2>1, <2>2, <2>5
    <3>. QED
      BY <2>2, <2>3, <2>5, <3>1, KeptOneMore
  <2>. QED
    BY <2>4, <2>5
<1>. QED
  BY <1>1, <1>3, <1>4

(* A call goes by a request that is sound and asks for the first page, and *)
(* what is noted of a list goes by the answers it has.                     *)
CallSound(c) ==
  /\ c.status = "waiting" => c.request = None
  /\ c.status = "running" \/ c.request # None =>
       Sound(c.request, c.since) /\ c.request.offset = 0
  /\ c.status = "answered" /\ c.request # None =>
       /\ Answered(c.request)
       /\ c.request.kind = "list" => (c.note <=> Noted(c.request))

CallsSound == \A i \in DOMAIN calls : CallSound(calls[i])

LoopInv == CallsTyped /\ CallsSound

(* A function of the numbers up to n is a sequence of that length.         *)
LEMMA LenOfFunction ==
  ASSUME NEW n \in Nat, NEW f, f = [x \in 1..n |-> f[x]]
  PROVE  Len(f) = n /\ DOMAIN f = 1..n
<1>. DEFINE S == {f[x] : x \in 1..n}
<1>1. f \in [1..n -> S]
  OBVIOUS
<1>. HIDE DEF S
<1>2. f \in Seq(S) /\ DOMAIN f = 1..n
  BY <1>1
<1>. QED
  BY <1>2, LenProperties

(* No calls at first.                                                      *)
LEMMA LoopInitially == Init => LoopInv
<1>1. Len(<<>>) = 0 /\ DOMAIN <<>> = {} /\ 1..0 = {}
  OBVIOUS
<1>. QED
  BY <1>1 DEF Init, LoopInv, CallsTyped, CallsSound

(* The tables may move on beneath the calls.                               *)
LEMMA CallsBeneath ==
  ASSUME TablesTyped, CallsTyped, CallsSound, Write \/ UNCHANGED tableVars, UNCHANGED calls
  PROVE  CallsTyped' /\ CallsSound'
<1>1. CallsTyped'
  BY DEF CallsTyped
<1>2. ASSUME NEW i \in DOMAIN calls PROVE CallSound(calls[i])'
  <2>1. PICK c : c = calls[i]
    OBVIOUS
  <2>2. CallSound(c)
    BY <2>1 DEF CallsSound
  <2>3. Sound(c.request, c.since) => Sound(c.request, c.since)'
    BY WriteSound, StillSound
  <2>4. CallSound(c)'
    BY <2>2, <2>3 DEF CallSound, Answered, NotFound, Noted
  <2>. QED
    BY <2>1, <2>4
<1>. QED
  BY <1>1, <1>2 DEF CallsSound

(* One call goes on, the others are as they were.                          *)
LEMMA CallGoesOn ==
  ASSUME TablesTyped, CallsTyped, CallsSound, UNCHANGED tableVars,
         NEW i \in DOMAIN calls, NEW c, calls' = [calls EXCEPT ![i] = c],
         DOMAIN c = CallFields, c.use = i, c.tool \in Asks, c.rule \in Rule, CallSound(c)
  PROVE  CallsTyped' /\ CallsSound'
<1>1. /\ DOMAIN calls' = DOMAIN calls /\ calls'[i] = c
      /\ \A j \in DOMAIN calls : j # i => calls'[j] = calls[j]
  OBVIOUS
<1>2. Len(calls') = Len(calls)
  <2>1. calls' = [x \in 1..Len(calls) |-> calls'[x]]
    BY DEF CallsTyped
  <2>. QED
    BY <2>1, LenOfFunction DEF CallsTyped
<1>3. CallsTyped'
  BY <1>1, <1>2 DEF CallsTyped
<1>4. ASSUME NEW d, CallSound(d) PROVE CallSound(d)'
  <2>1. Sound(d.request, d.since) => Sound(d.request, d.since)'
    BY StillSound
  <2>. QED
    BY <1>4, <2>1 DEF CallSound, Answered, NotFound, Noted
<1>5. ASSUME NEW j \in DOMAIN calls PROVE CallSound(calls[j])'
  <2>1. PICK d : d = calls'[j] /\ CallSound(d)
    BY <1>1 DEF CallsSound
  <2>2. CallSound(d)'
    BY <1>4, <2>1
  <2>. QED
    BY <2>1, <2>2
<1>. QED
  BY <1>1, <1>3, <1>5 DEF CallsSound

(* What a tool asks of the store.                                          *)
LEMMA RequestSound ==
  ASSUME TablesTyped, NEW ask \in Asks, ask.tool \in Tools
  PROVE  Sound(RequestOf(ask), writes) /\ RequestOf(ask).offset = 0
<1>1. /\ ask.filter \in Filter /\ ask.limit \in Int
      /\ DefaultRows \in 1..MaxLimit /\ MaxRows \in 1..MaxLimit /\ MaxLimit \in Nat
      /\ DefaultLimit \in 1..MaxLimit
  BY LoopAssumption, ReadsAssumption
<1>2. ClampLimit(ask.limit) \in 1..MaxLimit
  BY <1>1 DEF ClampLimit, Least
<1>3. CASE ask.tool = "list_disputes"
  <2>1. RequestOf(ask) = Sent("list", ask.filter, ClampLimit(ask.limit), 0, 0)
    BY <1>3 DEF RequestOf, ListDisputes
  <2>2. "list" \in Kinds
    BY DEF Kinds
  <2>. QED
    BY <1>1, <1>2, <2>1, <2>2, FreshSound
<1>4. CASE ask.tool = "get_dispute"
  <2>1. RequestOf(ask) = Sent("detail", "all", DefaultLimit, 0, ask.id)
    BY <1>4 DEF RequestOf, GetDispute
  <2>2. "detail" \in Kinds /\ "all" \in Filter
    BY DEF Kinds, Filter
  <2>. QED
    BY <1>1, <2>1, <2>2, FreshSound
<1>5. CASE ask.tool = "get_customer_history"
  <2>1. RequestOf(ask) = Sent("history", "all", ClampLimit(ask.limit), 0, 0)
    BY <1>5 DEF RequestOf, CustomerHistory
  <2>2. "history" \in Kinds /\ "all" \in Filter
    BY DEF Kinds, Filter
  <2>. QED
    BY <1>2, <2>1, <2>2, FreshSound
<1>6. CASE ask.tool = "queue_summary"
  <2>1. RequestOf(ask) = Sent("summary", "all", DefaultLimit, 0, 0)
    BY <1>6 DEF RequestOf, QueueSummary
  <2>2. "summary" \in Kinds /\ "all" \in Filter
    BY DEF Kinds, Filter
  <2>. QED
    BY <1>1, <2>1, <2>2, FreshSound
<1>. QED
  BY <1>3, <1>4, <1>5, <1>6 DEF Tools

(* A call starts with a request that was just sent, or is refused with     *)
(* none.                                                                   *)
LEMMA StartCallStep ==
  ASSUME TablesTyped, CallsTyped, CallsSound, NEW i \in DOMAIN calls, StartCall(i)
  PROVE  CallsTyped' /\ CallsSound'
<1>. DEFINE call == calls[i]
<1>1. /\ UNCHANGED tableVars /\ call.status = "waiting" /\ call.request = None
      /\ DOMAIN call = CallFields /\ call.use = i /\ call.tool \in Asks /\ call.rule \in Rule
  BY DEF StartCall, Stay, Waiting, CallsTyped, CallsSound, CallSound
<1>2. CASE Asking(i)
  <2>. DEFINE c == [call EXCEPT !.status = "running", !.since = writes,
                                !.request = RequestOf(call.tool)]
  <2>1. calls' = [calls EXCEPT ![i] = c]
    BY <1>1, <1>2 DEF StartCall, CallFields
  <2>2. /\ DOMAIN c = CallFields /\ c.use = i /\ c.tool = call.tool /\ c.rule = call.rule
        /\ c.status = "running" /\ c.since = writes /\ c.request = RequestOf(call.tool)
    BY <1>1 DEF CallFields
  <2>3. Sound(RequestOf(call.tool), writes) /\ RequestOf(call.tool).offset = 0
    BY <1>1, <1>2, RequestSound DEF Asking
  <2>. HIDE DEF c
  <2>4. CallSound(c)
    BY <2>2, <2>3 DEF CallSound
  <2>. QED
    BY <1>1, <2>1, <2>2, <2>4, CallGoesOn
<1>3. CASE ~Asking(i)
  <2>. DEFINE out == Outcome(call.tool)
              c == [call EXCEPT !.status = out.status, !.rule = out.rule]
  <2>1. calls' = [calls EXCEPT ![i] = c]
    BY <1>1, <1>3 DEF StartCall, CallFields
  <2>2. out.status \in {"answered", "failed"} /\ out.rule \in Rule
    <3>1. call.tool.tool \in Wrongs
      BY <1>1, <1>3, LoopAssumption DEF Asking
    <3>. QED
      BY <3>1 DEF Wrongs, Outcome, Rule
  <2>3. /\ DOMAIN c = CallFields /\ c.use = i /\ c.tool = call.tool /\ c.rule \in Rule
        /\ c.status \in {"answered", "failed"} /\ c.request = None
    BY <1>1, <2>2 DEF CallFields
  <2>. HIDE DEF c
  <2>4. CallSound(c)
    BY <2>3 DEF CallSound
  <2>. QED
    BY <1>1, <2>1, <2>3, <2>4, CallGoesOn
<1>. QED
  BY <1>2, <1>3

(* A call that runs reads on, answers by what it has read, or fails.       *)
LEMMA RunningCallStep ==
  ASSUME TablesTyped, CallsTyped, CallsSound, NEW i \in DOMAIN calls,
         ReadForCall(i) \/ AnswerCall(i) \/ CallFails(i)
  PROVE  CallsTyped' /\ CallsSound'
<1>. DEFINE call == calls[i]
            q == call.request
<1>1. /\ UNCHANGED tableVars /\ call.status = "running"
      /\ Sound(q, call.since) /\ q.offset = 0
      /\ DOMAIN call = CallFields /\ call.use = i /\ call.tool \in Asks /\ call.rule \in Rule
  BY DEF ReadForCall, AnswerCall, CallFails, Stay, Running, CallsTyped, CallsSound, CallSound
<1>2. CASE ReadForCall(i)
  <2>1. PICK next \in OneMore(q) : calls' = [calls EXCEPT ![i].request = next]
    BY <1>2 DEF ReadForCall
  <2>. DEFINE c == [call EXCEPT !.request = next]
  <2>2. calls' = [calls EXCEPT ![i] = c]
    BY <2>1
  <2>3. /\ DOMAIN c = CallFields /\ c.use = i /\ c.tool = call.tool /\ c.rule = call.rule
        /\ c.status = "running" /\ c.since = call.since /\ c.request = next
    BY <1>1 DEF CallFields
  <2>4. Sound(next, call.since) /\ next.offset = 0
    BY <1>1, <2>1, OneMoreSound, OneMoreIs DEF Sound
  <2>. HIDE DEF c
  <2>5. CallSound(c)
    BY <2>3, <2>4 DEF CallSound
  <2>. QED
    BY <1>1, <2>2, <2>3, <2>5, CallGoesOn
<1>3. CASE CallFails(i) \/ calls' = [calls EXCEPT ![i].status = "failed"]
  <2>. DEFINE c == [call EXCEPT !.status = "failed"]
  <2>1. calls' = [calls EXCEPT ![i] = c]
    BY <1>3 DEF CallFails
  <2>2. /\ DOMAIN c = CallFields /\ c.use = i /\ c.tool = call.tool /\ c.rule = call.rule
        /\ c.status = "failed" /\ c.since = call.since /\ c.request = q
    BY <1>1 DEF CallFields
  <2>. HIDE DEF c
  <2>3. CallSound(c)
    BY <1>1, <2>2 DEF CallSound
  <2>. QED
    BY <1>1, <2>1, <2>2, <2>3, CallGoesOn
<1>4. CASE AnswerCall(i) /\ ~(NotFound(q) /\ cancelled)
  <2>. DEFINE rule == IF NotFound(q) THEN "not_found"
                      ELSE IF Size(q) > MaxSize THEN "result_too_large" ELSE "none"
              note == q.kind = "list" /\ Noted(q)
              c == [call EXCEPT !.status = "answered", !.rule = rule, !.note = note]
  <2>1. calls' = [calls EXCEPT ![i] = c]
    BY <1>1, <1>4 DEF AnswerCall, CallFields
  <2>2. rule \in Rule /\ Answered(q)
    BY <1>4 DEF Rule, AnswerCall
  <2>. HIDE DEF rule
  <2>3. /\ DOMAIN c = CallFields /\ c.use = i /\ c.tool = call.tool /\ c.rule = rule
        /\ c.status = "answered" /\ c.since = call.since /\ c.request = q
        /\ c.note = note
    BY <1>1 DEF CallFields
  <2>. HIDE DEF c
  <2>4. CallSound(c)
    BY <1>1, <2>2, <2>3 DEF CallSound
  <2>. QED
    BY <1>1, <2>1, <2>2, <2>3, <2>4, CallGoesOn
<1>5. AnswerCall(i) /\ NotFound(q) /\ cancelled => calls' = [calls EXCEPT ![i].status = "failed"]
  BY DEF AnswerCall
<1>. QED
  BY <1>2, <1>3, <1>4, <1>5

(* No call outlives its turn.                                              *)
LEMMA EndToolsCalls ==
  ASSUME EndTools
  PROVE  CallsTyped' /\ CallsSound'
<1>1. calls' = <<>> /\ Len(<<>>) = 0 /\ DOMAIN <<>> = {} /\ 1..0 = {}
  BY DEF EndTools
<1>. QED
  BY <1>1 DEF CallsTyped, CallsSound

(* The calls a model asks for have yet to start.                           *)
LEMMA AskForToolsStep ==
  ASSUME ModelAsksForTools
  PROVE  CallsTyped' /\ CallsSound'
<1>0. PICK n \in 1..MaxUses :
        \E tools \in [1..n -> Asks] :
          calls' = [i \in 1..n |-> [use |-> i, tool |-> tools[i], status |-> "waiting",
                                    since |-> 0, rule |-> "none", note |-> FALSE,
                                    request |-> None]]
  BY DEF ModelAsksForTools
<1>1. PICK tools \in [1..n -> Asks] :
        calls' = [i \in 1..n |-> [use |-> i, tool |-> tools[i], status |-> "waiting",
                                  since |-> 0, rule |-> "none", note |-> FALSE,
                                  request |-> None]]
  BY <1>0
<1>2. n \in Nat
  BY LoopAssumption
<1>3. Len(calls') = n /\ DOMAIN calls' = 1..n
  <2>1. calls' = [i \in 1..n |-> calls'[i]]
    BY <1>1
  <2>. QED
    BY <1>2, <2>1, LenOfFunction
<1>4. ASSUME NEW i \in 1..n
      PROVE  /\ DOMAIN calls'[i] = CallFields /\ calls'[i].use = i
             /\ calls'[i].tool \in Asks /\ calls'[i].rule \in Rule
             /\ calls'[i].status = "waiting" /\ calls'[i].request = None
  BY <1>1 DEF CallFields, Rule
<1>5. CallsTyped'
  BY <1>2, <1>3, <1>4 DEF CallsTyped
<1>6. CallsSound'
  BY <1>3, <1>4 DEF CallsSound, CallSound
<1>. QED
  BY <1>5, <1>6

(* The inductive invariant of reads and loop together.                     *)
AllInv == ReadsInv /\ LoopInv

(* The loop changes no table, and of the read side only whether it is one  *)
(* of its questions that is being answered.                                *)
LEMMA LoopReads ==
  ASSUME ReadsInv, LoopNext
  PROVE  ReadsInv'
<1>1. CASE Ask
  BY <1>1, NothingRead DEF Ask, Begin, ReadsInv, TablesTyped, tableVars
<1>2. CASE Stay /\ job' = job
  BY <1>2, ReadsStill DEF Stay
<1>3. CASE Stay /\ job' = "asked"
  BY <1>3, NothingRead DEF Stay, ReadsInv, TablesTyped, tableVars
<1>4. CASE Expire \/ ModelRetries \/ ModelAsksForTools
  BY <1>2, <1>4 DEF Expire, ModelRetries, ModelAsksForTools
<1>5. CASE GiveUp \/ TurnCeiling \/ BudgetCeiling \/ ModelEnds \/ ModelFails
  BY <1>3, <1>5 DEF GiveUp, TurnCeiling, BudgetCeiling, ModelEnds, ModelFails, Return
<1>6. CASE EndTools
  BY <1>2, <1>3, <1>6 DEF EndTools, Return
<1>7. ASSUME NEW i \in 1..MaxUses,
             StartCall(i) \/ ReadForCall(i) \/ AnswerCall(i) \/ CallFails(i)
      PROVE  ReadsInv'
  BY <1>2, <1>7 DEF StartCall, ReadForCall, AnswerCall, CallFails
<1>. QED
  BY <1>1, <1>4, <1>5, <1>6, <1>7 DEF LoopNext

(* Every step of the loop, for its calls.                                  *)
LEMMA LoopStep ==
  ASSUME AllInv, LoopNext
  PROVE  LoopInv'
<1>1. TablesTyped /\ CallsTyped /\ CallsSound
  BY DEF AllInv, ReadsInv, LoopInv
<1>2. CASE UNCHANGED <<tableVars, calls>>
  BY <1>1, <1>2, CallsBeneath DEF LoopInv
<1>3. CASE Ask \/ Expire \/ GiveUp \/ TurnCeiling \/ BudgetCeiling
             \/ ModelEnds \/ ModelRetries \/ ModelFails
  BY <1>2, <1>3 DEF Ask, Begin, loopVars, Expire, GiveUp, TurnCeiling, BudgetCeiling, ModelEnds,
                    ModelRetries, ModelFails, Stay
<1>4. CASE ModelAsksForTools
  BY <1>4, AskForToolsStep DEF LoopInv
<1>5. ASSUME NEW i \in DOMAIN calls,
             StartCall(i) \/ ReadForCall(i) \/ AnswerCall(i) \/ CallFails(i)
      PROVE  LoopInv'
  BY <1>1, <1>5, StartCallStep, RunningCallStep DEF LoopInv
<1>6. CASE EndTools
  BY <1>6, EndToolsCalls DEF LoopInv
<1>. QED
  BY <1>3, <1>4, <1>5, <1>6 DEF LoopNext

(* Every step there is.                                                    *)
LEMMA AllInvStep == AllInv /\ [Next]_vars => AllInv'
<1> SUFFICES ASSUME AllInv, [Next]_vars PROVE AllInv'
  OBVIOUS
<1>1. CASE ReadsNext /\ UNCHANGED loopVars
  <2>1. Write \/ UNCHANGED tableVars
    BY <1>1 DEF ReadsNext, StartWalk, RefusesQuery, ReadOne, ReadFails, NextPage, StartExport,
                Export, CutOff, StartDetail, StartSummary, Show, Begin, EndsAs
  <2>2. UNCHANGED calls
    BY <1>1 DEF loopVars
  <2>. QED
    BY <1>1, <2>1, <2>2, ReadsNextStep, CallsBeneath DEF AllInv, ReadsInv, LoopInv
<1>2. CASE LoopNext
  BY <1>2, LoopReads, LoopStep DEF AllInv
<1>3. CASE UNCHANGED vars
  <2>1. /\ UNCHANGED <<tableVars, job, since, before, request, seen>>
        /\ UNCHANGED calls
    BY <1>3 DEF vars, loopVars
  <2>. QED
    BY <2>1, ReadsStill, CallsBeneath DEF AllInv, ReadsInv, LoopInv
<1> QED
  BY <1>1, <1>2, <1>3 DEF Next

(* So it always holds.                                                     *)
LEMMA AllInvariance == Spec => []AllInv
<1>1. Init => AllInv
  BY ReadsInitially, LoopInitially DEF AllInv
<1>. QED
  BY <1>1, AllInvStep, PTL DEF Spec

(* Paging shows every open dispute once and in order, if nothing changed   *)
(* meanwhile; an export is what was open when it began, and as much of     *)
(* that as got through: for any disputes and deadlines, ties among them,   *)
(* and any limits.                                                         *)
THEOREM ListsWholeHolds == Spec => []ListsWhole
<1>1. AllInv => ListsWhole
  BY DEF AllInv, ReadsInv
<1>. QED
  BY <1>1, AllInvariance, PTL

(* A dispute's page shows a state its events tell of, or a claim of one    *)
(* they do, the last of them when nothing was written meanwhile; it shows  *)
(* what a refund that it tells of has posted; and the panels of the        *)
(* summary differ by no more than what was written meanwhile: for any      *)
(* number of disputes and writes, and whatever agents hold and release.    *)
THEOREM HangsTogetherHolds == Spec => []HangsTogether
<1>1. AllInv => HangsTogether
  BY DEF AllInv, ReadsInv
<1>. QED
  BY <1>1, AllInvariance, PTL

(* The assistant is told that a list was cut exactly when it was: as many  *)
(* rows as were counted are all of them, for each is there once.           *)
THEOREM NoteToldHolds == Spec => []NoteTold
<1>1. ASSUME AllInv PROVE NoteTold
  <2>. SUFFICES ASSUME NEW i \in DOMAIN calls, calls[i].status = "answered",
                       calls[i].request # None, calls[i].since = writes,
                       calls[i].request.kind = "list"
                PROVE  calls[i].note <=>
                         ToSet(calls[i].request.answers["page"]) # Matching(calls[i].request.filter)
    BY DEF NoteTold
  <2>. DEFINE q == calls[i].request
              page == q.answers["page"]
              rows == Matching(q.filter)
  <2>1. /\ Sound(q, writes) /\ q.offset = 0 /\ Answered(q)
        /\ calls[i].note <=> Noted(q)
    BY <1>1 DEF AllInv, LoopInv, CallsSound, CallSound
  <2>2. Given(q) = {"page", "count"}
    BY <2>1, Sequels DEF Answered, NotFound, Given, Sound, WellFormed
  <2>3. page \in PageOf(q) /\ q.answers["count"] = Cardinality(rows)
    BY <2>1, <2>2 DEF Sound, Tells, ListTells
  <2>4. PICK s \in Orders(rows) : page = Window(s, q.limit, 0)
    BY <2>1, <2>3 DEF PageOf
  <2>5. rows \in SUBSET Disputes /\ IsFiniteSet(rows)
    <3>1. rows \in SUBSET Disputes
      BY <1>1, <2>1, FiniteTables
         DEF AllInv, ReadsInv, Sound, WellFormed, Filter, Matching
    <3>. QED
      BY <3>1, ReadsAssumption, FS_Subset
  <2>. DEFINE n == Len(s)
              m == Least(q.limit, n)
  <2>6. /\ s \in Seq(rows) /\ n = Cardinality(rows) /\ n \in Nat /\ DOMAIN s = 1..n
        /\ \A j, k \in 1..n : s[j] = s[k] => j = k
        /\ ToSet(s) = rows
    <3>. HIDE DEF rows
    <3>. QED BY <2>4, <2>5, Enumerates DEF Orders
  <2>7. q.limit \in Nat
    BY <2>1, ReadsAssumption DEF Sound, WellFormed
  <2>8. m \in 0..n /\ page = SubSeq(s, 1, m)
    BY <2>4, <2>6, <2>7 DEF Least, Window
  <2>. HIDE DEF rows, page, n, m
  <2>9. /\ DOMAIN page = 1..m /\ Len(page) = m
        /\ \A j \in 1..m : page[j] = s[j]
    <3>1. \A j \in 1..m : s[j] \in rows
      BY <2>6, <2>8
    <3>2. page \in Seq(rows) /\ Len(page) = m /\ \A j \in 1..m : page[j] = s[j]
      BY <2>6, <2>8, <3>1, SubSeqProperties
    <3>. QED
      BY <3>2, LenProperties
  <2>10. CASE m = n
    <3>1. page = s
      BY <2>6, <2>8, <2>10, SubSeqFull DEF n
    <3>2. ~(q.answers["count"] > Len(page))
      BY <2>3, <2>6, <2>9, <2>10
    <3>. QED
      BY <2>1, <2>6, <3>1, <3>2 DEF Noted, page, rows
  <2>11. CASE m < n
    <3>1. s[n] \in rows /\ s[n] \notin ToSet(page)
      BY <2>6, <2>8, <2>9, <2>11 DEF ToSet
    <3>2. q.answers["count"] > Len(page)
      BY <2>3, <2>6, <2>8, <2>9, <2>11
    <3>. QED
      BY <2>1, <3>1, <3>2 DEF Noted, page, rows
  <2>. QED
    BY <2>6, <2>8, <2>10, <2>11
<1>. QED
  BY <1>1, AllInvariance, PTL

(* The record of a turn that is over.                                      *)
LEMMA TraceOfTurn ==
  ASSUME CallsTyped, EndTools
  PROVE  /\ \A i \in DOMAIN calls :
              calls[i].status = "answered" <=>
                \E k \in DOMAIN traced' : traced'[k] = Entry(calls[i])
         /\ \A k \in DOMAIN traced' : \E i \in DOMAIN calls : traced'[k] = Entry(calls[i])
         /\ \A j, k \in DOMAIN traced' : j < k => traced'[j].use < traced'[k].use
         /\ stage' = "turn" => Len(traced') = Len(calls)
<1>1. /\ traced' = Completed /\ AllReturned
      /\ stage' = "turn" => \A i \in DOMAIN calls : calls[i].status # "failed"
  BY DEF EndTools, Finish, Return
<1>2. KeptWell(Completed, Len(calls))
  BY CompletedWell
<1>3. PICK some : some = Completed
  OBVIOUS
<1>4. KeptWell(some, Len(calls)) /\ DOMAIN some = 1..Len(some) /\ DOMAIN calls = 1..Len(calls)
  BY <1>2, <1>3, LenProperties DEF KeptWell, CallsTyped
<1>5. \A i \in DOMAIN calls : Entry(calls[i]).use = i
  BY DEF CallsTyped, Entry
<1>6. ASSUME NEW k \in DOMAIN some
      PROVE  /\ some[k].use \in DOMAIN calls /\ calls[some[k].use].status = "answered"
             /\ some[k] = Entry(calls[some[k].use])
  BY <1>4 DEF KeptWell, Kept
<1>7. ASSUME NEW i \in DOMAIN calls
      PROVE  calls[i].status = "answered" <=> \E k \in DOMAIN some : some[k] = Entry(calls[i])
  <2>1. CASE calls[i].status = "answered"
    <3>1. PICK k \in DOMAIN some : some[k].use = i
      BY <1>4, <2>1 DEF KeptWell
    <3>. QED
      BY <1>6, <2>1, <3>1
  <2>2. ASSUME NEW k \in DOMAIN some, some[k] = Entry(calls[i])
        PROVE  calls[i].status = "answered"
    BY <1>5, <1>6, <2>2
  <2>. QED
    BY <2>1, <2>2
<1>8. \A k \in DOMAIN some : \E i \in DOMAIN calls : some[k] = Entry(calls[i])
  BY <1>6
<1>9. \A j, k \in DOMAIN some : j < k => some[j].use < some[k].use
  BY <1>4 DEF KeptWell
<1>10. stage' = "turn" => Len(some) = Len(calls)
  BY <1>1, <1>4 DEF AllReturned, KeptWell
<1>. QED
  BY <1>1, <1>3, <1>7, <1>8, <1>9, <1>10

(* A turn whose tools ran is recorded with the calls that were answered    *)
(* and no others, in the order they were asked for, and with all of them   *)
(* when it went on: for any number of calls that come back in any order.   *)
(* Until the next turn the record stays.                                   *)
THEOREM TraceTrueHolds == Spec => TraceTrue
<1>. DEFINE Step == IF stage = "tools" /\ stage' # "tools"
                    THEN /\ \A i \in DOMAIN calls :
                              calls[i].status = "answered" <=>
                                \E k \in DOMAIN traced' : traced'[k] = Entry(calls[i])
                         /\ \A k \in DOMAIN traced' :
                              \E i \in DOMAIN calls : traced'[k] = Entry(calls[i])
                         /\ \A j, k \in DOMAIN traced' : j < k => traced'[j].use < traced'[k].use
                         /\ stage' = "turn" => Len(traced') = Len(calls)
                    ELSE traced' \in {traced, <<>>}
<1>1. ASSUME AllInv, [Next]_vars PROVE Step \/ UNCHANGED vars
  <2>1. CASE EndTools
    <3>1. stage = "tools" /\ stage' # "tools"
      BY <2>1 DEF EndTools, Return
    <3>. QED
      BY <1>1, <2>1, <3>1, TraceOfTurn DEF AllInv, LoopInv
  <2>2. CASE (ReadsNext /\ UNCHANGED loopVars) \/ UNCHANGED vars
    BY <2>2 DEF loopVars
  <2>3. CASE Ask \/ Expire
    BY <2>3 DEF Ask, loopVars, Expire
  <2>4. CASE GiveUp \/ TurnCeiling \/ BudgetCeiling
    BY <2>4 DEF GiveUp, TurnCeiling, BudgetCeiling, Turning
  <2>5. CASE ModelEnds \/ ModelRetries \/ ModelFails \/ ModelAsksForTools
    BY <2>5 DEF ModelEnds, ModelRetries, ModelFails, ModelAsksForTools, Waste, Completing,
                Turning, Finish
  <2>6. ASSUME NEW i \in 1..MaxUses,
               StartCall(i) \/ ReadForCall(i) \/ AnswerCall(i) \/ CallFails(i)
        PROVE  Step
    BY <2>6 DEF StartCall, ReadForCall, AnswerCall, CallFails
  <2>. QED
    BY <1>1, <2>1, <2>2, <2>3, <2>4, <2>5, <2>6 DEF Next, LoopNext
<1>. QED
  BY <1>1, AllInvariance, PTL DEF Spec, TraceTrue

-----------------------------------------------------------------------------
(* Types.                                                                  *)

(* A request within the bounds of its parameters.                          *)
RequestTyped(q) ==
  /\ WellFormed(q)
  /\ q.offset <= MaxOffset /\ q.id \in Nat
  /\ "page" \in Given(q) => q.answers["page"] \in Seq(Disputes)

(* The variables of the read side.                                         *)
ReadTypes ==
  /\ before \subseteq Disputes /\ seen \in Seq(Disputes) /\ faults \in Nat
  /\ job \in {"idle"} \cup Reading \cup Ended
  /\ request # None \/ job \in {"walk", "export", "detail", "summary"} => RequestTyped(request)

(* A turn is only begun below the ceiling.                                 *)
RunTypes ==
  /\ stage \in {"turn", "tools", "returned", "failed"}
  /\ turn \in 0..MaxTurns
  /\ stage = "tools" => turn < MaxTurns
  /\ halt \in Halt
  /\ cancelled \in BOOLEAN /\ expired \in BOOLEAN

(* What CallsTyped leaves open of the calls.                               *)
CallTypes ==
  /\ Len(calls) <= MaxUses
  /\ \A i \in DOMAIN calls :
       /\ calls[i].status \in {"waiting", "running", "answered", "failed"}
       /\ calls[i].since \in Nat /\ calls[i].note \in BOOLEAN

TraceTypes == \A i \in DOMAIN traced : traced[i].use \in 1..MaxUses

Types == ReadTypes /\ RunTypes /\ CallTypes /\ TraceTypes

(* A page is made of disputes.                                             *)
LEMMA PageTyped ==
  ASSUME TablesTyped, NEW q, WellFormed(q), NEW page \in PageOf(q)
  PROVE  page \in Seq(Disputes)
<1>. DEFINE rows == Matching(q.filter)
<1>1. rows \in SUBSET Disputes
  BY FiniteTables DEF WellFormed, Filter, Matching
<1>2. PICK s \in Orders(rows) : page = Window(s, q.limit, q.offset)
  BY DEF PageOf
<1>. HIDE DEF rows
<1>3. s \in Seq(rows) /\ Len(s) \in Nat
  BY <1>1, <1>2, OrderedRows
<1>4. q.limit \in Nat /\ q.offset \in Nat
  BY ReadsAssumption DEF WellFormed
<1>. DEFINE upTo == Least(q.offset + q.limit, Len(s))
<1>5. upTo \in Int /\ upTo <= Len(s)
  BY <1>3, <1>4 DEF Least
<1>. HIDE DEF upTo
<1>6. \A i \in (q.offset + 1)..upTo : s[i] \in Disputes
  BY <1>1, <1>3, <1>4, <1>5
<1>7. page = SubSeq(s, q.offset + 1, upTo)
  BY <1>2 DEF Window, upTo
<1>. QED
  BY <1>4, <1>5, <1>6, <1>7, SubSeqProperties

(* A statement more leaves a request well typed.                           *)
LEMMA OneMoreTyped ==
  ASSUME TablesTyped, NEW q, RequestTyped(q), NEW r \in OneMore(q)
  PROVE  RequestTyped(r)
<1>1. PICK part \in Parts(q.kind) \ Given(q) : \E answer \in Answers(q, part) :
        /\ Given(r) = Given(q) \cup {part} /\ r.answers[part] = answer
        /\ \A p \in Given(q) : r.answers[p] = q.answers[p]
  BY OneMoreIs DEF RequestTyped
<1>2. /\ DOMAIN r = Fields
      /\ r.kind = q.kind /\ r.filter = q.filter /\ r.limit = q.limit
      /\ r.offset = q.offset /\ r.id = q.id
  BY OneMoreIs DEF RequestTyped
<1>3. WellFormed(r)
  BY <1>1, <1>2 DEF RequestTyped, WellFormed
<1>4. "page" \in Given(r) => r.answers["page"] \in Seq(Disputes)
  <2>1. CASE part = "page"
    BY <1>1, <2>1, Statements, PageTyped DEF RequestTyped
  <2>2. CASE part # "page"
    BY <1>1, <2>2 DEF RequestTyped
  <2>. QED
    BY <2>1, <2>2
<1>. QED
  BY <1>2, <1>3, <1>4 DEF RequestTyped

(* So is one that was just sent.                                           *)
LEMMA FreshTyped ==
  ASSUME TablesTyped, NEW kind \in Kinds, NEW filter \in Filter,
         NEW limit \in 1..MaxLimit, NEW offset \in 0..MaxOffset, NEW id \in Nat
  PROVE  RequestTyped(Sent(kind, filter, limit, offset, id))
<1>. DEFINE q == Sent(kind, filter, limit, offset, id)
<1>1. offset \in Nat /\ offset <= MaxOffset
  BY ReadsAssumption
<1>2. WellFormed(q) /\ Given(q) = {} /\ q.offset = offset
  BY <1>1, FreshSound DEF Sound
<1>3. q.id = id
  BY DEF Sent
<1>. QED
  BY <1>1, <1>2, <1>3 DEF RequestTyped

(* The read side's steps keep its types.                                   *)
LEMMA ReadTypesStep ==
  ASSUME AllInv, ReadTypes, ReadsNext
  PROVE  ReadTypes'
<1>1. /\ TablesTyped /\ JobInv
      /\ 0 \in 0..MaxOffset /\ 0 \in Nat /\ DefaultLimit \in 1..MaxLimit /\ faults \in Nat
      /\ \A d \in Disputes : d \in Nat
  BY ReadsAssumption DEF AllInv, ReadsInv, ReadTypes
<1>2. RequestTyped(request)' = RequestTyped(request')
  BY DEF RequestTyped, WellFormed, Given
<1>3. Open \subseteq Disputes
  BY <1>1, FiniteTables
<1>4. CASE Write
  BY <1>2, <1>4 DEF Write, ReadTypes
<1>5. ASSUME NEW asked \in Limits, StartWalk(asked) PROVE ReadTypes'
  <2>1. ParseLimit(asked) \in 1..MaxLimit
    BY <1>5, ReadsAssumption DEF StartWalk, ParseLimit, Least
  <2>2. RequestTyped(request')
    BY <1>1, <1>5, <2>1, FreshTyped DEF StartWalk, OpenList, Kinds, Filter
  <2>. QED
    BY <1>1, <1>2, <1>3, <1>5, <2>2 DEF StartWalk, Begin, ReadTypes, Reading
<1>6. CASE RefusesQuery
  BY <1>1, <1>3, <1>6 DEF RefusesQuery, Begin, ReadTypes, Ended
<1>7. CASE ReadOne
  <2>1. RequestTyped(request')
    BY <1>1, <1>7, OneMoreTyped DEF ReadOne, ReadTypes
  <2>. QED
    BY <1>2, <1>7, <2>1 DEF ReadOne, ReadTypes
<1>8. CASE ReadFails
  <2>1. faults' \in Nat
    BY <1>1, <1>8 DEF ReadFails, Fault
  <2>2. job' = "failed" /\ UNCHANGED <<before, seen, request>> /\ request # None
    BY <1>8 DEF ReadFails
  <2>. QED
    BY <1>2, <2>1, <2>2 DEF ReadTypes, Ended
<1>9. CASE NextPage
  <2>1. RequestTyped(request) /\ request.answers["page"] \in Seq(Disputes)
    BY <1>1, <1>9, Sequels
       DEF NextPage, ReadTypes, JobInv, RequestTyped, Sound, WellFormed, Answered, NotFound, Given
  <2>2. seen' \in Seq(Disputes)
    BY <1>9, <2>1, ConcatProperties DEF NextPage, ReadTypes
  <2>3. RequestTyped(request')
    <3>1. CASE UNCHANGED request
      BY <2>1, <3>1
    <3>2. CASE ~(UNCHANGED request)
      <4>1. /\ request' = Sent("list", "open", request.limit, NextOffset(request), 0)
            /\ ~(NextOffset(request) > MaxOffset)
        BY <1>9, <3>2 DEF NextPage, OpenList
      <4>2. request.limit \in 1..MaxLimit /\ NextOffset(request) \in 0..MaxOffset
        BY <2>1, <4>1, ReadsAssumption DEF RequestTyped, WellFormed, NextOffset
      <4>. QED
        BY <1>1, <4>1, <4>2, FreshTyped DEF Kinds, Filter
    <3>. QED
      BY <3>1, <3>2
  <2>4. job' \in {"walk", "walked", "too deep"} /\ UNCHANGED <<before, faults>>
    BY <1>9 DEF NextPage
  <2>. QED
    BY <1>2, <2>2, <2>3, <2>4 DEF ReadTypes, Reading, Ended
<1>10. CASE StartExport
  <2>1. RequestTyped(Sent("export", "open", DefaultLimit, 0, 0))
    BY <1>1, FreshTyped DEF Kinds, Filter
  <2>2. RequestTyped(request')
    BY <1>1, <1>10, <2>1, OneMoreTyped DEF StartExport
  <2>. QED
    BY <1>1, <1>2, <1>3, <1>10, <2>2 DEF StartExport, Begin, ReadTypes, Reading
<1>11. CASE Export \/ CutOff
  <2>. DEFINE rows == request.answers["rows"]
  <2>1. rows \in Orders(before) /\ before \in SUBSET Disputes
    BY <1>1, <1>11 DEF Export, CutOff, JobInv
  <2>. HIDE DEF rows
  <2>2. rows \in Seq(before) /\ Len(rows) \in Nat
    BY <2>1, OrderedRows
  <2>3. rows \in Seq(Disputes)
    BY <2>1, <2>2, SeqMonotonic
  <2>4. seen' \in Seq(Disputes)
    <3>1. CASE seen' = rows
      BY <2>3, <3>1
    <3>2. CASE \E n \in 0..Len(rows) : seen' = SubSeq(rows, 1, n)
      <4>1. PICK n \in 0..Len(rows) : seen' = SubSeq(rows, 1, n)
        BY <3>2
      <4>2. \A i \in 1..n : rows[i] \in Disputes
        BY <2>2, <2>3, <4>1
      <4>. QED
        BY <2>2, <4>1, <4>2, SubSeqProperties
    <3>. QED
      BY <1>11, <3>1, <3>2 DEF Export, CutOff, Streamed, rows
  <2>5. faults' \in Nat
    <3>1. UNCHANGED faults \/ Fault
      BY <1>11 DEF Export, CutOff
    <3>. QED
      BY <1>1, <3>1 DEF Fault
  <2>6. job' \in {"exported", "cut off"} /\ UNCHANGED <<before, request>> /\ job = "export"
    BY <1>11 DEF Export, CutOff
  <2>. QED
    BY <1>2, <2>4, <2>5, <2>6 DEF ReadTypes, Ended
<1>12. CASE StartDetail
  <2>1. RequestTyped(request')
    BY <1>1, <1>12, FreshTyped DEF StartDetail, Kinds, Filter
  <2>. QED
    BY <1>1, <1>2, <1>3, <1>12, <2>1 DEF StartDetail, Begin, ReadTypes, Reading
<1>13. CASE StartSummary
  <2>1. RequestTyped(request')
    BY <1>1, <1>13, FreshTyped DEF StartSummary, Kinds, Filter
  <2>. QED
    BY <1>1, <1>2, <1>3, <1>13, <2>1 DEF StartSummary, Begin, ReadTypes, Reading
<1>14. CASE Show
  BY <1>2, <1>14 DEF Show, EndsAs, ReadTypes, Ended
<1>. QED
  BY <1>4, <1>5, <1>6, <1>7, <1>8, <1>9, <1>10, <1>11, <1>12, <1>13, <1>14 DEF ReadsNext

(* So do the loop's.                                                       *)
LEMMA ReadTypesLoop ==
  ASSUME ReadsInv, ReadTypes, LoopNext
  PROVE  ReadTypes'
<1>1. RequestTyped(request)' = RequestTyped(request')
  BY DEF RequestTyped, WellFormed, Given
<1>2. UNCHANGED faults \/ Fault
  BY DEF LoopNext, Ask, Begin, Expire, GiveUp, TurnCeiling, BudgetCeiling, ModelEnds,
         ModelRetries, ModelFails, Waste, ModelAsksForTools, StartCall, ReadForCall, AnswerCall,
         CallFails, EndTools
<1>3. faults' \in Nat
  BY <1>2 DEF Fault, ReadTypes
<1>4. UNCHANGED <<request, seen>> /\ job' \in {job, "question", "asked"}
  BY DEF LoopNext, Ask, Begin, Expire, GiveUp, TurnCeiling, BudgetCeiling, ModelEnds,
         ModelRetries, ModelFails, ModelAsksForTools, StartCall, ReadForCall, AnswerCall,
         CallFails, EndTools, Return, Stay
<1>5. before' \in {before, Open}
  BY DEF LoopNext, Ask, Begin, Expire, GiveUp, TurnCeiling, BudgetCeiling, ModelEnds,
         ModelRetries, ModelFails, ModelAsksForTools, StartCall, ReadForCall, AnswerCall,
         CallFails, EndTools, Stay
<1>6. Open \subseteq Disputes
  BY FiniteTables DEF ReadsInv
<1>. QED
  BY <1>1, <1>3, <1>4, <1>5, <1>6 DEF ReadTypes, Reading, Ended

(* A turn is counted when it is finished, and begun below the ceiling.     *)
LEMMA RunTypesStep ==
  ASSUME RunTypes, LoopNext
  PROVE  RunTypes'
<1>1. MaxTurns \in Nat /\ turn \in 0..MaxTurns
  BY LoopAssumption DEF RunTypes
<1>2. CASE UNCHANGED <<stage, turn, halt, expired>> /\ cancelled' \in BOOLEAN
  BY <1>2 DEF RunTypes
<1>3. CASE Ask \/ ModelRetries
  BY <1>3 DEF Ask, ModelRetries, loopVars, RunTypes
<1>4. CASE Expire
  <2>1. UNCHANGED <<stage, turn, halt>> /\ expired' \in BOOLEAN /\ cancelled' \in BOOLEAN
    BY <1>4 DEF Expire
  <2>. QED
    BY <2>1 DEF RunTypes
<1>5. CASE GiveUp \/ TurnCeiling \/ BudgetCeiling \/ ModelFails
  <2>1. /\ UNCHANGED <<turn, cancelled, expired>> /\ stage' \in {"returned", "failed"}
        /\ halt' \in {halt, "budget_exceeded"}
    BY <1>5 DEF GiveUp, TurnCeiling, BudgetCeiling, ModelFails, Return
  <2>. QED
    BY <2>1 DEF RunTypes, Halt
<1>6. CASE ModelEnds
  <2>1. turn' = turn + 1 /\ turn < MaxTurns
    BY <1>6 DEF ModelEnds, Finish, Completing
  <2>2. /\ UNCHANGED <<cancelled, expired>> /\ stage' = "returned"
        /\ halt' \in Halt
    BY <1>6 DEF ModelEnds, Return, Halt
  <2>3. turn' \in 0..MaxTurns
    BY <1>1, <2>1
  <2>. QED
    BY <2>2, <2>3 DEF RunTypes
<1>7. CASE ModelAsksForTools
  <2>1. UNCHANGED <<turn, halt, cancelled, expired>> /\ stage' = "tools" /\ turn < MaxTurns
    BY <1>7 DEF ModelAsksForTools, Completing
  <2>. QED
    BY <2>1 DEF RunTypes
<1>8. ASSUME NEW i \in 1..MaxUses,
             StartCall(i) \/ ReadForCall(i) \/ AnswerCall(i) \/ CallFails(i)
      PROVE  RunTypes'
  <2>1. UNCHANGED <<stage, turn, halt, expired>> /\ cancelled' \in BOOLEAN
    BY <1>8 DEF StartCall, ReadForCall, AnswerCall, CallFails, RunTypes
  <2>. QED
    BY <1>2, <2>1
<1>9. CASE EndTools
  <2>1. turn' = turn + 1 /\ stage = "tools"
    BY <1>9 DEF EndTools, Finish
  <2>2. turn' \in 0..MaxTurns
    BY <1>1, <2>1 DEF RunTypes
  <2>3. UNCHANGED <<halt, expired>> /\ cancelled' = FALSE /\ stage' \in {"failed", "turn"}
    BY <1>9 DEF EndTools, Return
  <2>. QED
    BY <2>2, <2>3 DEF RunTypes
<1>. QED
  BY <1>3, <1>4, <1>5, <1>6, <1>7, <1>8, <1>9 DEF LoopNext

(* The calls of a turn keep their types.                                   *)
LEMMA CallTypesStep ==
  ASSUME AllInv, CallTypes, LoopNext
  PROVE  CallTypes'
<1>1. /\ Len(calls) \in Nat /\ DOMAIN calls = 1..Len(calls) /\ writes \in Nat
      /\ \A i \in DOMAIN calls : DOMAIN calls[i] = CallFields
  BY DEF AllInv, LoopInv, CallsTyped, ReadsInv, TablesTyped
<1>2. CASE UNCHANGED calls
  BY <1>2 DEF CallTypes
<1>3. CASE Ask \/ Expire \/ GiveUp \/ TurnCeiling \/ BudgetCeiling
             \/ ModelEnds \/ ModelRetries \/ ModelFails
  BY <1>2, <1>3 DEF Ask, loopVars, Expire, GiveUp, TurnCeiling, BudgetCeiling, ModelEnds,
                    ModelRetries, ModelFails
<1>4. CASE ModelAsksForTools
  <2>1. PICK n \in 1..MaxUses :
          \E tools \in [1..n -> Asks] :
            calls' = [i \in 1..n |-> [use |-> i, tool |-> tools[i], status |-> "waiting",
                                      since |-> 0, rule |-> "none", note |-> FALSE,
                                      request |-> None]]
    BY <1>4 DEF ModelAsksForTools
  <2>2. n \in Nat /\ n <= MaxUses /\ calls' = [x \in 1..n |-> calls'[x]]
    BY <2>1, LoopAssumption
  <2>3. Len(calls') = n /\ DOMAIN calls' = 1..n
    BY <2>2, LenOfFunction
  <2>4. ASSUME NEW i \in 1..n
        PROVE  /\ calls'[i].status \in {"waiting", "running", "answered", "failed"}
               /\ calls'[i].since \in Nat /\ calls'[i].note \in BOOLEAN
    <3>1. PICK tools \in [1..n -> Asks] :
            calls' = [x \in 1..n |-> [use |-> x, tool |-> tools[x], status |-> "waiting",
                                      since |-> 0, rule |-> "none", note |-> FALSE,
                                      request |-> None]]
      BY <2>1
    <3>2. calls'[i].status = "waiting" /\ calls'[i].since = 0 /\ calls'[i].note = FALSE
      BY <3>1
    <3>3. calls'[i].since \in Nat
      BY <3>2
    <3>. QED
      BY <3>2, <3>3
  <2>. QED
    BY <2>2, <2>3, <2>4 DEF CallTypes
<1>5. ASSUME NEW i \in DOMAIN calls,
             StartCall(i) \/ ReadForCall(i) \/ AnswerCall(i) \/ CallFails(i)
      PROVE  CallTypes'
  <2>1. /\ DOMAIN calls' = DOMAIN calls
        /\ \A j \in DOMAIN calls : j # i => calls'[j] = calls[j]
    BY <1>5 DEF StartCall, ReadForCall, AnswerCall, CallFails
  <2>2. Len(calls') = Len(calls)
    <3>1. calls' = [x \in 1..Len(calls) |-> calls'[x]]
      BY <1>1, <1>5 DEF StartCall, ReadForCall, AnswerCall, CallFails
    <3>. QED
      BY <1>1, <3>1, LenOfFunction
  <2>3. /\ calls'[i].status \in {"waiting", "running", "answered", "failed"}
        /\ calls'[i].since \in Nat /\ calls'[i].note \in BOOLEAN
    <3>1. /\ calls[i].status \in {"waiting", "running", "answered", "failed"}
          /\ calls[i].since \in Nat /\ calls[i].note \in BOOLEAN
          /\ DOMAIN calls[i] = CallFields
      BY <1>1 DEF CallTypes
    <3>2. CASE StartCall(i)
      <4>1. CASE Asking(i)
        BY <1>1, <3>1, <3>2, <4>1 DEF StartCall, CallFields
      <4>2. CASE ~Asking(i)
        <5>1. Outcome(calls[i].tool).status \in {"answered", "failed"}
          <6>1. calls[i].tool.tool \in Wrongs
            BY <4>2, LoopAssumption DEF Asking, AllInv, LoopInv, CallsTyped
          <6>. QED
            BY <6>1 DEF Wrongs, Outcome
        <5>. DEFINE out == Outcome(calls[i].tool)
                    c   == [calls[i] EXCEPT !.status = out.status, !.rule = out.rule]
        <5>2. calls' = [calls EXCEPT ![i] = c]
          BY <3>1, <3>2, <4>2 DEF StartCall, CallFields
        <5>3. /\ c.status = out.status
              /\ c.since = calls[i].since /\ c.note = calls[i].note
          BY <3>1 DEF CallFields
        <5>. HIDE DEF c
        <5>4. calls'[i] = c
          BY <5>2
        <5>. QED
          BY <3>1, <5>1, <5>3, <5>4
      <4>. QED
        BY <4>1, <4>2
    <3>3. CASE ReadForCall(i)
      BY <3>1, <3>3 DEF ReadForCall, CallFields
    <3>4. CASE AnswerCall(i)
      BY <3>1, <3>4 DEF AnswerCall, CallFields
    <3>5. CASE CallFails(i)
      BY <3>1, <3>5 DEF CallFails, CallFields
    <3>. QED
      BY <1>5, <3>2, <3>3, <3>4, <3>5
  <2>. QED
    BY <2>1, <2>2, <2>3 DEF CallTypes
<1>6. CASE EndTools
  <2>1. calls' = <<>> /\ Len(<<>>) = 0 /\ DOMAIN <<>> = {}
    BY <1>6 DEF EndTools
  <2>. QED
    BY <2>1, LoopAssumption DEF CallTypes
<1>. QED
  BY <1>3, <1>4, <1>5, <1>6 DEF LoopNext

(* What is traced was asked for in this turn.                              *)
LEMMA TraceTypesStep ==
  ASSUME AllInv, CallTypes, TraceTypes, LoopNext
  PROVE  TraceTypes'
<1>1. CASE UNCHANGED traced
  BY <1>1 DEF TraceTypes
<1>2. CASE EndTools
  <2>1. KeptWell(Completed, Len(calls)) /\ traced' = Completed /\ CallsTyped
    BY <1>2, CompletedWell DEF AllInv, LoopInv, EndTools, Finish
  <2>2. \A i \in DOMAIN Completed : Completed[i].use \in 1..Len(calls)
    BY <2>1, LenProperties DEF KeptWell, Kept
  <2>3. 1..Len(calls) \subseteq 1..MaxUses
    BY <2>1, LoopAssumption DEF CallTypes, CallsTyped
  <2>. QED
    BY <2>1, <2>2, <2>3 DEF TraceTypes
<1>3. CASE ModelEnds
  <2>1. traced' = <<>> /\ DOMAIN <<>> = {}
    BY <1>3 DEF ModelEnds, Finish
  <2>. QED
    BY <2>1 DEF TraceTypes
<1>. QED
  BY <1>1, <1>2, <1>3
     DEF LoopNext, Ask, loopVars, Expire, GiveUp, TurnCeiling, BudgetCeiling, ModelRetries,
         ModelFails, ModelAsksForTools, StartCall, ReadForCall, AnswerCall, CallFails

(* Every step keeps them all.                                              *)
LEMMA TypesStep == AllInv /\ Types /\ [Next]_vars => Types'
<1> SUFFICES ASSUME AllInv, Types, [Next]_vars PROVE Types'
  OBVIOUS
<1>1. CASE UNCHANGED vars
  BY <1>1 DEF vars, loopVars, tableVars, Types, ReadTypes, RunTypes, CallTypes, TraceTypes,
              RequestTyped, WellFormed, Given
<1>2. CASE ReadsNext /\ UNCHANGED loopVars
  <2>1. RunTypes' /\ CallTypes' /\ TraceTypes'
    BY <1>2 DEF loopVars, RunTypes, CallTypes, TraceTypes, Types
  <2> QED
    BY <1>2, <2>1, ReadTypesStep DEF Types
<1>3. CASE LoopNext
  BY <1>3, ReadTypesLoop, RunTypesStep, CallTypesStep, TraceTypesStep DEF Types, AllInv
<1> QED
  BY <1>1, <1>2, <1>3 DEF Next

(* And the first state has them.                                           *)
LEMMA TypesInit == Init => Types
<1> SUFFICES ASSUME Init PROVE Types
  OBVIOUS
<1>1. ReadTypes
  BY EmptySeq DEF Init, ReadsInit, ReadTypes
<1>2. RunTypes
  <2>1. /\ stage = "turn" /\ turn = 0 /\ halt = "turn_ceiling"
        /\ cancelled = FALSE /\ expired = FALSE
    BY DEF Init
  <2>2. turn \in 0..MaxTurns
    BY <2>1, LoopAssumption
  <2>. QED
    BY <2>1, <2>2 DEF RunTypes, Halt
<1>3. CallTypes /\ TraceTypes
  <2>1. calls = <<>> /\ traced = <<>> /\ Len(<<>>) = 0 /\ DOMAIN <<>> = {}
    BY DEF Init
  <2>. QED
    BY <2>1, LoopAssumption DEF CallTypes, TraceTypes
<1> QED
  BY <1>1, <1>2, <1>3 DEF Types

(* The parts of the type invariant, put together as TypeOK has them.       *)
LEMMA TypesTogether == AllInv /\ IInv /\ Types => TypeOK
<1> SUFFICES ASSUME AllInv, IInv, Types PROVE TypeOK
  OBVIOUS
<1>1. request # None =>
        [field \in DOMAIN request \ {"answers"} |-> request[field]] \in Request
  <2> SUFFICES ASSUME request # None
               PROVE  [field \in DOMAIN request \ {"answers"} |-> request[field]] \in Request
    OBVIOUS
  <2>1. /\ DOMAIN request = Fields /\ request.kind \in Kinds /\ request.filter \in Filter
        /\ request.limit \in Nat /\ request.offset \in Nat /\ request.id \in Nat
    BY ReadsAssumption DEF Types, ReadTypes, RequestTyped, WellFormed
  <2>2. Fields \ {"answers"} = {"kind", "filter", "limit", "offset", "id"}
    BY DEF Fields
  <2>3. [field \in Fields \ {"answers"} |-> request[field]] =
          [kind |-> request.kind, filter |-> request.filter, limit |-> request.limit,
           offset |-> request.offset, id |-> request.id]
    BY <2>2
  <2> QED
    BY <2>1, <2>3 DEF Request, Kinds
<1>2. request # None =>
        /\ DOMAIN request.answers \subseteq Parts(request.kind)
        /\ request.limit \in 1..MaxLimit /\ request.offset \in 0..MaxOffset
  BY ReadsAssumption DEF Types, ReadTypes, RequestTyped, WellFormed, Given
<1>3. ReadsTypeOK
  BY <1>1, <1>2 DEF AllInv, ReadsInv, TablesTyped, Filed, Types, ReadTypes, ReadsTypeOK
<1>4. ASSUME NEW i \in DOMAIN calls
      PROVE  [field \in DOMAIN calls[i] \ {"request"} |-> calls[i][field]] \in Call
  <2>1. /\ DOMAIN calls[i] = CallFields /\ calls[i].use \in 1..MaxUses /\ calls[i].tool \in Asks
        /\ calls[i].status \in {"waiting", "running", "answered", "failed"}
        /\ calls[i].since \in Nat /\ calls[i].rule \in Rule /\ calls[i].note \in BOOLEAN
    BY LoopAssumption DEF AllInv, LoopInv, CallsTyped, Types, CallTypes
  <2>2. CallFields \ {"request"} = {"use", "tool", "status", "since", "rule", "note"}
    BY DEF CallFields
  <2>3. [field \in CallFields \ {"request"} |-> calls[i][field]] =
          [use |-> calls[i].use, tool |-> calls[i].tool, status |-> calls[i].status,
           since |-> calls[i].since, rule |-> calls[i].rule, note |-> calls[i].note]
    BY <2>2
  <2> QED
    BY <2>1, <2>3 DEF Call
<1> QED
  BY <1>3, <1>4 DEF IInv, AccountTypes, Types, RunTypes, CallTypes, TraceTypes, TypeOK

(* Tables, requests on their way, calls, trace and accounts keep their     *)
(* types, and the turns their ceiling.                                     *)
THEOREM TypeCorrect == Spec => []TypeOK
<1>1. Spec => []IInv
  BY IInvInit, IInvStep, PTL DEF Spec
<1>2. Spec => []Types
  BY TypesInit, TypesStep, AllInvariance, PTL DEF Spec
<1> QED
  BY <1>1, <1>2, AllInvariance, TypesTogether, PTL
=============================================================================
