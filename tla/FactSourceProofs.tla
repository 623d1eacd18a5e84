--------------------------- MODULE FactSourceProofs ---------------------------
(***************************************************************************)
(* Proofs about FactSource, its evidence bucket and the backfill beside    *)
(* it, for any disputes, files, limits and faults.                         *)
(***************************************************************************)
EXTENDS FactSource, SequenceTheorems, FiniteSetTheorems, TLAPS

-----------------------------------------------------------------------------
(* The backfill.                                                           *)

(* A row that is not there yet has been paid for by a backfill once per    *)
(* run of it that was cut, and once more while a batch with it is on its   *)
(* way; and it has not paid again for what it has selected, even if        *)
(* somebody else has written the row since.                                *)
PaidFor(r, d) ==
  /\ paid[r][d] <= 1 + cuts[r]
  /\ backfill[r] = "selected" /\ d \in batch[r] => paid[r][d] <= cuts[r]
  /\ embedded[d] # Model =>
       paid[r][d] <= cuts[r] + (IF backfill[r] = "embedded" /\ d \in batch[r] THEN 1 ELSE 0)

PaidInv == BackfillTypeOK /\ \A r \in Backfills, d \in Disputes : PaidFor(r, d)

LEMMA PaidInit == Init => PaidInv
BY BackfillAssumption DEF Init, BackfillInit, PaidInv, PaidFor, BackfillTypeOK

(* What is written is of the deployment's model, and no row of it goes.    *)
LEMMA UpsertTypes ==
  ASSUME BackfillTypeOK, NEW ds, Upsert(ds)
  PROVE  /\ embedded' \in [Disputes -> Models \cup {None}]
         /\ \A d \in Disputes : embedded'[d] = IF d \in ds THEN Model ELSE embedded[d]
BY BackfillAssumption DEF Upsert, UpsertRow, BackfillTypeOK

(* A step of one backfill pays for what it writes, and writes what it paid *)
(* for or is cut; to the others it only makes rows that were missing.      *)
LEMMA PaidBackfill ==
  ASSUME PaidInv, NEW r \in Backfills,
         SelectBatch(r) \/ EmbedBatch(r) \/ WriteBatch(r) \/ CutBackfill(r)
  PROVE  PaidInv'
<1>0. BackfillTypeOK /\ \A q \in Backfills, d \in Disputes :
        PaidFor(q, d) /\ paid[q][d] \in Nat /\ cuts[q] \in Nat
  BY DEF PaidInv, BackfillTypeOK
<1>1. CASE SelectBatch(r)
  <2>1. PICK ds \in SUBSET Missing : batch' = [batch EXCEPT ![r] = ds]
    BY <1>1 DEF SelectBatch
  <2>2. ds \subseteq Claims /\ \A d \in ds : embedded[d] # Model
    BY <2>1 DEF Missing
  <2>3. BackfillTypeOK'
    BY <1>0, <1>1, <2>1, <2>2 DEF SelectBatch, BackfillTypeOK
  <2>4. ASSUME NEW q \in Backfills, NEW d \in Disputes PROVE PaidFor(q, d)'
    <3>1. UNCHANGED <<embedded[d], paid[q][d], cuts[q]>>
      BY <1>1 DEF SelectBatch
    <3>2. CASE q = r
      <4>1. backfill[r] = "idle" /\ backfill'[r] = "selected" /\ batch'[r] = ds
        BY <1>0, <1>1, <2>1 DEF SelectBatch, BackfillTypeOK
      <4>. QED BY <1>0, <2>2, <3>1, <3>2, <4>1 DEF PaidFor
    <3>3. CASE q # r
      <4>1. backfill'[q] = backfill[q] /\ batch'[q] = batch[q]
        BY <1>0, <1>1, <2>1, <3>3 DEF SelectBatch, BackfillTypeOK
      <4>. QED BY <1>0, <3>1, <4>1 DEF PaidFor
    <3>. QED BY <3>2, <3>3
  <2>. QED BY <2>3, <2>4 DEF PaidInv
<1>2. CASE EmbedBatch(r)
  <2>1. \A q \in Backfills, d \in Disputes :
          paid'[q][d] = IF q = r /\ d \in batch[r] THEN paid[q][d] + 1 ELSE paid[q][d]
    BY <1>0, <1>2 DEF EmbedBatch, BackfillTypeOK
  <2>2. BackfillTypeOK'
    BY <1>0, <1>2 DEF EmbedBatch, BackfillTypeOK
  <2>3. ASSUME NEW q \in Backfills, NEW d \in Disputes PROVE PaidFor(q, d)'
    <3>1. UNCHANGED <<embedded[d], cuts[q], batch[q]>>
      BY <1>2 DEF EmbedBatch
    <3>2. CASE q = r
      <4>1. backfill[r] = "selected" /\ backfill'[r] = "embedded"
        BY <1>0, <1>2 DEF EmbedBatch, BackfillTypeOK
      <4>. QED BY <1>0, <2>1, <3>1, <3>2, <4>1 DEF PaidFor
    <3>3. CASE q # r
      <4>1. backfill'[q] = backfill[q] /\ paid'[q][d] = paid[q][d]
        BY <1>0, <1>2, <2>1, <3>3 DEF EmbedBatch, BackfillTypeOK
      <4>. QED BY <1>0, <3>1, <4>1 DEF PaidFor
    <3>. QED BY <3>2, <3>3
  <2>. QED BY <2>2, <2>3 DEF PaidInv
<1>3. CASE WriteBatch(r) \/ CutBackfill(r)
  <2>1. /\ UNCHANGED embedded \/ (backfill[r] = "embedded" /\ Upsert(batch[r]))
        /\ cuts'[r] = cuts[r] + 1 \/ Upsert(batch[r])
        /\ Rest(r) /\ UNCHANGED <<outcome, paid>>
        /\ cuts' = cuts \/ cuts' = [cuts EXCEPT ![r] = @ + 1]
    BY <1>0, <1>3 DEF WriteBatch, CutBackfill, BackfillTypeOK
  <2>2. /\ embedded' \in [Disputes -> Models \cup {None}]
        /\ \A d \in Disputes : embedded'[d] = embedded[d] \/ embedded'[d] = Model
    BY <1>0, <2>1, UpsertTypes DEF BackfillTypeOK
  <2>3. BackfillTypeOK'
    <3>1. cuts' \in [Backfills -> Nat]
      BY <1>0, <2>1 DEF BackfillTypeOK
    <3>2. /\ backfill' \in [Backfills -> {"idle", "selected", "embedded"}]
          /\ batch' \in [Backfills -> SUBSET Claims]
      BY <1>0, <2>1 DEF Rest, BackfillTypeOK
    <3>. QED BY <1>0, <2>1, <2>2, <3>1, <3>2 DEF BackfillTypeOK
  <2>4. ASSUME NEW q \in Backfills, NEW d \in Disputes PROVE PaidFor(q, d)'
    <3>1. cuts'[q] \in Nat /\ cuts'[q] >= cuts[q] /\ paid'[q][d] = paid[q][d]
      <4>1. cuts \in [Backfills -> Nat] /\ cuts[q] \in Nat /\ cuts[r] \in Nat
        BY <1>0 DEF BackfillTypeOK
      <4>2. cuts'[q] = cuts[q] \/ cuts'[q] = cuts[q] + 1
        BY <2>1, <4>1
      <4>. QED BY <2>1, <4>1, <4>2
    <3>2. CASE q = r
      <4>1. backfill'[r] = "idle"
        BY <1>0, <2>1 DEF Rest, BackfillTypeOK
      <4>2. ASSUME embedded'[d] # Model PROVE paid'[r][d] <= cuts'[r]
        <5>1. embedded[d] # Model
          BY <2>2, <4>2
        <5>2. CASE backfill[r] = "embedded" /\ d \in batch[r]
          <6>1. ~ Upsert(batch[r])
            BY <1>0, <4>2, <5>2, UpsertTypes
          <6>2. cuts'[r] = cuts[r] + 1
            BY <2>1, <5>2, <6>1
          <6>3. paid[r][d] <= cuts[r] + 1
            BY <1>0, <5>1, <5>2 DEF PaidFor
          <6>. QED BY <1>0, <3>1, <3>2, <6>2, <6>3
        <5>3. CASE ~ (backfill[r] = "embedded" /\ d \in batch[r])
          <6>1. paid[r][d] <= cuts[r]
            BY <1>0, <5>1, <5>3 DEF PaidFor
          <6>. QED BY <1>0, <3>1, <3>2, <6>1
        <5>. QED BY <5>2, <5>3
      <4>3. paid'[r][d] <= 1 + cuts'[r]
        BY <1>0, <3>1, <3>2 DEF PaidFor
      <4>. QED BY <3>1, <3>2, <4>1, <4>2, <4>3 DEF PaidFor
    <3>3. CASE q # r
      <4>1. UNCHANGED <<backfill[q], batch[q], cuts[q], paid[q][d]>>
        BY <1>0, <2>1, <3>3 DEF Rest, BackfillTypeOK
      <4>2. embedded'[d] # Model => embedded[d] # Model
        BY <2>2
      <4>. QED BY <1>0, <4>1, <4>2 DEF PaidFor
    <3>. QED BY <3>2, <3>3
  <2>. QED BY <2>3, <2>4 DEF PaidInv
<1>. QED
  BY <1>1, <1>2, <1>3

(* Nobody else pays, or takes a row away.                                  *)
LEMMA PaidStep ==
  ASSUME PaidInv, [Next]_vars
  PROVE  PaidInv'
<1>1. CASE UNCHANGED backfillVars
  BY <1>1 DEF backfillVars, BackfillTypeOK, PaidFor, PaidInv
<1>2. ASSUME NEW d \in Disputes, NEW end \in Ends, Settle(d, end)
      PROVE  PaidInv'
  <2>1. end \in {"won", "lost", "expired"}
    BY FactsAssumption
  <2>2. BackfillTypeOK'
    BY <1>2, <2>1 DEF Settle, BackfillTypeOK, PaidInv
  <2>. QED
    BY <1>2, <2>2 DEF Settle, PaidFor, PaidInv
<1>. QED
  BY <1>1, <1>2, PaidBackfill DEF Next, Reading, BucketNext, Backfill, vars

LEMMA PaidInvariance == Spec => []PaidInv
<1>1. Init => PaidInv
  BY PaidInit
<1>2. PaidInv /\ [Next]_vars => PaidInv'
  BY PaidStep
<1>. QED
  BY <1>1, <1>2, PTL DEF Spec

(* However many people run the backfill side by side, each of them pays    *)
(* for a claim once, and once more for each of their runs that was cut.    *)
THEOREM PaidOnceHolds == Spec => []PaidOnce
<1>1. PaidInv => PaidOnce
  BY DEF PaidInv, PaidFor, PaidOnce
<1>. QED
  BY <1>1, PaidInvariance, PTL

-----------------------------------------------------------------------------
(* Sums along a sequence.                                                  *)

(* The least of some numbers.                                              *)
LEMMA LeastNumber ==
  ASSUME NEW N \in SUBSET Nat, N # {}
  PROVE  \E n \in N : \A m \in N : n <= m
<1>. DEFINE SS == {0..n : n \in N}
<1>1. SS \subseteq FiniteSubsetsOf(Nat) /\ SS # {}
  <2>1. \A n \in N : IsFiniteSet(0..n) /\ 0..n \subseteq Nat
    BY FS_Interval
  <2>. QED
    BY <2>1 DEF FiniteSubsetsOf
<1>2. PICK S \in SS : \A T \in SS : <<T, S>> \notin StrictSubsetOrdering(Nat)
  <2>. HIDE DEF SS
  <2>. QED BY <1>1, FS_StrictSubsetOrderingWellFounded, WFMin
<1>3. PICK n \in N : S = 0..n
  OBVIOUS
<1>4. ASSUME NEW m \in N, m < n PROVE FALSE
  <2>1. 0..m \in SS /\ 0..m \subseteq 0..n /\ n \in 0..n /\ n \notin 0..m
    BY <1>4
  <2>2. <<0..m, S>> \in StrictSubsetOrdering(Nat)
    BY <1>1, <1>3, <2>1 DEF StrictSubsetOrdering
  <2>. QED
    BY <1>2, <2>1, <2>2
<1>. QED
  BY <1>4

(* What the first so many files of a list show, as a function.             *)
UpTo(upTo, some, n) ==
  upTo = [i \in 0..n |-> IF i = 0 THEN 0 ELSE upTo[i - 1] + some[i].shown]

LEMMA ShownIsUpTo ==
  ASSUME NEW some
  PROVE  ShownBy(some) = (CHOOSE upTo : UpTo(upTo, some, Len(some)))[Len(some)]
BY DEF ShownBy, UpTo

LEMMA UpToExists ==
  ASSUME NEW some, NEW n \in Nat
  PROVE  \E upTo : UpTo(upTo, some, n)
<1>. DEFINE N == {m \in Nat : ~ \E upTo : UpTo(upTo, some, m)}
<1>. SUFFICES ASSUME N # {} PROVE FALSE
  OBVIOUS
<1>1. PICK m \in N : \A l \in N : m <= l
  <2>. HIDE DEF N
  <2>1. N \in SUBSET Nat
    BY DEF N
  <2>. QED BY <2>1, LeastNumber
<1>2. CASE m = 0
  <2>1. UpTo([i \in 0..0 |-> 0], some, 0)
    BY DEF UpTo
  <2>. QED
    BY <1>2, <2>1
<1>3. CASE m # 0
  <2>1. m - 1 \in Nat /\ m - 1 \notin N
    BY <1>1, <1>3
  <2>2. PICK f : UpTo(f, some, m - 1)
    BY <2>1
  <2>. DEFINE g == [i \in 0..m |-> IF i = m THEN f[m - 1] + some[m].shown ELSE f[i]]
  <2>3. ASSUME NEW i \in 0..m
        PROVE  g[i] = IF i = 0 THEN 0 ELSE g[i - 1] + some[i].shown
    BY <1>3, <2>2 DEF UpTo
  <2>4. g = [i \in 0..m |-> IF i = 0 THEN 0 ELSE g[i - 1] + some[i].shown]
    BY <2>3
  <2>5. UpTo(g, some, m)
    <3>. HIDE DEF g
    <3>. QED BY <2>4 DEF UpTo
  <2>. QED
    BY <1>1, <2>5
<1>. QED
  BY <1>2, <1>3

LEMMA UpToAgree ==
  ASSUME NEW some, NEW more, NEW n \in Nat, NEW m \in Nat, n <= m,
         \A i \in 1..n : some[i] = more[i],
         NEW f, NEW g, UpTo(f, some, n), UpTo(g, more, m)
  PROVE  \A i \in 0..n : f[i] = g[i]
<1>. DEFINE N == {i \in 0..n : f[i] # g[i]}
<1>. SUFFICES ASSUME N # {} PROVE FALSE
  OBVIOUS
<1>1. PICK k \in N : \A l \in N : k <= l
  <2>1. N \in SUBSET Nat
    OBVIOUS
  <2>. HIDE DEF N
  <2>. QED BY <2>1, LeastNumber
<1>2. k \in 0..n /\ k \in 0..m
  OBVIOUS
<1>3. /\ f[k] = IF k = 0 THEN 0 ELSE f[k - 1] + some[k].shown
      /\ g[k] = IF k = 0 THEN 0 ELSE g[k - 1] + more[k].shown
  BY <1>2 DEF UpTo
<1>4. k # 0
  BY <1>3
<1>5. k - 1 \in 0..n /\ f[k - 1] = g[k - 1] /\ some[k] = more[k]
  BY <1>1, <1>2, <1>4
<1>. QED
  BY <1>3, <1>5

(* Nothing shows nothing, and one more file shows that much more.          *)
LEMMA ShownByNone == ShownBy(<<>>) = 0
<1>. DEFINE f == CHOOSE upTo : UpTo(upTo, <<>>, 0)
<1>1. UpTo(f, <<>>, 0)
  BY UpToExists
<1>2. f[0] = 0
  <2>. HIDE DEF f
  <2>. QED BY <1>1 DEF UpTo
<1>3. Len(<<>>) = 0
  OBVIOUS
<1>. QED
  BY <1>2, <1>3, ShownIsUpTo

LEMMA ShownByAppend ==
  ASSUME NEW some \in Seq(Ref), NEW ref \in Ref
  PROVE  ShownBy(Append(some, ref)) = ShownBy(some) + ref.shown
<1>. DEFINE n == Len(some)
            more == Append(some, ref)
            f == CHOOSE upTo : UpTo(upTo, some, n)
            g == CHOOSE upTo : UpTo(upTo, more, n + 1)
<1>1. n \in Nat /\ Len(more) = n + 1 /\ more[n + 1] = ref /\ \A i \in 1..n : some[i] = more[i]
  BY AppendProperties, LenProperties
<1>2. UpTo(f, some, n) /\ UpTo(g, more, n + 1)
  <2>1. n + 1 \in Nat
    BY <1>1
  <2>. HIDE DEF n, more
  <2>. QED BY <1>1, <2>1, UpToExists
<1>3. ShownBy(some) = f[n] /\ ShownBy(more) = g[n + 1]
  BY <1>1, ShownIsUpTo
<1>. HIDE DEF f, g, n, more
<1>4. f[n] = g[n]
  BY <1>1, <1>2, UpToAgree
<1>5. g[n + 1] = g[n] + ref.shown
  BY <1>1, <1>2 DEF UpTo
<1>. QED
  BY <1>3, <1>4, <1>5 DEF more

-----------------------------------------------------------------------------
(* Types.                                                                  *)

(* A listing names every file there is, and nothing else.                  *)
LEMMA ListingOfFiles ==
  ASSUME BucketTypeOK, NEW keys \in Listings
  PROVE  /\ keys \in Seq(Keys)
         /\ \A i \in 1..Len(keys) : keys[i] \in DOMAIN objects
         /\ \A key \in DOMAIN objects : \E i \in 1..Len(keys) : keys[i] = key
<1>. DEFINE n == Cardinality(DOMAIN objects)
<1>1. n \in Nat /\ IsFiniteSet(DOMAIN objects)
  BY FS_CardinalityType DEF BucketTypeOK
<1>2. /\ keys \in [1..n -> DOMAIN objects] /\ DOMAIN objects \subseteq Keys
      /\ \A i, j \in 1..n : i # j => keys[i] # keys[j]
  BY DEF Listings, SetToSeqs, BucketTypeOK
<1>3. keys \in Injection(1..n, DOMAIN objects)
  BY <1>2 DEF Injection, IsInjective
<1>4. Cardinality(1..n) = n
  <2>. HIDE DEF n
  <2>. QED BY <1>1, FS_Interval
<1>5. keys \in Surjection(1..n, DOMAIN objects)
  BY <1>1, <1>3, <1>4, FS_Injection
<1>6. \A key \in DOMAIN objects : \E i \in 1..n : keys[i] = key
  BY <1>5 DEF Surjection
<1>. HIDE DEF n
<1>. QED
  BY <1>1, <1>2, <1>6

(* A file that is uploaded is added to the bucket; none is taken away.     *)
LEMMA UploadTypes ==
  ASSUME BucketTypeOK, BucketNext
  PROVE  BucketTypeOK' /\ DOMAIN objects \subseteq DOMAIN objects'
<1>. PICK form \in Form, content \in Contents : Upload(form, content)
  BY DEF BucketNext
<1>1. KeyOf(form) \in Keys /\ content \in File
  BY BucketAssumption DEF Form, KeyOf, Keys
<1>2. DOMAIN objects' = DOMAIN objects \cup {KeyOf(form)}
  BY DEF Upload
<1>3. IsFiniteSet(DOMAIN objects')
  BY <1>2, FS_AddElement DEF BucketTypeOK
<1>. QED
  BY <1>1, <1>2, <1>3 DEF Upload, BucketTypeOK

(* What is read of a file says which file, and no more of it than the file *)
(* has, one file may show, and the block has room for.                     *)
LEMMA ExtractBounds ==
  ASSUME NEW key \in Keys, NEW file \in File, Budget \in Int, Budget > 0
  PROVE  /\ Extract(key, file) \in Ref
         /\ Extract(key, file).key = key
         /\ Extract(key, file).status # "block full"
         /\ Extract(key, file).shown <= Budget
         /\ Extract(key, file).shown <= FileLimit
<1>1. Cap \in Nat /\ Cap <= Budget /\ Cap <= FileLimit
  BY FactsAssumption DEF Cap, Least
<1>2. file.size \in Nat
  BY DEF File
<1>3. Least(file.size, Cap) \in Nat /\ Least(file.size, Cap) <= Cap
  BY <1>1, <1>2 DEF Least
<1>4. CASE file.text
  <2>1. Extract(key, file) = [key |-> key, status |-> IF file.size > Cap THEN "cut" ELSE "read",
                              shown |-> Least(file.size, Cap)]
    BY <1>4 DEF Extract
  <2>2. Budget \in Int /\ FileLimit \in Int
    BY FactsAssumption
  <2>. HIDE DEF Budget
  <2>. QED
    BY <1>1, <1>3, <2>1, <2>2 DEF Ref
<1>5. CASE ~file.text
  <2>1. Extract(key, file) = [key |-> key, status |-> "no text", shown |-> 0]
    BY <1>5 DEF Extract, Unread
  <2>2. 0 <= Budget /\ 0 <= FileLimit
    BY FactsAssumption
  <2>3. ASSUME NEW r, r = [key |-> key, status |-> "no text", shown |-> 0]
        PROVE  r \in Ref /\ r.key = key /\ r.status = "no text" /\ r.shown = 0
    BY <2>3 DEF Ref
  <2>. QED
    BY <2>1, <2>2, <2>3
<1>. QED
  BY <1>4, <1>5

(* Nothing has been asked for at first.                                    *)
LEMMA TypeInit == Init => TypeOK
<1>. SUFFICES ASSUME Init PROVE TypeOK
  OBVIOUS
<1>1. BackfillTypeOK
  BY PaidInit DEF PaidInv
<1>2. BucketTypeOK
  BY BucketAssumption DEF Init, BucketInit, BucketTypeOK, Keys
<1>3. listed \in Seq(Keys) /\ refs \in Seq(Ref)
  BY DEF Init
<1>4. faults \in Nat /\ groupErr \in BOOLEAN
  BY DEF Init
<1>5. branch \in Branches /\ known \subseteq Keys
  BY DEF Init, Off, Branches, Ended
<1>. QED
  BY <1>1, <1>2, <1>3, <1>4, <1>5 DEF Init, TypeOK

(* Each read and each failure of one keeps the types.                      *)
LEMMA StageTypes ==
  ASSUME TypeOK, NEW b \in {"history", "evidence", "precedent", "rates"},
         NEW stage \in {"reading", "read", "failed"}, Put(b, stage)
  PROVE  /\ branch' \in Branches
         /\ branch'.history = IF b = "history" THEN stage ELSE branch.history
         /\ branch'.evidence = IF b = "evidence" THEN stage ELSE branch.evidence
BY DEF TypeOK, Put, Branches, Ended

LEMMA FaultTypes ==
  ASSUME TypeOK, CallFails
  PROVE  faults' \in Nat
BY DEF TypeOK, CallFails, Fault

LEMMA SinksTypes ==
  ASSUME TypeOK, NEW b \in {"history", "evidence"}, Sinks(b)
  PROVE  /\ branch' \in Branches
         /\ branch'.history = IF b = "history" THEN "failed" ELSE branch.history
         /\ branch'.evidence = IF b = "evidence" THEN "failed" ELSE branch.evidence
         /\ groupErr' = TRUE
         /\ faults' \in Nat
<1>1. Put(b, "failed") /\ CallFails /\ groupErr' = TRUE
  BY DEF Sinks
<1>. QED
  BY <1>1, StageTypes, FaultTypes

-----------------------------------------------------------------------------
(* The record and the block.                                               *)

(* The files are read in the order they were listed in.                    *)
Keyed ==
  /\ Len(refs) <= Len(listed)
  /\ \A i \in 1..Len(refs) : refs[i].key = listed[i]
  /\ branch.evidence \in {"off", "listing"} => refs = <<>>

(* None is left over when the reading is done.                             *)
Finished == branch.evidence = "read" => Len(refs) = Len(listed)

(* What was listed is still there to be fetched.                           *)
InBucket == \A i \in 1..Len(listed) : listed[i] \in DOMAIN objects

(* What was there when the record was asked for is there, and is listed.   *)
KnownListed ==
  /\ known \subseteq DOMAIN objects
  /\ branch.evidence \in {"reading", "read"} =>
       \A key \in known : \E i \in 1..Len(listed) : listed[i] = key

(* The block is full when a file is left out of it.                        *)
FullWhenLeftOut ==
  (\E i \in 1..Len(refs) : refs[i].status = "block full") => Shown = BlockLimit

RecordInv ==
  /\ TypeOK
  /\ Keyed /\ Finished /\ InBucket /\ KnownListed
  /\ Shown \in Nat
  /\ FullWhenLeftOut
  /\ FitsBlock

LEMMA RecordInit == Init => RecordInv
<1>. SUFFICES ASSUME Init PROVE RecordInv
  OBVIOUS
<1>1. refs = <<>> /\ listed = <<>> /\ known = {} /\ branch.evidence = "off"
  BY DEF Init, Off
<1>2. Shown = 0
  BY <1>1, ShownByNone DEF Shown
<1>. QED
  BY <1>1, <1>2, TypeInit, FactsAssumption DEF RecordInv, Keyed, Finished, InBucket,
     KnownListed, FullWhenLeftOut, FitsBlock

(* As long as no file is read or listed, it is enough that the reading     *)
(* ends only when all of it is read.                                       *)
LEMMA SameFiles ==
  ASSUME RecordInv, TypeOK', UNCHANGED <<listed, refs, known>>,
         DOMAIN objects \subseteq DOMAIN objects',
         \/ branch'.evidence = branch.evidence
         \/ branch'.evidence = "failed"
         \/ /\ branch.evidence = "reading" /\ branch'.evidence = "read"
            /\ Len(refs) = Len(listed)
  PROVE  RecordInv'
<1>. USE DEF RecordInv
<1>1. Keyed' /\ Finished'
  BY DEF Keyed, Finished, TypeOK
<1>2. InBucket' /\ KnownListed'
  BY DEF InBucket, KnownListed
<1>3. (Shown \in Nat)' /\ FullWhenLeftOut' /\ FitsBlock'
  <2>1. \A r : ShownBy(r)' = ShownBy(r)
    BY DEF ShownBy
  <2>2. Shown' = Shown
    BY <2>1 DEF Shown
  <2>. QED
    BY <2>1, <2>2 DEF FullWhenLeftOut, FitsBlock
<1>. QED
  BY <1>1, <1>2, <1>3

(* What a list shows up to some place is not changed by what comes after.  *)
LEMMA PrefixKept ==
  ASSUME NEW some \in Seq(Ref), NEW ref \in Ref, NEW i \in 1..Len(some) + 1
  PROVE  SubSeq(Append(some, ref), 1, i - 1) = SubSeq(some, 1, i - 1)
<1>. DEFINE more == Append(some, ref)
            s == SubSeq(some, 1, i - 1)
            t == SubSeq(more, 1, i - 1)
<1>1. Len(some) \in Nat /\ Len(more) = Len(some) + 1 /\ more \in Seq(Ref)
      /\ \A j \in 1..Len(some) : more[j] = some[j]
  BY AppendProperties, LenProperties
<1>. HIDE DEF more
<1>2. /\ \A j \in 1..i - 1 : some[j] \in Ref
      /\ \A j \in 1..i - 1 : more[j] \in Ref
  BY <1>1, ElementOfSeq
<1>3. /\ s \in Seq(Ref) /\ Len(s) = i - 1 /\ \A j \in 1..i - 1 : s[j] = some[j]
      /\ t \in Seq(Ref) /\ Len(t) = i - 1 /\ \A j \in 1..i - 1 : t[j] = more[j]
  BY <1>1, <1>2, SubSeqProperties
<1>. HIDE DEF s, t
<1>4. s = t
  <2>1. \A j \in 1..Len(s) : s[j] = t[j]
    BY <1>1, <1>3
  <2>. QED
    BY <1>3, <2>1, SeqEqual
<1>. QED
  BY <1>4 DEF s, t, more

(* What may be said of the next file: it is left out because the block is  *)
(* full, or it shows no more than one file may and the block has room for. *)
LeftOut(ref) == Budget <= 0 /\ ref.status = "block full" /\ ref.shown = 0

FitsIn(ref) ==
  /\ Budget > 0 /\ ref.status # "block full"
  /\ ref.shown <= Budget /\ ref.shown <= FileLimit

Continues(ref) ==
  /\ Len(refs) < Len(listed) /\ ref.key = listed[Len(refs) + 1]
  /\ refs' = Append(refs, ref)

(* One more file is read, or left out.                                     *)
LEMMA OneMoreFile ==
  ASSUME RecordInv, TypeOK', UNCHANGED <<listed, objects, branch, known>>,
         branch.evidence = "reading", NEW ref \in Ref, Continues(ref),
         LeftOut(ref) \/ FitsIn(ref)
  PROVE  RecordInv'
<1>. DEFINE n == Len(refs)
<1>1. /\ refs \in Seq(Ref) /\ n \in Nat /\ Len(listed) \in Nat
      /\ Len(refs') = n + 1 /\ refs'[n + 1] = ref
      /\ \A i \in 1..n : refs'[i] = refs[i]
  <2>1. refs \in Seq(Ref) /\ listed \in Seq(Keys)
    BY DEF RecordInv, TypeOK
  <2>2. n \in Nat /\ Len(listed) \in Nat
    BY <2>1, LenProperties
  <2>. QED
    BY <2>1, <2>2, AppendProperties DEF Continues, n
<1>. HIDE DEF n
<1>2. ref.shown \in Nat /\ BlockLimit \in Nat /\ FileLimit \in Nat
  BY FactsAssumption DEF Ref
<1>room. \/ Budget <= 0 /\ ref.shown = 0
         \/ Budget > 0 /\ ref.shown <= Budget /\ ref.shown <= FileLimit
  BY DEF LeftOut, FitsIn
<1>full. Budget <= 0 => ref.status = "block full"
  <2>1. Budget \in Int
    BY <1>2 DEF RecordInv, Budget
  <2>2. Budget <= 0 => ~ (Budget > 0)
    BY <2>1
  <2>. QED
    BY <2>2 DEF LeftOut, FitsIn
<1>either. Budget <= 0 \/ (Budget > 0 /\ ref.status # "block full")
  BY DEF LeftOut, FitsIn
<1>3. Keyed' /\ Finished' /\ InBucket' /\ KnownListed'
  <2>1. n < Len(listed) /\ ref.key = listed[n + 1]
    BY DEF Continues, n
  <2>2. \A i \in 1..n : refs[i].key = listed[i]
    BY DEF RecordInv, Keyed, n
  <2>3. \A i \in 1..n + 1 : refs'[i].key = listed[i]
    BY <1>1, <2>1, <2>2
  <2>. QED
    BY <1>1, <2>1, <2>3 DEF RecordInv, Keyed, Finished, InBucket, KnownListed
<1>4. Shown' = Shown + ref.shown
  <2>1. ShownBy(Append(refs, ref)) = ShownBy(refs) + ref.shown
    BY <1>1, ShownByAppend
  <2>2. ShownBy(refs)' = ShownBy(Append(refs, ref))
    BY DEF ShownBy, Continues
  <2>. QED
    BY <2>1, <2>2 DEF Shown
<1>5. Shown \in Nat /\ Shown <= BlockLimit /\ Budget = BlockLimit - Shown
  BY DEF RecordInv, FitsBlock, Budget
<1>6. Shown' \in Nat /\ Shown' <= BlockLimit
  BY <1>2, <1>4, <1>5, <1>room
<1>7. Budget > 0 => \A i \in 1..n : refs[i].status # "block full"
  <2>1. Budget > 0 => Shown # BlockLimit
    BY <1>2, <1>5
  <2>. QED
    BY <2>1 DEF RecordInv, FullWhenLeftOut, n
<1>8. Budget <= 0 => Shown = BlockLimit /\ Shown' = BlockLimit
  BY <1>2, <1>4, <1>5, <1>room
<1>9. Budget <= 0 \/ \A i \in 1..n + 1 : refs'[i].status # "block full"
  <2>1. \A i \in 1..n + 1 : i \in 1..n \/ i = n + 1
    BY <1>1
  <2>2. CASE Budget > 0 /\ ref.status # "block full"
    BY <1>1, <1>7, <2>1, <2>2
  <2>. QED
    BY <1>either, <2>2
<1>10. FullWhenLeftOut'
  BY <1>1, <1>8, <1>9 DEF FullWhenLeftOut
<1>11. FitsBlock'
  <2>1. ASSUME NEW i \in 1..n + 1, refs'[i].status = "block full"
        PROVE  ShownBy(SubSeq(refs', 1, i - 1)) = BlockLimit
    <3>1. SubSeq(refs', 1, i - 1) = SubSeq(refs, 1, i - 1)
      BY <1>1, PrefixKept DEF n
    <3>2. CASE i \in 1..n
      BY <1>1, <2>1, <3>1, <3>2 DEF RecordInv, FitsBlock, n
    <3>3. CASE i = n + 1
      <4>1. SubSeq(refs, 1, n) = refs /\ i - 1 = n
        BY <1>1, <3>3, SubSeqFull DEF n
      <4>2. Shown = BlockLimit
        BY <1>8, <1>9, <2>1
      <4>. QED
        BY <3>1, <4>1, <4>2 DEF Shown
    <3>. QED
      BY <1>1, <3>2, <3>3
  <2>2. ASSUME NEW i \in 1..n + 1, refs'[i].status = "block full", NEW j \in i..n + 1
        PROVE  refs'[j].status = "block full"
    <3>1. Budget <= 0
      BY <1>9, <2>2
    <3>2. ref.status = "block full"
      BY <1>full, <3>1
    <3>3. CASE j = n + 1
      BY <1>1, <3>2, <3>3
    <3>4. CASE j \in 1..n
      <4>1. i \in 1..n /\ j \in i..n
        BY <1>1, <3>4
      <4>2. refs[j].status = "block full"
        BY <1>1, <2>2, <4>1 DEF RecordInv, FitsBlock, n
      <4>. QED
        BY <1>1, <3>4, <4>2
    <3>5. j = n + 1 \/ j \in 1..n
      BY <1>1
    <3>. QED
      BY <3>3, <3>4, <3>5
  <2>3. \A i \in 1..n + 1 : refs'[i].shown <= FileLimit
    <3>1. ref.shown <= FileLimit
      BY <1>2, <1>room
    <3>2. \A i \in 1..n : refs[i].shown <= FileLimit
      BY DEF RecordInv, FitsBlock, n
    <3>. QED
      BY <1>1, <3>1, <3>2
  <2>4. \A i \in 1..n + 1 : ShownBy(SubSeq(refs, 1, i - 1))' = ShownBy(SubSeq(refs', 1, i - 1))
    BY DEF ShownBy
  <2>. QED
    BY <1>1, <1>6, <2>1, <2>2, <2>3, <2>4 DEF FitsBlock
<1>. QED
  BY <1>3, <1>6, <1>10, <1>11 DEF RecordInv

(* The evidence, and its failures.                                         *)
LEMMA EvidenceStep ==
  ASSUME RecordInv, UNCHANGED <<backfillVars, bucketVars>>,
         ListFiles \/ ReadFile \/ LoseBody \/ EvidenceRead \/ EvidenceFails
  PROVE  RecordInv'
<1>. DEFINE key == listed[Len(refs) + 1]
<1>0. /\ TypeOK /\ Budget \in Int
      /\ listed \in Seq(Keys) /\ refs \in Seq(Ref)
      /\ Len(listed) \in Nat /\ Len(refs) \in Nat
      /\ \A i \in 1..Len(listed) : listed[i] \in Keys /\ listed[i] \in DOMAIN objects
  <2>1. TypeOK /\ listed \in Seq(Keys) /\ refs \in Seq(Ref)
    BY DEF RecordInv, TypeOK
  <2>2. Budget \in Int
    BY FactsAssumption DEF RecordInv, Budget
  <2>3. \A i \in 1..Len(listed) : listed[i] \in Keys
    BY <2>1, ElementOfSeq
  <2>. QED
    BY <2>1, <2>2, <2>3, LenProperties DEF RecordInv, InBucket
<1>1. BackfillTypeOK' /\ BucketTypeOK' /\ objects' = objects
  BY <1>0 DEF TypeOK, BackfillTypeOK, BucketTypeOK, backfillVars, bucketVars
<1>2. ASSUME Len(refs) < Len(listed)
      PROVE  key \in Keys /\ key \in DOMAIN objects
  BY <1>0, <1>2
<1>3. CASE ListFiles
  <2>1. /\ listed' \in Seq(Keys)
        /\ \A i \in 1..Len(listed') : listed'[i] \in DOMAIN objects
        /\ \A k \in DOMAIN objects : \E i \in 1..Len(listed') : listed'[i] = k
    BY <1>0, <1>3, ListingOfFiles DEF ListFiles, TypeOK
  <2>2. Put("evidence", "reading") /\ branch.evidence = "listing"
        /\ UNCHANGED <<subject, groupErr, refs, known, faults>>
    BY <1>3 DEF ListFiles
  <2>3. TypeOK' /\ branch'.evidence = "reading"
    BY <1>0, <1>1, <2>1, <2>2, StageTypes DEF TypeOK
  <2>4. refs = <<>> /\ refs' = <<>>
    BY <2>2 DEF RecordInv, Keyed
  <2>5. Keyed' /\ Finished' /\ InBucket' /\ KnownListed'
    <3>1. Len(refs') = 0 /\ Len(listed') \in Nat
      BY <2>1, <2>4, LenProperties
    <3>2. Keyed' /\ Finished' /\ InBucket'
      BY <1>1, <2>1, <2>3, <2>4, <3>1 DEF Keyed, Finished, InBucket
    <3>3. known' = known /\ known \subseteq DOMAIN objects
      BY <2>2 DEF RecordInv, KnownListed
    <3>. QED
      BY <1>1, <2>1, <3>2, <3>3 DEF KnownListed
  <2>6. (Shown \in Nat)' /\ FullWhenLeftOut' /\ FitsBlock'
    <3>1. ShownBy(refs)' = ShownBy(<<>>)
      BY <2>4 DEF ShownBy
    <3>2. Shown' = 0
      BY <3>1, ShownByNone DEF Shown
    <3>. QED
      BY <2>4, <3>2, FactsAssumption DEF FullWhenLeftOut, FitsBlock
  <2>. QED
    BY <2>3, <2>5, <2>6 DEF RecordInv
<1>4. ASSUME NEW ref \in Ref, Continues(ref), LeftOut(ref) \/ FitsIn(ref),
             branch.evidence = "reading", faults' \in Nat,
             UNCHANGED <<subject, branch, groupErr, listed, known>>
      PROVE  RecordInv'
  <2>1. refs' \in Seq(Ref)
    BY <1>0, <1>4, AppendProperties DEF Continues
  <2>2. TypeOK'
    BY <1>0, <1>1, <1>4, <2>1 DEF TypeOK
  <2>. QED
    BY <1>1, <1>4, <2>2, OneMoreFile
<1>5. CASE ReadFile
  <2>. DEFINE ref == IF Budget <= 0 THEN Unread(key, "block full")
                     ELSE Extract(key, objects[key])
  <2>1. /\ Len(refs) < Len(listed) /\ refs' = Append(refs, ref)
        /\ branch.evidence = "reading" /\ faults' \in Nat
        /\ UNCHANGED <<subject, branch, groupErr, listed, known>>
    BY <1>0, <1>5 DEF ReadFile, TypeOK
  <2>2. CASE Budget <= 0
    <3>1. ASSUME NEW r, r = [key |-> key, status |-> "block full", shown |-> 0]
          PROVE  r \in Ref /\ r.key = key /\ r.status = "block full" /\ r.shown = 0
      BY <1>2, <2>1, <3>1 DEF Ref
    <3>2. ref \in Ref /\ ref.key = key /\ LeftOut(ref)
      BY <2>2, <3>1 DEF Unread, LeftOut
    <3>. HIDE DEF ref
    <3>. QED
      BY <1>4, <2>1, <3>2 DEF Continues
  <2>3. CASE ~ (Budget <= 0)
    <3>1. Budget > 0 /\ objects[key] \in File /\ key \in Keys
      BY <1>0, <1>2, <2>1, <2>3 DEF TypeOK, BucketTypeOK
    <3>2. ref \in Ref /\ ref.key = key /\ FitsIn(ref)
      <4>. HIDE DEF key
      <4>. QED BY <1>0, <2>3, <3>1, ExtractBounds DEF FitsIn
    <3>. HIDE DEF ref
    <3>. QED
      BY <1>4, <2>1, <3>2 DEF Continues
  <2>. QED
    BY <2>2, <2>3
<1>6. CASE LoseBody
  <2>. DEFINE ref == Unread(key, "lost")
  <2>1. /\ Len(refs) < Len(listed) /\ refs' = Append(refs, ref) /\ Budget > 0
        /\ branch.evidence = "reading" /\ faults' \in Nat
        /\ UNCHANGED <<subject, branch, groupErr, listed, known>>
    BY <1>0, <1>6, FaultTypes DEF LoseBody
  <2>2. ASSUME NEW r, r = [key |-> key, status |-> "lost", shown |-> 0]
        PROVE  r \in Ref /\ r.key = key /\ r.status # "block full" /\ r.shown = 0
    BY <1>2, <2>1, <2>2 DEF Ref
  <2>3. ref \in Ref /\ ref.key = key /\ ref.status # "block full" /\ ref.shown = 0
    BY <2>2 DEF Unread
  <2>. HIDE DEF ref, key
  <2>4. ref.shown <= Budget /\ ref.shown <= FileLimit
    <3>1. ref.shown = 0
      BY <2>3
    <3>. QED
      BY <1>0, <2>1, <3>1, FactsAssumption
  <2>5. FitsIn(ref)
    BY <2>1, <2>3, <2>4 DEF FitsIn
  <2>. QED
    BY <1>4, <2>1, <2>3, <2>5 DEF Continues, key
<1>7. CASE EvidenceRead
  <2>1. /\ Put("evidence", "read") /\ Len(refs) = Len(listed) /\ branch.evidence = "reading"
        /\ UNCHANGED <<subject, groupErr, listed, refs, known, faults>>
    BY <1>7 DEF EvidenceRead
  <2>2. TypeOK' /\ branch'.evidence = "read"
    BY <1>0, <1>1, <2>1, StageTypes DEF TypeOK
  <2>. QED
    BY <1>1, <2>1, <2>2, SameFiles
<1>8. CASE EvidenceFails
  <2>1. Sinks("evidence") /\ UNCHANGED <<subject, listed, refs, known>>
    BY <1>8 DEF EvidenceFails, EvidenceSinks
  <2>2. TypeOK' /\ branch'.evidence = "failed"
    BY <1>0, <1>1, <2>1, SinksTypes DEF TypeOK
  <2>. QED
    BY <1>1, <2>1, <2>2, SameFiles
<1>. QED
  BY <1>3, <1>5, <1>6, <1>7, <1>8

(* The other reads leave the evidence alone.                               *)
LEMMA OtherReadsStep ==
  ASSUME RecordInv, UNCHANGED <<backfillVars, bucketVars>>,
         \/ ReadHistory \/ HistoryFails
         \/ \E b \in Extras : ReadExtra(b) \/ ExtraFails(b)
  PROVE  RecordInv'
<1>0. TypeOK
  BY DEF RecordInv, TypeOK
<1>1. BackfillTypeOK' /\ BucketTypeOK' /\ objects' = objects
  BY <1>0 DEF TypeOK, BackfillTypeOK, BucketTypeOK, backfillVars, bucketVars
<1>2. ASSUME TypeOK', UNCHANGED <<listed, refs, known>>,
             branch'.evidence = branch.evidence
      PROVE  RecordInv'
  BY <1>1, <1>2, SameFiles
<1>3. CASE ReadHistory
  <2>1. TypeOK' /\ branch'.evidence = branch.evidence
    BY <1>0, <1>1, <1>3, StageTypes DEF ReadHistory, TypeOK
  <2>. QED
    BY <1>2, <1>3, <2>1 DEF ReadHistory
<1>4. CASE HistoryFails
  <2>1. TypeOK' /\ branch'.evidence = branch.evidence
    BY <1>0, <1>1, <1>4, SinksTypes DEF HistoryFails, TypeOK
  <2>. QED
    BY <1>2, <1>4, <2>1 DEF HistoryFails
<1>5. ASSUME NEW b \in Extras, ReadExtra(b) \/ ExtraFails(b)
      PROVE  RecordInv'
  <2>0. b \in {"precedent", "rates"}
    BY FactsAssumption
  <2>1. PICK stage \in {"read", "failed"} : Put(b, stage)
    BY <1>5 DEF ReadExtra, ExtraFails
  <2>2. UNCHANGED <<subject, groupErr, listed, refs, known>> /\ faults' \in Nat
    BY <1>0, <1>5, FaultTypes DEF ReadExtra, ExtraFails, TypeOK
  <2>3. branch' \in Branches /\ branch'.evidence = branch.evidence
    BY <1>0, <2>0, <2>1, StageTypes
  <2>4. TypeOK'
    BY <1>0, <1>1, <2>2, <2>3 DEF TypeOK
  <2>. QED
    BY <1>2, <2>2, <2>3, <2>4
<1>. QED
  BY <1>3, <1>4, <1>5

(* A new record starts from nothing, and so does the next.                 *)
LEMMA FreshRecord ==
  ASSUME RecordInv, UNCHANGED <<backfillVars, bucketVars, faults>>,
         (\E d \in Drafted : Ask(d)) \/ Answer
  PROVE  RecordInv'
<1>1. BackfillTypeOK' /\ BucketTypeOK'
  BY DEF RecordInv, TypeOK, BackfillTypeOK, BucketTypeOK, backfillVars, bucketVars
<1>2. /\ listed' = <<>> /\ refs' = <<>> /\ groupErr' = FALSE
      /\ known' \subseteq DOMAIN objects /\ objects' = objects
      /\ branch'.evidence \in {"off", "listing"}
      /\ subject' \in Disputes \cup {None}
  BY FactsAssumption DEF Ask, Answer, Off, bucketVars
<1>3. branch' \in Branches
  BY DEF Ask, Answer, Off, IfAny, Branches, Ended
<1>4. known' \subseteq Keys
  BY <1>2 DEF RecordInv, TypeOK, BucketTypeOK
<1>5. listed' \in Seq(Keys) /\ refs' \in Seq(Ref) /\ faults' \in Nat
  BY <1>2 DEF RecordInv, TypeOK
<1>6. TypeOK'
  BY <1>1, <1>2, <1>3, <1>4, <1>5 DEF TypeOK
<1>7. ShownBy(refs)' = 0
  <2>1. ShownBy(refs)' = ShownBy(<<>>)
    BY <1>2 DEF ShownBy
  <2>. QED
    BY <2>1, ShownByNone
<1>8. Keyed' /\ Finished' /\ InBucket' /\ KnownListed'
  BY <1>2 DEF Keyed, Finished, InBucket, KnownListed
<1>9. (Shown \in Nat)' /\ FullWhenLeftOut'
  BY <1>2, <1>7 DEF FullWhenLeftOut, Shown
<1>10. FitsBlock'
  <2>1. Len(refs') = 0
    BY <1>2
  <2>. QED
    BY <1>7, <2>1, FactsAssumption DEF FitsBlock, Shown
<1>. QED
  BY <1>6, <1>8, <1>9, <1>10 DEF RecordInv

(* Beside the reads, files are uploaded, cases end and the backfill runs.  *)
LEMMA RecordStep ==
  ASSUME RecordInv, PaidInv', [Next]_vars
  PROVE  RecordInv'
<1>0. BackfillTypeOK' /\ TypeOK
  BY DEF PaidInv, RecordInv
<1>1. CASE \E d \in Drafted : Ask(d) /\ UNCHANGED <<backfillVars, bucketVars>>
  BY <1>1, FreshRecord DEF Ask
<1>2. CASE Reading
  <2>1. ReadNext /\ UNCHANGED <<backfillVars, bucketVars>>
    BY <1>2 DEF Reading
  <2>2. CASE Answer
    BY <2>1, <2>2, FreshRecord DEF Answer
  <2>. QED
    BY <2>1, <2>2, EvidenceStep, OtherReadsStep DEF ReadNext
<1>3. CASE UNCHANGED <<bucketVars, readVars, faults>>
  <2>1. TypeOK' /\ objects' = objects
    BY <1>0, <1>3 DEF TypeOK, BucketTypeOK, bucketVars, readVars
  <2>. QED
    BY <1>3, <2>1, SameFiles DEF readVars
<1>4. CASE BucketNext /\ UNCHANGED <<backfillVars, readVars, faults>>
  <2>1. BucketTypeOK' /\ DOMAIN objects \subseteq DOMAIN objects'
    BY <1>0, <1>4, UploadTypes DEF TypeOK
  <2>2. TypeOK'
    BY <1>0, <1>4, <2>1 DEF TypeOK, readVars
  <2>. QED
    BY <1>4, <2>1, <2>2, SameFiles DEF readVars
<1>5. CASE UNCHANGED vars
  BY <1>3, <1>5 DEF vars
<1>. QED
  BY <1>1, <1>2, <1>3, <1>4, <1>5 DEF Next

LEMMA RecordInvariance == Spec => []RecordInv
<1>1. Init => RecordInv
  BY RecordInit
<1>2. RecordInv /\ PaidInv' /\ [Next]_vars => RecordInv'
  BY RecordStep
<1>. QED
  BY <1>1, <1>2, PaidInvariance, PTL DEF Spec

(* Whatever is uploaded, ended or embedded meanwhile, each part of the     *)
(* record is of its type.                                                  *)
THEOREM RecordTypes == Spec => []TypeOK
<1>1. RecordInv => TypeOK
  BY DEF RecordInv
<1>. QED
  BY <1>1, RecordInvariance, PTL

(* Once a record is asked for the two reads it needs are under way, and it *)
(* is an error exactly when one of them has failed.                        *)
GroupInv ==
  /\ subject # None => branch.history # "off" /\ branch.evidence # "off"
  /\ groupErr <=> branch.history = "failed" \/ branch.evidence = "failed"

LEMMA GroupStep ==
  ASSUME TypeOK, GroupInv, [Next]_vars
  PROVE  GroupInv'
<1>. USE DEF GroupInv
<1>1. CASE \E d \in Drafted : Ask(d)
  BY <1>1 DEF Ask
<1>2. CASE Answer
  BY <1>2 DEF Answer, Off
<1>3. CASE ReadHistory \/ ListFiles \/ EvidenceRead
  <2>1. PICK b \in {"history", "evidence"}, stage \in {"reading", "read"} :
          Put(b, stage) /\ branch[b] # "failed"
    BY <1>3 DEF ReadHistory, ListFiles, EvidenceRead
  <2>2. /\ branch'.history = IF b = "history" THEN stage ELSE branch.history
        /\ branch'.evidence = IF b = "evidence" THEN stage ELSE branch.evidence
    BY <2>1, StageTypes
  <2>3. UNCHANGED <<subject, groupErr>>
    BY <1>3 DEF ReadHistory, ListFiles, EvidenceRead
  <2>. QED BY <2>1, <2>2, <2>3
<1>4. CASE HistoryFails \/ EvidenceFails
  <2>1. PICK b \in {"history", "evidence"} : Sinks(b)
    BY <1>4 DEF HistoryFails, EvidenceFails, EvidenceSinks
  <2>2. UNCHANGED subject
    BY <1>4 DEF HistoryFails, EvidenceFails
  <2>. QED BY <2>1, <2>2, SinksTypes
<1>5. CASE \E b \in Extras : ReadExtra(b) \/ ExtraFails(b)
  <2>1. PICK b \in {"precedent", "rates"}, stage \in {"read", "failed"} : Put(b, stage)
    BY <1>5, FactsAssumption DEF ReadExtra, ExtraFails
  <2>2. UNCHANGED <<subject, groupErr>>
    BY <1>5 DEF ReadExtra, ExtraFails
  <2>. QED BY <2>1, <2>2, StageTypes
<1>6. CASE ReadFile \/ LoseBody
  <2>1. UNCHANGED <<subject, branch, groupErr>>
    BY <1>6 DEF ReadFile, LoseBody
  <2>. QED BY <2>1
<1>7. CASE UNCHANGED readVars
  BY <1>7 DEF readVars
<1>. QED
  BY <1>1, <1>2, <1>3, <1>4, <1>5, <1>6, <1>7 DEF Next, Reading, ReadNext, vars

(* A record that comes without an error was read in full: it has the       *)
(* history, and accounts for every file listed and every file known; and   *)
(* no failure but that of the two reads it needs makes it an error.        *)
THEOREM RecordWholeHolds == Spec => []RecordWhole
<1>1. Init => GroupInv
  BY DEF Init, Off, GroupInv
<1>2. RecordInv /\ GroupInv /\ [Next]_vars => GroupInv'
  BY GroupStep DEF RecordInv
<1>3. RecordInv /\ GroupInv => RecordWhole
  <2>. SUFFICES ASSUME RecordInv, GroupInv, subject # None, AllEnded
                PROVE  IF groupErr THEN "failed" \in {branch.history, branch.evidence}
                       ELSE /\ branch.history = "read" /\ branch.evidence = "read"
                            /\ [i \in 1..Len(refs) |-> refs[i].key] = listed
                            /\ \A key \in known : \E i \in 1..Len(refs) : refs[i].key = key
    BY DEF RecordWhole
  <2>1. branch.history \in Ended /\ branch.evidence \in Ended
    BY DEF RecordInv, TypeOK, Branches, AllEnded
  <2>2. CASE groupErr
    BY <2>2 DEF GroupInv
  <2>3. CASE ~groupErr
    <3>1. branch.history = "read" /\ branch.evidence = "read"
      BY <2>1, <2>3 DEF GroupInv, Ended
    <3>2. Len(refs) = Len(listed) /\ \A i \in 1..Len(refs) : refs[i].key = listed[i]
      BY <3>1 DEF RecordInv, Finished, Keyed
    <3>3. listed \in Seq(Keys)
      BY DEF RecordInv, TypeOK
    <3>4. listed = [i \in 1..Len(listed) |-> listed[i]]
      BY <3>3
    <3>5. \A key \in known : \E i \in 1..Len(listed) : listed[i] = key
      BY <3>1 DEF RecordInv, KnownListed
    <3>. QED BY <2>3, <3>1, <3>2, <3>4, <3>5
  <2>. QED BY <2>2, <2>3
<1>. QED
  BY <1>1, <1>2, <1>3, RecordInvariance, PTL DEF Spec

(* The block keeps to its limit, whatever the limits and the files are,    *)
(* and a file is left out of it only when it is full.                      *)
THEOREM FitsBlockHolds == Spec => []FitsBlock
<1>1. RecordInv => FitsBlock
  BY DEF RecordInv
<1>. QED
  BY <1>1, RecordInvariance, PTL
=============================================================================
