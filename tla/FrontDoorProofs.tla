--------------------------- MODULE FrontDoorProofs ---------------------------
(***************************************************************************)
(* Proofs about FrontDoor and its TokenBucket, for any deliveries, keys,   *)
(* times, clocks, rates and bounds.                                        *)
(***************************************************************************)
EXTENDS FrontDoor, FiniteSetTheorems, TLAPS

-----------------------------------------------------------------------------
(* The bucket of any number of instances: arithmetic.                      *)

(* What a full bucket is worth.                                            *)
LEMMA FullTyped == Full \in Nat /\ Token <= Full /\ Ttl \in Nat
<1>1. Full \in Nat /\ Full = Token * Burst
  BY BucketAssumption DEF Full
<1>2. Token <= Token * Burst
  BY BucketAssumption
<1> QED BY <1>1, <1>2, BucketAssumption DEF Ttl

(* More time refills more.                                                 *)
LEMMA MoreTime ==
  ASSUME NEW m \in Int, NEW n \in Int, m <= n
  PROVE  Rate * m <= Rate * n /\ Rate * m \in Int /\ Rate * n \in Int
<1> DEFINE d == n - m
<1>1. d \in Nat /\ n = m + d
  OBVIOUS
<1>2. Rate * d \in Nat
  BY <1>1, BucketAssumption
<1>3. Rate * (m + d) = Rate * m + Rate * d
  BY <1>1, BucketAssumption
<1>4. Rate * m \in Int /\ Rate * n \in Int
  BY BucketAssumption
<1>5. Rate * n = Rate * m + Rate * d
  BY <1>1, <1>3
<1> QED BY <1>2, <1>4, <1>5

(* Two stretches of time refill what both of them do.                      *)
LEMMA Spread ==
  ASSUME NEW m \in Int, NEW n \in Int
  PROVE  Rate * (m + n) = Rate * m + Rate * n
BY BucketAssumption

(* One more admission is worth one more token.                             *)
LEMMA OneMoreToken ==
  ASSUME NEW n \in Nat
  PROVE  Token * (n + 1) = Token * n + Token /\ Token * n \in Nat
BY BucketAssumption

(* A refill keeps to the burst, and to the time that has passed.           *)
LEMMA RefillBounds ==
  ASSUME NEW had \in 0..Full, NEW elapsed \in Nat
  PROVE  /\ Refill(had, elapsed) \in 0..Full
         /\ Refill(had, elapsed) <= had + Rate * elapsed
<1>1. Rate * elapsed \in Nat
  BY BucketAssumption
<1> QED BY <1>1, FullTyped DEF Refill

-----------------------------------------------------------------------------
(* The bucket: the invariant.                                              *)

(* What has been let through since the window began is paid for out of one *)
(* burst and the refills the clock has seen since.                         *)
Paid ==
  admitted > 0 =>
    /\ now >= start
    /\ updated >= start
    /\ Token * admitted + tokens <= Full + Rate * (updated - start + back)

(* The clock of the last call was not far ahead of the time that Redis set *)
(* the key's expiry from.                                                  *)
LastCall ==
  /\ updated <= now + MaxSkew
  /\ admitted > 0 => updated + Ttl <= until + MaxSkew

IInv == BucketTypeOK /\ LastCall /\ Paid

(* A new bucket is paid for.                                               *)
LEMMA InitInv == BucketInit => IInv
BY FullTyped, BucketAssumption DEF BucketInit, IInv, BucketTypeOK, LastCall, Paid

(* What a call finds is no more than the burst.                            *)
LEMMA FoundBounds ==
  ASSUME BucketTypeOK, NEW clock \in Nat
  PROVE  Found(clock) \in 0..Full
<1>1. Positive(clock - updated) \in Nat
  BY DEF BucketTypeOK, Positive
<1>2. CASE Held
  BY <1>1, <1>2, RefillBounds DEF Found, BucketTypeOK
<1>3. CASE ~Held
  BY <1>3, FullTyped DEF Found
<1> QED BY <1>2, <1>3

(* An expired key that is made anew is worth no more than the refill of    *)
(* the time it has been left alone.                                        *)
LEMMA FoundPaid ==
  ASSUME IInv, admitted > 0, NEW clock \in Nat, clock >= now
  PROVE  Token * admitted + Found(clock)
           <= Full + Rate * (clock - start + back + Positive(updated - clock))
<1> DEFINE after == clock - start + back + Positive(updated - clock)
<1>0. /\ now \in Nat /\ tokens \in 0..Full /\ updated \in Nat /\ until \in Nat
      /\ start \in Nat /\ admitted \in Nat /\ back \in Nat
      /\ Token * admitted + tokens <= Full + Rate * (updated - start + back)
      /\ updated + Ttl <= until + MaxSkew
  BY DEF IInv, BucketTypeOK, Paid, LastCall
<1>1. Token * admitted \in Nat /\ Full \in Nat
  BY <1>0, OneMoreToken, FullTyped
<1>2. CASE Held
  <2> DEFINE elapsed == Positive(clock - updated)
  <2>1. elapsed \in Nat /\ after = (updated - start + back) + elapsed
    BY <1>0 DEF Positive
  <2>2. Found(clock) <= tokens + Rate * elapsed
    BY <1>0, <1>2, <2>1, RefillBounds DEF Found
  <2>3. Rate * after = Rate * (updated - start + back) + Rate * elapsed
    BY <1>0, <2>1, Spread
  <2>4. Rate * elapsed \in Int /\ Rate * (updated - start + back) \in Int
    BY <1>0, <2>1, BucketAssumption
  <2>5. Found(clock) \in Int
    BY FoundBounds DEF IInv
  <2> HIDE DEF elapsed, after
  <2>6. Token * admitted + Found(clock) <= Full + Rate * after
    BY <1>0, <1>1, <2>2, <2>3, <2>4, <2>5
  <2> QED BY <2>6 DEF after
<1>3. CASE ~Held
  <2>1. Found(clock) = Full
    BY <1>3 DEF Found
  <2>2. until <= clock
    BY <1>0, <1>3 DEF Held
  <2>3. updated + FullAfter <= clock
    BY <1>0, <2>2, BucketAssumption DEF Ttl
  <2>4. after \in Int /\ (updated - start + back) + FullAfter <= after
    BY <1>0, <2>3, BucketAssumption DEF Positive
  <2>5. /\ Rate * ((updated - start + back) + FullAfter) <= Rate * after
        /\ Rate * after \in Int
    <3> HIDE DEF after
    <3> QED BY <1>0, <2>4, MoreTime, BucketAssumption
  <2>6. Rate * ((updated - start + back) + FullAfter)
          = Rate * (updated - start + back) + Rate * FullAfter
    BY <1>0, Spread, BucketAssumption
  <2>7. Rate * FullAfter >= Full /\ Rate * FullAfter \in Int
    BY BucketAssumption DEF Full
  <2>8. Rate * (updated - start + back) \in Int
    BY <1>0, BucketAssumption
  <2> HIDE DEF after
  <2>9. Token * admitted + Full <= Full + Rate * after
    BY <1>0, <1>1, <2>5, <2>6, <2>7, <2>8
  <2> QED BY <2>1, <2>9 DEF after
<1> QED BY <1>2, <1>3

(* The script leaves what it lets through paid for.                        *)
LEMMA ScriptStep ==
  ASSUME IInv, NEW allowed \in BOOLEAN, NEW ahead \in 0..MaxSkew,
         Script(now + ahead, allowed), UNCHANGED now
  PROVE  IInv'
<1> DEFINE clock == now + ahead
<1>0. /\ BucketTypeOK /\ clock \in Nat /\ clock >= now
      /\ now \in Nat /\ tokens \in 0..Full /\ updated \in Nat /\ until \in Nat
      /\ start \in Nat /\ admitted \in Nat /\ back \in Nat
  BY BucketAssumption DEF IInv, BucketTypeOK
<1>1. Found(clock) \in 0..Full
  BY <1>0, FoundBounds
<1>2. /\ allowed = Enough(Found(clock))
      /\ tokens' = IF allowed THEN Found(clock) - Token ELSE Found(clock)
      /\ updated' = clock /\ until' = now + Ttl /\ start' = start /\ now' = now
      /\ admitted' = IF allowed /\ now >= start THEN admitted + 1 ELSE admitted
      /\ back' = IF now >= start THEN back + Positive(updated - clock) ELSE back
  BY DEF Script
<1>3. tokens' \in 0..Full
  <2> HIDE DEF clock
  <2>1. CASE allowed
    <3>1. Found(clock) >= Token /\ tokens' = Found(clock) - Token
      BY <1>2, <2>1 DEF Enough
    <3> QED BY <1>1, <3>1, FullTyped, BucketAssumption
  <2>2. CASE ~allowed
    BY <1>1, <1>2, <2>2
  <2> QED BY <2>1, <2>2
<1>4. BucketTypeOK'
  BY <1>0, <1>2, <1>3, FullTyped DEF BucketTypeOK, Positive
<1>5. LastCall'
  BY <1>0, <1>2, FullTyped, BucketAssumption DEF LastCall
<1>6. ASSUME admitted' > 0
      PROVE  Token * admitted' + tokens' <= Full + Rate * (updated' - start + back')
  <2>1. now >= start
    BY <1>0, <1>2, <1>6 DEF IInv, Paid
  <2>2. back' = back + Positive(updated - clock) /\ Positive(updated - clock) \in Nat
    BY <1>0, <1>2, <2>1 DEF Positive
  <2> DEFINE after == clock - start + back + Positive(updated - clock)
  <2>3. after \in Nat /\ after = updated' - start + back'
    BY <1>0, <1>2, <2>1, <2>2
  <2>4. Rate * after \in Nat
    <3> HIDE DEF after
    <3> QED BY <2>3, BucketAssumption
  <2>5. Token * admitted' + tokens' <= Token * admitted + Found(clock)
    <3> HIDE DEF clock
    <3>1. CASE allowed
      BY <1>0, <1>1, <1>2, <2>1, <3>1, OneMoreToken, BucketAssumption
    <3>2. CASE ~allowed
      BY <1>0, <1>1, <1>2, <3>2, OneMoreToken
    <3> QED BY <3>1, <3>2
  <2>6. Token * admitted + Found(clock) <= Full + Rate * after
    <3>1. CASE admitted > 0
      BY <1>0, <3>1, FoundPaid
    <3>2. CASE admitted = 0
      <4>1. Token * admitted = 0
        BY <3>2, BucketAssumption
      <4> HIDE DEF after, clock
      <4> QED BY <1>1, <2>4, <4>1, FullTyped
    <3> QED BY <1>0, <3>1, <3>2
  <2>7. /\ Token * admitted' \in Int /\ tokens' \in Int
        /\ Token * admitted \in Int /\ Found(clock) \in Int /\ Full \in Int
    BY <1>0, <1>1, <1>3, <1>4, BucketAssumption, FullTyped DEF BucketTypeOK
  <2> HIDE DEF after, clock
  <2>8. Token * admitted' + tokens' <= Full + Rate * after
    BY <2>4, <2>5, <2>6, <2>7
  <2> QED BY <2>3, <2>8
<1>7. Paid'
  <2>1. ASSUME admitted' > 0 PROVE now' >= start' /\ updated' >= start'
    BY <1>0, <1>2, <2>1 DEF IInv, Paid
  <2> QED BY <1>2, <1>6, <2>1 DEF Paid
<1> QED BY <1>4, <1>5, <1>7 DEF IInv

(* So does every step.                                                     *)
LEMMA StepInv == IInv /\ [BucketNext]_<<now, bucketVars>> => IInv'
<1> SUFFICES ASSUME IInv, [BucketNext]_<<now, bucketVars>> PROVE IInv'
  OBVIOUS
<1>1. CASE Tick /\ UNCHANGED bucketVars
  <2>1. /\ now \in Nat /\ now' = now + 1 /\ updated \in Nat
        /\ tokens' = tokens /\ updated' = updated /\ until' = until
        /\ start' = start /\ admitted' = admitted /\ back' = back
    BY <1>1 DEF Tick, bucketVars, IInv, BucketTypeOK
  <2>2. BucketTypeOK'
    BY <2>1 DEF IInv, BucketTypeOK
  <2>3. LastCall'
    BY <2>1, BucketAssumption DEF IInv, LastCall
  <2>4. Paid'
    BY <2>1 DEF IInv, Paid, BucketTypeOK
  <2> QED BY <2>2, <2>3, <2>4 DEF IInv
<1>2. ASSUME NEW allowed \in BOOLEAN, Allow(allowed), UNCHANGED now PROVE IInv'
  BY <1>2, ScriptStep DEF Allow
<1>3. CASE UNCHANGED <<now, bucketVars>>
  BY <1>3 DEF bucketVars, IInv, BucketTypeOK, LastCall, Paid
<1> QED BY <1>1, <1>2, <1>3 DEF BucketNext

(* What is paid for is bounded.                                            *)
LEMMA InvBounded == IInv => Bounded
<1> SUFFICES ASSUME IInv, now >= start
             PROVE  Token * admitted <= Full + Rate * (now + MaxSkew - start + back)
  BY DEF Bounded
<1>0. /\ now \in Nat /\ tokens \in 0..Full /\ updated \in Nat
      /\ start \in Nat /\ admitted \in Nat /\ back \in Nat
  BY DEF IInv, BucketTypeOK
<1> DEFINE after == now + MaxSkew - start + back
<1>1. after \in Nat
  BY <1>0, BucketAssumption
<1>2. Rate * after \in Nat
  <2> HIDE DEF after
  <2> QED BY <1>1, BucketAssumption
<1>3. CASE admitted = 0
  <2>1. Token * admitted = 0
    BY <1>3, BucketAssumption
  <2> QED BY <1>2, <2>1, FullTyped
<1>4. CASE admitted > 0
  <2>1. updated - start + back \in Int /\ updated - start + back <= after
    BY <1>0, BucketAssumption DEF IInv, LastCall
  <2>2. Rate * (updated - start + back) <= Rate * after /\ Rate * (updated - start + back) \in Int
    <3> HIDE DEF after
    <3> QED BY <1>1, <2>1, MoreTime
  <2>3. Token * admitted + tokens <= Full + Rate * (updated - start + back)
    BY <1>4 DEF IInv, Paid
  <2>4. Token * admitted \in Nat
    BY <1>0, OneMoreToken
  <2> HIDE DEF after
  <2>5. Token * admitted <= Full + Rate * after
    BY <1>0, <1>2, <2>2, <2>3, <2>4, FullTyped
  <2> QED BY <2>5 DEF after
<1> QED BY <1>0, <1>3, <1>4

(* The invariant holds throughout.                                         *)
LEMMA BucketInv == BucketSpec => []IInv
BY InitInv, StepInv, PTL DEF BucketSpec

(* A bucket lets through no more than its burst and what is refilled, in   *)
(* any window, with any clocks that are less than the minute apart that    *)
(* the key outlives a full refill.                                         *)
THEOREM NeverMoreThanRefilled == BucketSpec => []Bounded
BY BucketInv, InvBounded, PTL

(* A bucket holds between nothing and its burst.                           *)
THEOREM BucketTypes == BucketSpec => []BucketTypeOK
<1>1. IInv => BucketTypeOK
  BY DEF IInv
<1> QED BY BucketInv, <1>1, PTL

-----------------------------------------------------------------------------
(* The bucket: what this instance does to it is what an instance may do.   *)

LEMMA DrawsFromTheBucket ==
  ASSUME BucketTypeOK, [Next]_vars
  PROVE  [BucketNext]_<<now, bucketVars>>
<1>1. ASSUME NEW q \in Deliveries, Spend(q) \/ SpendFails(q)
      PROVE  [BucketNext]_<<now, bucketVars>>
  <2>1. UNCHANGED now
    BY <1>1 DEF Spend, SpendFails
  <2>2. (\E allowed \in BOOLEAN : Script(now, allowed)) \/ UNCHANGED bucketVars
    BY <1>1 DEF Spend, SpendFails
  <2>3. now + 0 = now /\ 0 \in 0..MaxSkew
    BY BucketAssumption DEF BucketTypeOK
  <2>4. ASSUME NEW allowed \in BOOLEAN, Script(now, allowed) PROVE Allow(allowed)
    BY <2>3, <2>4 DEF Allow
  <2> QED BY <2>1, <2>2, <2>4 DEF BucketNext
<1>2. CASE Pass
  BY <1>2 DEF Pass, BucketNext
<1>3. CASE OtherInstance
  BY <1>3 DEF OtherInstance, BucketNext
<1>4. CASE Rotate \/ UNCHANGED vars
  BY <1>4 DEF Rotate, vars
<1>5. ASSUME NEW q \in Deliveries,
             \/ Arrive(q) \/ TurnAway(q) \/ Lookup(q) \/ TakeRefresh(q) \/ ReadDocument(q)
             \/ KeepDocument(q) \/ LookAgain(q) \/ FetchFails(q)
      PROVE  UNCHANGED <<now, bucketVars>>
  BY <1>5 DEF Arrive, TurnAway, Lookup, TakeRefresh, ReadDocument, KeepDocument,
              LookAgain, FetchFails
<1> QED BY <1>1, <1>2, <1>3, <1>4, <1>5 DEF Next, Serve

LEMMA BucketHolds == Spec => []IInv
<1>1. Init => IInv
  BY InitInv DEF Init
<1>2. IInv /\ [Next]_vars => IInv'
  BY DrawsFromTheBucket, StepInv DEF IInv
<1> QED BY <1>1, <1>2, PTL DEF Spec

(* The limit of a merchant holds whatever this instance and others do.     *)
THEOREM LimitHolds == Spec => []Bounded
BY BucketHolds, InvBounded, PTL

-----------------------------------------------------------------------------
(* The rest of the types, by parts.                                        *)

KeysTyped ==
  /\ document \subseteq Keys \ {Forged}
  /\ changed \in [Keys -> Int]

CacheTyped ==
  /\ cache # None => cache.keys \subseteq Keys /\ cache.at \in 0..now /\ cache.took \in Nat
  /\ refresh \in Deliveries \cup {None}
  /\ began \in 0..now /\ got \subseteq Keys

RequestsTyped ==
  /\ stage \in [Deliveries -> Stage]
  /\ signed \in [Deliveries -> [by : Keys, at : Nat] \cup {None}]

CountsTyped == rotations \in Nat /\ called \in Nat /\ faults \in Nat

DoorTyped == KeysTyped /\ CacheTyped /\ RequestsTyped /\ CountsTyped

LEMMA Parts == TypeOK <=> BucketTypeOK /\ DoorTyped
BY DEF TypeOK, DoorTyped, KeysTyped, CacheTyped, RequestsTyped, CountsTyped

LEMMA InitTyped == Init => DoorTyped
<1> SUFFICES ASSUME Init PROVE DoorTyped
  OBVIOUS
<1>1. KeysTyped /\ RequestsTyped /\ CountsTyped
  BY FrontDoorAssumption DEF Init, KeysTyped, RequestsTyped, CountsTyped, LongAgo, Stage
<1>2. now \in Nat
  BY InitInv DEF Init, IInv, BucketTypeOK
<1>3. CacheTyped
  BY <1>2 DEF Init, CacheTyped
<1> QED BY <1>1, <1>3 DEF DoorTyped

LEMMA GoesTyped ==
  ASSUME RequestsTyped, NEW q \in Deliveries, NEW s \in Stage, Goes(q, s)
  PROVE  RequestsTyped' /\ stage' = [stage EXCEPT ![q] = s]
BY DEF RequestsTyped, Goes

LEMMA VerifyGoes ==
  ASSUME NEW q \in Deliveries, NEW keys, Verify(q, keys)
  PROVE  \E s \in {"verified", "unauthorized"} :
           /\ Goes(q, s)
           /\ s = "verified" <=> (~Stale(q) /\ signed[q].by \in keys)
BY DEF Verify

(* What an action leaves alone keeps its type.                             *)
LEMMA UntouchedTyped ==
  ASSUME DoorTyped
  PROVE  /\ UNCHANGED keyVars => KeysTyped'
         /\ UNCHANGED <<now, cacheVars>> => CacheTyped'
         /\ UNCHANGED <<stage, signed>> => RequestsTyped'
         /\ UNCHANGED <<rotations, called>> /\ (UNCHANGED faults \/ Fault) => CountsTyped'
BY DEF DoorTyped, keyVars, cacheVars, KeysTyped, CacheTyped, RequestsTyped, CountsTyped, Fault

LEMMA TypeStep ==
  ASSUME DoorTyped, BucketTypeOK, [Next]_vars
  PROVE  DoorTyped'
<1>0. now \in Nat
  BY DEF BucketTypeOK
<1>1. CASE Pass
  <2>1. CacheTyped'
    BY <1>0, <1>1 DEF Pass, Tick, cacheVars, DoorTyped, CacheTyped
  <2> QED BY <1>1, <2>1, UntouchedTyped DEF Pass, keyVars, DoorTyped
<1>2. CASE Rotate
  <2>1. KeysTyped' /\ CountsTyped'
    BY <1>0, <1>2 DEF Rotate, DoorTyped, KeysTyped, CountsTyped
  <2> QED BY <1>2, <2>1, UntouchedTyped DEF Rotate, DoorTyped
<1>3. CASE OtherInstance
  <2>1. CountsTyped'
    BY <1>3 DEF OtherInstance, keyVars, DoorTyped, CountsTyped
  <2> QED BY <1>3, <2>1, UntouchedTyped DEF OtherInstance, DoorTyped
<1>4. ASSUME NEW q \in Deliveries, Arrive(q) PROVE DoorTyped'
  <2>1. RequestsTyped'
    BY <1>0, <1>4, FrontDoorAssumption DEF Arrive, DoorTyped, RequestsTyped, Stage
  <2> QED BY <1>4, <2>1, UntouchedTyped DEF Arrive, keyVars, DoorTyped
<1>5. ASSUME NEW q \in Deliveries, TurnAway(q) \/ SpendFails(q) PROVE DoorTyped'
  <2>1. RequestsTyped'
    BY <1>5, GoesTyped DEF TurnAway, SpendFails, DoorTyped, Stage, Answers
  <2> QED BY <1>5, <2>1, UntouchedTyped DEF TurnAway, SpendFails, keyVars, DoorTyped
<1>6. ASSUME NEW q \in Deliveries, Lookup(q) \/ LookAgain(q) PROVE DoorTyped'
  <2>1. \E s \in {"verified", "unauthorized", "refresh"} : Goes(q, s)
    BY <1>6, VerifyGoes DEF Lookup, LookAgain
  <2>2. RequestsTyped'
    BY <2>1, GoesTyped DEF DoorTyped, Stage, Answers
  <2> QED BY <1>6, <2>2, UntouchedTyped DEF Lookup, LookAgain, keyVars, DoorTyped
<1>7. ASSUME NEW q \in Deliveries, TakeRefresh(q) PROVE DoorTyped'
  <2>1. RequestsTyped'
    BY <1>7, GoesTyped DEF TakeRefresh, DoorTyped, Stage
  <2>2. CacheTyped'
    BY <1>0, <1>7 DEF TakeRefresh, DoorTyped, CacheTyped
  <2> QED BY <1>7, <2>1, <2>2, UntouchedTyped DEF TakeRefresh, keyVars, DoorTyped
<1>8. ASSUME NEW q \in Deliveries, ReadDocument(q) PROVE DoorTyped'
  <2>1. RequestsTyped'
    BY <1>8, GoesTyped DEF ReadDocument, DoorTyped, Stage
  <2>2. CacheTyped'
    BY <1>8 DEF ReadDocument, DoorTyped, CacheTyped, KeysTyped
  <2> QED BY <1>8, <2>1, <2>2, UntouchedTyped DEF ReadDocument, keyVars, DoorTyped
<1>9. ASSUME NEW q \in Deliveries, FetchFails(q) PROVE DoorTyped'
  <2>1. RequestsTyped'
    BY <1>9, GoesTyped DEF FetchFails, DoorTyped, Stage, Answers
  <2>2. CacheTyped'
    BY <1>9 DEF FetchFails, Unlocked, DoorTyped, CacheTyped
  <2> QED BY <1>9, <2>1, <2>2, UntouchedTyped DEF FetchFails, keyVars, DoorTyped
<1>10. ASSUME NEW q \in Deliveries, KeepDocument(q) PROVE DoorTyped'
  <2>1. RequestsTyped'
    BY <1>10, GoesTyped DEF KeepDocument, DoorTyped, Stage
  <2>2. CacheTyped'
    BY <1>0, <1>10 DEF KeepDocument, DoorTyped, CacheTyped
  <2> QED BY <1>10, <2>1, <2>2, UntouchedTyped DEF KeepDocument, keyVars, DoorTyped
<1>11. ASSUME NEW q \in Deliveries, Spend(q) PROVE DoorTyped'
  <2>1. RequestsTyped'
    BY <1>11, GoesTyped DEF Spend, DoorTyped, Stage, Answers
  <2> QED BY <1>11, <2>1, UntouchedTyped DEF Spend, keyVars, DoorTyped
<1>12. CASE UNCHANGED vars
  BY <1>12, UntouchedTyped DEF vars, keyVars, DoorTyped
<1> QED BY <1>1, <1>2, <1>3, <1>4, <1>5, <1>6, <1>7, <1>8, <1>9, <1>10, <1>11, <1>12
        DEF Next, Serve

LEMMA Typed == Spec => [](BucketTypeOK /\ DoorTyped)
<1>1. IInv => BucketTypeOK
  BY DEF IInv
<1> QED BY <1>1, BucketHolds, InitTyped, TypeStep, PTL DEF Spec

(* TypeOK holds in every reachable state: keys are never taken from a      *)
(* cache that was made in the future, and the bucket keeps its bounds.     *)
THEOREM TypeCorrect == Spec => []TypeOK
BY Typed, Parts, PTL

-----------------------------------------------------------------------------
(* One fetch at a time.                                                    *)

Fetching == {q \in Deliveries : stage[q] \in {"fetching", "fetched"}}

(* Who is fetching holds the mutex, and who holds it is fetching because   *)
(* what was cached had lapsed.                                             *)
Holder ==
  /\ \A q \in Deliveries : stage[q] \in {"fetching", "fetched"} <=> refresh = q
  /\ refresh # None => ~Fresh

(* Of what another request does, or what is no step of the fetch.          *)
LEMMA HolderKept ==
  ASSUME DoorTyped, BucketTypeOK, Holder, UNCHANGED <<cache, refresh>>,
         now' \in Nat, now' >= now,
         \A q \in Deliveries : stage'[q] \in {"fetching", "fetched"}
                                 <=> stage[q] \in {"fetching", "fetched"}
  PROVE  Holder'
<1>1. ~Fresh => ~Fresh'
  <2>1. cache # None => cache.at \in Int
    BY DEF DoorTyped, CacheTyped, BucketTypeOK
  <2>2. CacheTtl \in Int /\ now \in Int
    BY FrontDoorAssumption DEF BucketTypeOK
  <2> QED BY <2>1, <2>2 DEF Fresh
<1> QED BY <1>1 DEF Holder

LEMMA HolderStep ==
  ASSUME DoorTyped, BucketTypeOK, Holder, [Next]_vars
  PROVE  Holder'
<1>0. now \in Nat /\ RequestsTyped
  BY DEF BucketTypeOK, DoorTyped
<1>1. ASSUME UNCHANGED <<stage, cache, refresh>>, now' \in Nat, now' >= now PROVE Holder'
  BY <1>1, HolderKept
<1>2. CASE Pass \/ Rotate \/ OtherInstance \/ UNCHANGED vars
  BY <1>0, <1>1, <1>2 DEF Pass, Tick, Rotate, OtherInstance, vars, cacheVars
<1>3. ASSUME NEW q \in Deliveries, NEW s \in Stage \ {"fetching", "fetched"},
             stage[q] \notin {"fetching", "fetched"}, stage' = [stage EXCEPT ![q] = s],
             UNCHANGED <<now, cache, refresh>>
      PROVE  Holder'
  <2>1. \A r \in Deliveries : stage'[r] \in {"fetching", "fetched"}
                                <=> stage[r] \in {"fetching", "fetched"}
    BY <1>0, <1>3 DEF RequestsTyped
  <2> QED BY <1>0, <1>3, <2>1, HolderKept
<1>4. ASSUME NEW q \in Deliveries,
             \/ Arrive(q) \/ TurnAway(q) \/ Lookup(q) \/ LookAgain(q) \/ Spend(q)
             \/ SpendFails(q)
      PROVE  Holder'
  <2>1. stage[q] \notin {"fetching", "fetched"} /\ UNCHANGED <<now, cache, refresh>>
    BY <1>4 DEF Arrive, TurnAway, Lookup, LookAgain, Spend, SpendFails, cacheVars
  <2>2. PICK s \in Stage \ {"fetching", "fetched"} : stage' = [stage EXCEPT ![q] = s]
    BY <1>4 DEF Arrive, TurnAway, Lookup, LookAgain, Spend, SpendFails, Verify, Goes,
                Stage, Answers
  <2> QED BY <1>3, <2>1, <2>2
<1>5. ASSUME NEW q \in Deliveries, TakeRefresh(q) PROVE Holder'
  <2>1. CASE SomebodyElseDid
    BY <1>3, <1>5, <2>1 DEF TakeRefresh, Goes, Stage
  <2>2. CASE ~SomebodyElseDid
    <3>1. /\ refresh = None /\ refresh' = q /\ ~Fresh /\ UNCHANGED <<now, cache>>
          /\ stage' = [stage EXCEPT ![q] = "fetching"]
      BY <1>5, <2>2 DEF TakeRefresh, Goes, SomebodyElseDid
    <3>2. \A r \in Deliveries : stage'[r] \in {"fetching", "fetched"} <=> r = q
      BY <1>0, <3>1, FrontDoorAssumption DEF Holder, RequestsTyped
    <3>3. ~Fresh'
      BY <3>1 DEF Fresh
    <3> QED BY <3>1, <3>2, <3>3 DEF Holder
  <2> QED BY <2>1, <2>2
<1>6. ASSUME NEW q \in Deliveries, ReadDocument(q) PROVE Holder'
  <2>1. \A r \in Deliveries : stage'[r] \in {"fetching", "fetched"}
                                <=> stage[r] \in {"fetching", "fetched"}
    BY <1>0, <1>6 DEF ReadDocument, Goes, RequestsTyped
  <2> QED BY <1>0, <1>6, <2>1, HolderKept DEF ReadDocument
<1>7. ASSUME NEW q \in Deliveries, FetchFails(q) \/ KeepDocument(q) PROVE Holder'
  <2>1. PICK s \in {"unavailable", "again"} : stage' = [stage EXCEPT ![q] = s]
    BY <1>7 DEF FetchFails, KeepDocument, Goes
  <2>2. refresh = q /\ refresh' = None
    BY <1>7 DEF FetchFails, KeepDocument, Unlocked, Holder
  <2>3. \A r \in Deliveries : stage'[r] \notin {"fetching", "fetched"}
    BY <1>0, <2>1, <2>2 DEF Holder, RequestsTyped
  <2> QED BY <2>2, <2>3, FrontDoorAssumption DEF Holder
<1> QED BY <1>2, <1>4, <1>5, <1>6, <1>7 DEF Next, Serve

LEMMA AtMostOne ==
  ASSUME Holder
  PROVE  OneFetch
<1>1. Fetching \subseteq {refresh} \cap Deliveries
  BY DEF Fetching, Holder
<1>2. Cardinality(Fetching) <= 1
  <2>1. CASE Fetching = {}
    BY <2>1, FS_EmptySet
  <2>2. CASE Fetching = {refresh}
    BY <2>2, FS_Singleton
  <2> QED BY <1>1, <2>1, <2>2
<1>3. Fetching # {} => ~Fresh
  BY FrontDoorAssumption DEF Fetching, Holder
<1> QED BY <1>2, <1>3 DEF OneFetch, Fetching

(* OneFetch holds of any number of requests that miss the cache together.  *)
THEOREM FetchedOnce == Spec => []OneFetch
<1>1. Init => Holder
  BY FrontDoorAssumption DEF Init, Holder
<1> QED BY <1>1, Typed, HolderStep, AtMostOne, PTL DEF Spec

-----------------------------------------------------------------------------
(* A rotation takes effect.                                                *)

(* What the cache, or the answer to a fetch, has that the document has     *)
(* not, or the other way round, was rotated after it was asked for.        *)
Remembered ==
  cache # None => \A k \in Keys : (k \in cache.keys) # (k \in document) =>
                    changed[k] >= cache.at - cache.took

Read ==
  \A q \in Deliveries : stage[q] = "fetched" =>
    \A k \in Keys : (k \in got) # (k \in document) => changed[k] >= began

Rotations == Holder /\ Remembered /\ Read

LEMMA RotationsKept ==
  ASSUME Rotations, Holder', UNCHANGED <<now, cache, keyVars>>,
         refresh' # None => UNCHANGED <<refresh, began, got>>,
         \A q \in Deliveries : stage'[q] = "fetched" => stage[q] = "fetched"
  PROVE  Rotations'
<1>1. Remembered'
  BY DEF Rotations, Remembered, keyVars
<1>2. Read'
  <2> SUFFICES ASSUME NEW q \in Deliveries, stage'[q] = "fetched", NEW k \in Keys,
                      (k \in got') # (k \in document')
               PROVE  changed'[k] >= began'
    BY DEF Read
  <2>1. refresh' # None
    BY FrontDoorAssumption DEF Holder
  <2> QED BY <2>1 DEF Rotations, Read, keyVars
<1> QED BY <1>1, <1>2 DEF Rotations

LEMMA RotationsStep ==
  ASSUME DoorTyped, BucketTypeOK, Rotations, [Next]_vars
  PROVE  Rotations'
<1>0. /\ now \in Nat /\ RequestsTyped /\ KeysTyped /\ CacheTyped /\ began \in 0..now
      /\ CacheTtl \in Nat
      /\ cache # None => cache.at \in 0..now /\ cache.took \in Nat
  BY FrontDoorAssumption DEF BucketTypeOK, DoorTyped, CacheTyped
<1>h. Holder'
  BY HolderStep DEF Rotations
<1>1. CASE Pass
  <2>1. Remembered' /\ Read'
    BY <1>1 DEF Pass, keyVars, cacheVars, Rotations, Remembered, Read
  <2> QED BY <1>h, <2>1 DEF Rotations
<1>2. CASE Rotate
  <2>1. PICK k \in Keys \ {Forged} :
          /\ document' = IF k \in document THEN document \ {k} ELSE document \cup {k}
          /\ changed' = [changed EXCEPT ![k] = now]
    BY <1>2 DEF Rotate
  <2>2. UNCHANGED <<now, cache, refresh, began, got, stage>>
    BY <1>2 DEF Rotate, cacheVars
  <2>3. /\ changed'[k] = now
        /\ \A j \in Keys \ {k} : changed'[j] = changed[j] /\ (j \in document' <=> j \in document)
    BY <1>0, <2>1 DEF KeysTyped
  <2>4. Remembered'
    <3>1. cache # None => now >= cache.at - cache.took
      BY <1>0
    <3> QED BY <2>2, <2>3, <3>1 DEF Rotations, Remembered
  <2>5. Read'
    <3>1. now >= began
      BY <1>0
    <3> QED BY <2>2, <2>3, <3>1 DEF Rotations, Read
  <2> QED BY <1>h, <2>4, <2>5 DEF Rotations
<1>3. CASE OtherInstance \/ UNCHANGED vars
  <2>1. UNCHANGED <<now, keyVars, cache, refresh, began, got, stage>>
    BY <1>3 DEF OtherInstance, vars, cacheVars
  <2> QED BY <1>h, <2>1, RotationsKept
<1>4. ASSUME NEW q \in Deliveries,
             \/ Arrive(q) \/ TurnAway(q) \/ Lookup(q) \/ LookAgain(q) \/ Spend(q)
             \/ SpendFails(q)
      PROVE  Rotations'
  <2>1. UNCHANGED <<now, keyVars, cache, refresh, began, got>>
    BY <1>4 DEF Arrive, TurnAway, Lookup, LookAgain, Spend, SpendFails, cacheVars
  <2>2. \E s \in Stage \ {"fetched"} : stage' = [stage EXCEPT ![q] = s]
    BY <1>4 DEF Arrive, TurnAway, Lookup, LookAgain, Spend, SpendFails, Verify, Goes,
                Stage, Answers
  <2>3. \A r \in Deliveries : stage'[r] = "fetched" => stage[r] = "fetched"
    BY <1>0, <2>2 DEF RequestsTyped
  <2> QED BY <1>h, <2>1, <2>3, RotationsKept
<1>5. ASSUME NEW q \in Deliveries, TakeRefresh(q) PROVE Rotations'
  <2>1. \A r \in Deliveries : stage'[r] = "fetched" => stage[r] = "fetched"
    BY <1>0, <1>5 DEF TakeRefresh, Goes, RequestsTyped
  <2>2. CASE SomebodyElseDid
    <3>1. UNCHANGED <<now, keyVars, cache, refresh, began, got>>
      BY <1>5, <2>2 DEF TakeRefresh
    <3> QED BY <1>h, <2>1, <3>1, RotationsKept
  <2>3. CASE ~SomebodyElseDid
    <3>1. /\ refresh = None /\ refresh' = q /\ began' = now
          /\ UNCHANGED <<now, keyVars, cache, got>>
      BY <1>5, <2>3 DEF TakeRefresh
    <3>2. \A r \in Deliveries : stage'[r] # "fetched"
      BY <2>1, <3>1, FrontDoorAssumption DEF Rotations, Holder
    <3>3. Remembered'
      BY <3>1 DEF Rotations, Remembered, keyVars
    <3> QED BY <1>h, <3>2, <3>3 DEF Rotations, Read
  <2> QED BY <2>2, <2>3
<1>6. ASSUME NEW q \in Deliveries, ReadDocument(q) PROVE Rotations'
  <2>1. got' = document /\ UNCHANGED <<now, keyVars, cache, refresh, began>>
    BY <1>6 DEF ReadDocument
  <2>2. Remembered'
    BY <2>1 DEF Rotations, Remembered, keyVars
  <2>3. Read'
    BY <2>1 DEF Read, keyVars
  <2> QED BY <1>h, <2>2, <2>3 DEF Rotations
<1>7. ASSUME NEW q \in Deliveries, FetchFails(q) PROVE Rotations'
  <2>1. UNCHANGED <<now, cache, keyVars>> /\ refresh' = None
    BY <1>7 DEF FetchFails, Unlocked
  <2>2. \A r \in Deliveries : stage'[r] = "fetched" => stage[r] = "fetched"
    BY <1>0, <1>7 DEF FetchFails, Goes, RequestsTyped
  <2> QED BY <1>h, <2>1, <2>2, RotationsKept
<1>8. ASSUME NEW q \in Deliveries, KeepDocument(q) PROVE Rotations'
  <2>1. /\ stage[q] = "fetched" /\ refresh' = None /\ UNCHANGED <<now, keyVars>>
        /\ cache' = [keys |-> got, at |-> now, took |-> now - began]
    BY <1>8 DEF KeepDocument
  <2>2. Remembered'
    <3> SUFFICES ASSUME NEW k \in Keys, (k \in got) # (k \in document)
                 PROVE  changed[k] >= now - (now - began)
      BY <2>1 DEF Remembered, keyVars
    <3>1. changed[k] >= began /\ changed[k] \in Int
      BY <1>0, <2>1 DEF Rotations, Read, KeysTyped
    <3> QED BY <1>0, <3>1
  <2>3. \A r \in Deliveries : stage'[r] # "fetched"
    BY <1>h, <2>1, FrontDoorAssumption DEF Holder
  <2> QED BY <1>h, <2>2, <2>3 DEF Rotations, Read
<1> QED BY <1>1, <1>2, <1>3, <1>4, <1>5, <1>6, <1>7, <1>8 DEF Next, Serve

(* What is settled, a cache that has not lapsed knows.                     *)
LEMMA FreshKnows ==
  ASSUME DoorTyped, BucketTypeOK, Rotations, Fresh, NEW k \in Keys, Settled(k)
  PROVE  k \in cache.keys <=> k \in document
<1>1. /\ cache # None /\ now - cache.at <= CacheTtl /\ now \in Int /\ cache.at \in Int
      /\ cache.took \in Int /\ changed[k] \in Int /\ CacheTtl \in Int
  BY FrontDoorAssumption DEF Fresh, DoorTyped, CacheTyped, KeysTyped, BucketTypeOK
<1>2. ~(changed[k] >= cache.at - cache.took)
  BY <1>1 DEF Settled
<1> QED BY <1>1, <1>2 DEF Rotations, Remembered

(* An answer about a key.                                                  *)
TakesEffect(q) ==
  stage[q] \in {"arrived", "again"} =>
    LET k == signed[q].by
    IN /\ stage'[q] = "verified" => k \in document \/ ~Settled(k)
       /\ stage'[q] = "unauthorized" =>
            \/ Stale(q) \/ k \notin document \/ ~Settled(k)
            \/ stage[q] = "again" /\ ~Fresh

LEMMA VerifiedByCache ==
  ASSUME DoorTyped, BucketTypeOK, Rotations, NEW q \in Deliveries, Fresh,
         Verify(q, cache.keys)
  PROVE  TakesEffect(q)
<1> DEFINE k == signed[q].by
<1>1. PICK s \in {"verified", "unauthorized"} :
        /\ Goes(q, s)
        /\ s = "verified" <=> (~Stale(q) /\ k \in cache.keys)
  BY VerifyGoes
<1>2. stage'[q] = s
  BY <1>1 DEF Goes, DoorTyped, RequestsTyped
<1>3. cache.keys \subseteq Keys /\ document \subseteq Keys
  BY DEF Fresh, DoorTyped, CacheTyped, KeysTyped
<1>4. k \in Keys /\ Settled(k) => (k \in cache.keys <=> k \in document)
  BY FreshKnows
<1> QED BY <1>1, <1>2, <1>3, <1>4 DEF TakesEffect

LEMMA TakesEffectStep ==
  ASSUME DoorTyped, BucketTypeOK, Rotations, [Next]_vars, NEW q \in Deliveries
  PROVE  TakesEffect(q)
<1>0. RequestsTyped
  BY DEF DoorTyped
<1>1. ASSUME stage'[q] \notin {"verified", "unauthorized"} PROVE TakesEffect(q)
  BY <1>1 DEF TakesEffect
<1>2. ASSUME stage'[q] = stage[q] PROVE TakesEffect(q)
  BY <1>2 DEF TakesEffect
<1>3. CASE Lookup(q) /\ Cached
  BY <1>3, VerifiedByCache DEF Lookup, Cached
<1>4. CASE Lookup(q) /\ ~Cached
  BY <1>0, <1>1, <1>4 DEF Lookup, Goes, RequestsTyped
<1>5. CASE LookAgain(q) /\ Cached
  BY <1>5, VerifiedByCache DEF LookAgain, Cached
<1>6. CASE LookAgain(q) /\ ~Cached
  <2> DEFINE k == signed[q].by
  <2>1. stage[q] = "again" /\ stage'[q] = "unauthorized"
    BY <1>0, <1>6 DEF LookAgain, Verify, Goes, RequestsTyped
  <2>2. CASE ~Fresh
    BY <2>1, <2>2 DEF TakesEffect
  <2>3. CASE Fresh
    <3>1. cache.keys = {}
      BY <1>6, <2>3 DEF Cached
    <3>2. k \in Keys /\ Settled(k) => k \notin document
      BY <2>3, <3>1, FreshKnows
    <3>3. document \subseteq Keys
      BY DEF DoorTyped, KeysTyped
    <3> QED BY <2>1, <3>2, <3>3 DEF TakesEffect
  <2> QED BY <2>2, <2>3
<1>7. CASE TurnAway(q) \/ Spend(q) \/ SpendFails(q)
  BY <1>0, <1>1, <1>7 DEF TurnAway, Spend, SpendFails, Goes, RequestsTyped
<1>8. CASE \/ Arrive(q) \/ TakeRefresh(q) \/ ReadDocument(q) \/ KeepDocument(q)
           \/ FetchFails(q)
  BY <1>8, <1>1, <1>0 DEF Arrive, TakeRefresh, ReadDocument, KeepDocument, FetchFails, Goes,
                     RequestsTyped
<1>9. ASSUME NEW r \in Deliveries \ {q},
             \/ Arrive(r) \/ TurnAway(r) \/ Lookup(r) \/ TakeRefresh(r) \/ ReadDocument(r)
             \/ KeepDocument(r) \/ LookAgain(r) \/ Spend(r) \/ FetchFails(r) \/ SpendFails(r)
      PROVE  stage'[q] = stage[q]
  <2>1. \E s \in Stage : stage' = [stage EXCEPT ![r] = s]
    BY <1>9 DEF Arrive, TurnAway, Lookup, TakeRefresh, ReadDocument, KeepDocument, LookAgain,
                Spend, FetchFails, SpendFails, Verify, Goes, Stage, Answers
  <2> QED BY <1>0, <2>1 DEF RequestsTyped
<1>10. CASE Pass \/ Rotate \/ OtherInstance \/ UNCHANGED vars
  BY <1>2, <1>10 DEF Pass, Rotate, OtherInstance, vars
<1> QED BY <1>2, <1>3, <1>4, <1>5, <1>6, <1>7, <1>8, <1>9, <1>10 DEF Next, Serve

(* RotationTakesEffect with any clock, with fetches that take any time, as *)
(* nothing bounds them, and however many requests share what one brought.  *)
THEOREM RotationsTakeEffect == Spec => RotationTakesEffect
<1>1. Init => Rotations
  BY FrontDoorAssumption DEF Init, Rotations, Holder, Remembered, Read
<1>2. DoorTyped /\ BucketTypeOK /\ Rotations /\ [Next]_vars =>
        [\A q \in Deliveries : TakesEffect(q)]_vars
  BY TakesEffectStep
<1>3. RotationTakesEffect <=> [][\A q \in Deliveries : TakesEffect(q)]_vars
  BY DEF RotationTakesEffect, TakesEffect
<1> QED BY <1>1, <1>2, <1>3, Typed, RotationsStep, PTL DEF Spec
=============================================================================
