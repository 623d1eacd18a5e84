------------------------------ MODULE FrontDoor ------------------------------
(***************************************************************************)
(* What a delivery passes before the ingest service claims it              *)
(* (internal/ingest/handler.go 1. to 4., internal/secrets,                 *)
(* internal/signing): the limit of its source, the keys its merchant may   *)
(* sign with, out of a document that is cached for a while and fetched by  *)
(* one request at a time, its signature, and the merchant's token bucket,  *)
(* which other instances of the service draw from as well.                 *)
(*                                                                         *)
(* One merchant; an instance that takes its keys from Secrets Manager.     *)
(***************************************************************************)
EXTENDS TokenBucket, FiniteSets

CONSTANTS
  Deliveries,
  Keys,          (* signing keys                                            *)
  Forged,        (* one of them, that the merchant never had                *)
  KeysBefore,    (* those in the document at first                          *)
  SignedAt,      (* when deliveries are signed                              *)
  Tolerance,     (* SignatureTolerance                                      *)
  CacheTtl,      (* WebhookSecretTTL                                        *)
  MaxRotations,  (* bound: keys published and withdrawn                     *)
  MaxCalls,      (* bound: tokens asked for by other instances              *)
  MaxFaults,     (* bound: calls that fail, deliveries turned away          *)
  None

ASSUME FrontDoorAssumption ==
  /\ None \notin Deliveries
  /\ Forged \in Keys /\ KeysBefore \subseteq Keys \ {Forged}
  /\ SignedAt \subseteq Nat /\ Tolerance \in Nat
  /\ CacheTtl \in Nat
  /\ MaxRotations \in Nat /\ MaxCalls \in Nat /\ MaxFaults \in Nat

VARIABLES
  document,      (* the merchant's keys in Secrets Manager                  *)
  changed,       (* when a key was last published or withdrawn              *)
  cache,         (* FromManager.cache and fetchedAt, with what its fetch    *)
                 (* took; None before                                       *)
  refresh,       (* who holds the mutex of that name                        *)
  began,         (* when the fetch under way began                          *)
  got,           (* what it answered                                        *)
  stage,         (* how far a delivery is                                   *)
  signed,        (* the key it is signed with, and when that was            *)
  rotations, called, faults

keyVars == <<document, changed, rotations>>

cacheVars == <<cache, refresh, began, got>>

vars == <<now, bucketVars, keyVars, cacheVars, stage, signed, called, faults>>

Answers == {"turned away", "unavailable", "unauthorized", "limited", "passed"}

Stage == {"sent", "arrived", "refresh", "fetching", "fetched", "again", "verified"} \cup Answers

TypeOK ==
  /\ BucketTypeOK
  /\ document \subseteq Keys \ {Forged}
  /\ changed \in [Keys -> Int]
  /\ cache # None => cache.keys \subseteq Keys /\ cache.at \in 0..now /\ cache.took \in Nat
  /\ refresh \in Deliveries \cup {None}
  /\ began \in 0..now /\ got \subseteq Keys
  /\ stage \in [Deliveries -> Stage]
  /\ signed \in [Deliveries -> [by : Keys, at : Nat] \cup {None}]
  /\ rotations \in Nat /\ called \in Nat /\ faults \in Nat

LongAgo == -(CacheTtl + 1)

Init ==
  /\ BucketInit
  /\ document = KeysBefore
  /\ changed = [k \in Keys |-> LongAgo]
  /\ cache = None /\ refresh = None /\ began = 0 /\ got = {}
  /\ stage = [q \in Deliveries |-> "sent"]
  /\ signed = [q \in Deliveries |-> None]
  /\ rotations = 0 /\ called = 0 /\ faults = 0

Fault == faults < MaxFaults /\ faults' = faults + 1

Goes(q, s) ==
  /\ stage' = [stage EXCEPT ![q] = s]
  /\ signed' = IF s \in Answers THEN [signed EXCEPT ![q] = None] ELSE signed

(* A call to Secrets Manager has the request's context and no deadline: it *)
(* takes as long as it takes.                                              *)
Pass ==
  /\ Tick
  /\ UNCHANGED <<bucketVars, keyVars, cacheVars, stage, signed, called, faults>>

(* The operator adds a key, or takes one away.                             *)
Rotate ==
  /\ rotations < MaxRotations /\ rotations' = rotations + 1
  /\ \E k \in Keys \ {Forged} :
       /\ document' = IF k \in document THEN document \ {k} ELSE document \cup {k}
       /\ changed' = [changed EXCEPT ![k] = now]
  /\ UNCHANGED <<now, bucketVars, cacheVars, stage, signed, called, faults>>

(* Another instance asks for a token, on behalf of a delivery of its own.  *)
OtherInstance ==
  /\ called < MaxCalls /\ called' = called + 1
  /\ \E allowed \in BOOLEAN : Allow(allowed)
  /\ UNCHANGED <<now, keyVars, cacheVars, stage, signed, faults>>

-----------------------------------------------------------------------------
(* What comes before the keys.                                             *)

(* A delivery gets as far as asking for its merchant's keys.               *)
Arrive(q) ==
  /\ stage[q] = "sent"
  /\ \E k \in Keys, at \in SignedAt \cap (0..now) :
       signed' = [signed EXCEPT ![q] = [by |-> k, at |-> at]]
  /\ stage' = [stage EXCEPT ![q] = "arrived"]
  /\ UNCHANGED <<now, bucketVars, keyVars, cacheVars, called, faults>>

(* It does not: its source is over the limit, Redis or the database fails, *)
(* the body is too large or no event, or there is no signature.            *)
TurnAway(q) ==
  /\ stage[q] = "sent"
  /\ Fault
  /\ Goes(q, "turned away")
  /\ UNCHANGED <<now, bucketVars, keyVars, cacheVars, called>>

-----------------------------------------------------------------------------
(* Verify and VerifyAny.                                                   *)

Drift(q) == IF now >= signed[q].at THEN now - signed[q].at ELSE signed[q].at - now

Stale(q) == Drift(q) > Tolerance

(* The timestamp first; then any of the keys will do.                      *)
Verify(q, keys) ==
  Goes(q, IF ~Stale(q) /\ signed[q].by \in keys THEN "verified" ELSE "unauthorized")

-----------------------------------------------------------------------------
(* SecretsFor: the cache, the document, and the cache again.               *)

(* A seeded bug: what has been fetched once is good for ever.              *)
NeverLapses == cache # None

Fresh == cache # None /\ now - cache.at <= CacheTtl

(* A merchant without a key that can be read is not in the cached map.     *)
Cached == Fresh /\ cache.keys # {}

Lookup(q) ==
  /\ stage[q] = "arrived"
  /\ IF Cached THEN Verify(q, cache.keys) ELSE Goes(q, "refresh")
  /\ UNCHANGED <<now, bucketVars, keyVars, cacheVars, called, faults>>

(* A seeded bug: whoever has waited for the mutex fetches as well.         *)
NeverMind == FALSE

(* "Somebody else may have refreshed while this call waited".              *)
SomebodyElseDid == Fresh

TakeRefresh(q) ==
  /\ stage[q] = "refresh" /\ refresh = None
  /\ IF SomebodyElseDid
     THEN Goes(q, "again") /\ UNCHANGED <<refresh, began>>
     ELSE Goes(q, "fetching") /\ refresh' = q /\ began' = now
  /\ UNCHANGED <<now, bucketVars, keyVars, cache, got, called, faults>>

ReadDocument(q) ==
  /\ stage[q] = "fetching"
  /\ got' = document
  /\ Goes(q, "fetched")
  /\ UNCHANGED <<now, bucketVars, keyVars, cache, refresh, began, called, faults>>

(* A seeded bug: the mutex is not given back on this way out.              *)
StillLocked == UNCHANGED refresh

Unlocked == refresh' = None

FetchFails(q) ==
  /\ stage[q] = "fetching"
  /\ Fault
  /\ Goes(q, "unavailable")
  /\ Unlocked
  /\ UNCHANGED <<now, bucketVars, keyVars, cache, began, got, called>>

KeepDocument(q) ==
  /\ stage[q] = "fetched"
  /\ cache' = [keys |-> got, at |-> now, took |-> now - began]
  /\ refresh' = None /\ began' = 0 /\ got' = {}
  /\ Goes(q, "again")
  /\ UNCHANGED <<now, bucketVars, keyVars, called, faults>>

(* Nothing, if the merchant is not there, or the time has run out since.   *)
LookAgain(q) ==
  /\ stage[q] = "again"
  /\ Verify(q, IF Cached THEN cache.keys ELSE {})
  /\ UNCHANGED <<now, bucketVars, keyVars, cacheVars, called, faults>>

-----------------------------------------------------------------------------
(* The merchant's bucket.  now is what the clock of this instance reads,   *)
(* and no other's is behind it.                                            *)

Spend(q) ==
  /\ stage[q] = "verified"
  /\ \E allowed \in BOOLEAN :
       Script(now, allowed) /\ Goes(q, IF allowed THEN "passed" ELSE "limited")
  /\ UNCHANGED <<now, keyVars, cacheVars, called, faults>>

(* 503: the script may have run all the same.                              *)
SpendFails(q) ==
  /\ stage[q] = "verified"
  /\ Fault
  /\ \/ \E allowed \in BOOLEAN : Script(now, allowed)
     \/ UNCHANGED bucketVars
  /\ Goes(q, "unavailable")
  /\ UNCHANGED <<now, keyVars, cacheVars, called>>

Serve(q) ==
  Lookup(q) \/ TakeRefresh(q) \/ KeepDocument(q) \/ LookAgain(q) \/ Spend(q)

Next ==
  \/ Pass \/ Rotate \/ OtherInstance
  \/ \E q \in Deliveries :
       \/ Arrive(q) \/ TurnAway(q) \/ Serve(q) \/ ReadDocument(q)
       \/ FetchFails(q) \/ SpendFails(q)

Spec == Init /\ [][Next]_vars

(* The goroutine of a request runs, a mutex goes to whoever has waited     *)
(* longest, and the client of Redis gives up in seconds.  Nothing says     *)
(* that a fetch comes back.                                                *)
FairSpec == Spec /\ \A q \in Deliveries : WF_vars(Serve(q))

-----------------------------------------------------------------------------

(* At most one fetch is under way, and only if what is cached has lapsed:  *)
(* requests that miss together send one call, not one each.                *)
OneFetch ==
  LET fetching == {q \in Deliveries : stage[q] \in {"fetching", "fetched"}}
  IN /\ Cardinality(fetching) <= 1
     /\ fetching # {} => ~Fresh

(* Longer ago than a cache lasts and the fetch of this one took: the cache *)
(* is dated when the answer is stored, which tells how the document was at *)
(* some time since it was asked for.                                       *)
Settled(k) == cache # None => now - changed[k] > CacheTtl + cache.took

(* A rotation takes effect once the cache's time has passed, and the time  *)
(* of the fetch that filled it: a key that was withdrawn longer ago than   *)
(* that verifies nothing, and a delivery signed in time with a key that    *)
(* was published longer ago is not refused, unless the cache lapses        *)
(* between the check under the mutex and the second lookup.                *)
RotationTakesEffect ==
  [][\A q \in Deliveries :
       stage[q] \in {"arrived", "again"} =>
         LET k == signed[q].by
         IN /\ stage'[q] = "verified" => k \in document \/ ~Settled(k)
            /\ stage'[q] = "unauthorized" =>
                 \/ Stale(q) \/ k \notin document \/ ~Settled(k)
                 \/ stage[q] = "again" /\ ~Fresh]_vars

FetchesEnd == \A q \in Deliveries : []<>(stage[q] # "fetching")

(* If every fetch ends, with an answer or an error, a delivery that asks   *)
(* for its keys is answered, whoever holds the mutex.                      *)
Answered ==
  FetchesEnd => \A q \in Deliveries : stage[q] = "arrived" ~> stage[q] \in Answers
=============================================================================
