----------------------------- MODULE TokenBucket -----------------------------
(***************************************************************************)
(* One bucket of the rate limiter (internal/ingest/ratelimit.go): a hash   *)
(* in Redis with an expiry, and a script that refills it for the time that *)
(* has passed and takes a token.  The time is told by whichever instance   *)
(* calls, and instances' clocks differ; the expiry is told by Redis.       *)
(*                                                                         *)
(* A token is divided into as many parts as make what is refilled in one   *)
(* unit of time a whole number of them.                                    *)
(***************************************************************************)
EXTENDS Integers

CONSTANTS
  Token,         (* the parts of a token                                    *)
  Burst,         (* tokens in a full bucket                                 *)
  Rate,          (* parts refilled per unit of time                         *)
  FullAfter,     (* ceil(burst / rate)                                      *)
  Slack,         (* the minute the key lives on after that                  *)
  MaxSkew,       (* how far an instance's clock may be ahead of another's   *)
  Starts,        (* when the window that is looked at may begin             *)
  MaxTime        (* bound: the time that passes                             *)

ASSUME BucketAssumption ==
  /\ Token \in Nat \ {0} /\ Burst \in Nat \ {0} /\ Rate \in Nat \ {0}
  /\ FullAfter \in Nat /\ Rate * FullAfter >= Token * Burst
  /\ Slack \in Nat /\ MaxSkew \in Nat /\ MaxSkew <= Slack
  /\ Starts \subseteq Nat /\ MaxTime \in Nat

VARIABLES
  now,
  tokens, updated, (* the hash                                              *)
  until,         (* when the key expires, 0 before the first call           *)
  start,         (* when the window that is looked at begins                *)
  admitted,      (* the calls since then that were allowed                  *)
  back           (* how far, in all, the clock has gone back since then     *)
                 (* from one call to the next                               *)

bucketVars == <<tokens, updated, until, start, admitted, back>>

Full == Token * Burst

(* A seeded bug: the key outlives nothing but the minute.                  *)
OnlySlack == Slack

Ttl == FullAfter + Slack

BucketTypeOK ==
  /\ now \in Nat
  /\ tokens \in 0..Full
  /\ updated \in Nat /\ until \in Nat /\ start \in Nat
  /\ admitted \in Nat /\ back \in Nat

BucketInit ==
  /\ now = 0
  /\ tokens = Full /\ updated = 0 /\ until = 0
  /\ start \in Starts
  /\ admitted = 0 /\ back = 0

Tick == now < MaxTime /\ now' = now + 1

Positive(n) == IF n > 0 THEN n ELSE 0

(* Refilled for the time that has passed, capped at the burst size.        *)
Refill(had, elapsed) ==
  IF had + Rate * elapsed > Full THEN Full ELSE had + Rate * elapsed

Enough(some) == some >= Token

Held == now < until

(* What a caller whose clock reads this finds in the bucket.  A key that   *)
(* is not there is a full bucket.                                          *)
Found(clock) ==
  IF Held THEN Refill(tokens, Positive(clock - updated)) ELSE Full

(* The script, called by an instance whose clock reads this.               *)
Script(clock, allowed) ==
  /\ allowed = Enough(Found(clock))
  /\ tokens' = IF allowed THEN Found(clock) - Token ELSE Found(clock)
  /\ updated' = clock
  /\ until' = now + Ttl
  /\ admitted' = IF allowed /\ now >= start THEN admitted + 1 ELSE admitted
  /\ back' = IF now >= start THEN back + Positive(updated - clock) ELSE back
  /\ UNCHANGED start

Allow(allowed) == \E ahead \in 0..MaxSkew : Script(now + ahead, allowed)

BucketNext ==
  \/ Tick /\ UNCHANGED bucketVars
  \/ \E allowed \in BOOLEAN : Allow(allowed) /\ UNCHANGED now

BucketSpec == BucketInit /\ [][BucketNext]_<<now, bucketVars>>

(* In any stretch of time a bucket lets through its burst and what is      *)
(* refilled in that time, and no more, though the key may expire and be    *)
(* made anew: with clocks that disagree, as much more as they are refilled *)
(* for what they have gone back.                                           *)
Bounded ==
  now >= start =>
    Token * admitted <= Full + Rate * (now + MaxSkew - start + back)
=============================================================================
