---------------------------- MODULE DeadlineIndex ----------------------------
(***************************************************************************)
(* The worker's two uses of Redis (internal/worker/deadlines.go and        *)
(* locks.go): a sorted set of open disputes scored by when to look at them *)
(* next, and a lock per dispute that lapses by itself.                     *)
(*                                                                         *)
(* Time is kept as distances from now(), in units of the retry backoff:    *)
(* a deadline or a score is the number of units until it, and every Tick   *)
(* takes one off.  Behind -1 nothing in the code tells distances apart.    *)
(***************************************************************************)
EXTENDS Integers, FiniteSets

CONSTANTS
  Disputes,
  Pools,        (* worker processes                                         *)
  Deadline,     (* units between a dispute's arrival and its deadline       *)
  Lookahead,    (* Options.Lookahead                                        *)
  RetryBackoff, (* retryBackoff                                             *)
  BatchSize,    (* Options.BatchSize                                        *)
  Absent,       (* not in the sorted set                                    *)
  Free,         (* no such lock key                                         *)
  Orphan        (* a lock whose token nobody holds any more                 *)

ASSUME IndexAssumption ==
  /\ Deadline \in [Disputes -> Nat]
  /\ Lookahead \in Nat
  /\ RetryBackoff \in Nat \ {0}
  /\ BatchSize \in Nat \ {0}
  /\ Absent \notin Int
  /\ Free # Orphan /\ Free \notin Pools /\ Orphan \notin Pools

VARIABLES
  index,    (* disputes:deadlines                                           *)
  lock,     (* lock:dispute:N, as the pool whose handler took it            *)
  due       (* deadline_at                                                  *)

Past == -1

Age(t) == IF t = Past THEN Past ELSE t - 1

Score == {t \in Int : t >= Past}

IndexTypeOK ==
  /\ index \in [Disputes -> Score \cup {Absent}]
  /\ lock \in [Disputes -> Pools \cup {Free, Orphan}]
  /\ due \in [Disputes -> Score]

IndexInit ==
  /\ index = [d \in Disputes |-> Absent]
  /\ lock = [d \in Disputes |-> Free]
  /\ due = Deadline

(* The rules look at the deadline, which !now.Before(deadline) includes.   *)
Late(d) == due[d] <= 0

(* Schedule: ZADD inserts, or moves what is there.                         *)
Schedule(d, at) == index' = [index EXCEPT ![d] = at]

(* ScheduleMany.                                                           *)
ScheduleMany(ds) == index' = [d \in Disputes |-> IF d \in ds THEN due[d] ELSE index[d]]

Claimable(d) == index[d] # Absent /\ index[d] <= Lookahead

(* What claimDue may hand out: the lowest scores first, up to the limit.   *)
Batches ==
  LET ready == {d \in Disputes : Claimable(d)} IN
  {ds \in SUBSET ready :
     /\ Cardinality(ds) = IF Cardinality(ready) < BatchSize THEN Cardinality(ready)
                          ELSE BatchSize
     /\ \A d \in ds, e \in ready \ ds : index[d] <= index[e]}

Take(ds) == index' = [d \in Disputes |-> IF d \in ds THEN Absent ELSE index[d]]

(* A seeded bug: a bare DEL.                                               *)
UnlockedByAnyone(d, p) == Free

(* Release's script: the key goes only if the token is still this one's.   *)
Unlocked(d, p) == IF lock[d] = p THEN Free ELSE lock[d]

(* A seeded bug: a preferred time is taken as it is, the old livelock.     *)
NextVisitAsPreferred(preferred) ==
  IF preferred > Past THEN preferred ELSE Lookahead + RetryBackoff

(* nextVisit: the preferred time, unless that is inside the claim window.  *)
NextVisit(preferred) ==
  LET earliest == Lookahead + RetryBackoff IN
  IF preferred > earliest THEN preferred ELSE earliest
=============================================================================
