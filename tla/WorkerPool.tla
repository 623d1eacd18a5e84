----------------------------- MODULE WorkerPool ------------------------------
(***************************************************************************)
(* The worker processes (internal/worker/worker.go): a reconciler and a    *)
(* poller per process over one deadline index, and a handler per claimed   *)
(* dispute.  What a decision writes is WorkerStore's subject; here a       *)
(* dispute is a state and a version, and the question is whether it is     *)
(* ever lost from sight.                                                   *)
(*                                                                         *)
(* A call to Redis or Postgres may fail, before or after the server acted; *)
(* a process may be stopped, or die, and is started again.                 *)
(***************************************************************************)
EXTENDS DeadlineIndex

CONSTANTS
  Refundable,     (* disputes the rules refund while there is time          *)
  Concurrency,    (* Options.Concurrency                                    *)
  MaxBatches,     (* maxBatchesPerTick                                      *)
  MaxVersion,     (* bound: how often agents and people write to a dispute  *)
  MaxDeliveries,  (* bound: deliveries of a dispute's arrival by the queue  *)
  MaxFaults,      (* bound: failing calls                                   *)
  MaxStops,       (* bound: signals and crashes                             *)
  MaxTrouble,     (* bound: both together                                   *)
  Crashes         (* whether a process may die rather than stop             *)

ASSUME PoolAssumption ==
  /\ Refundable \subseteq Disputes
  /\ Concurrency \in Nat \ {0} /\ MaxBatches \in Nat \ {0}
  /\ MaxVersion \in [Disputes -> Nat] /\ MaxDeliveries \in Nat
  /\ MaxFaults \in Nat /\ MaxStops \in Nat /\ MaxTrouble \in Nat
  /\ Crashes \in BOOLEAN

VARIABLES
  state, version, (* the dispute's row                                      *)
  deliveries,     (* how often the queue has delivered its arrival          *)
  pool,           (* what a process is doing                                *)
  rows,           (* OpenDeadlines' answer before it is written to Redis    *)
  batch,          (* batches claimed in this tick of the poll loop, 0 for   *)
                  (* none                                                   *)
  full,           (* the last batch came back full                          *)
  handler,        (* the handler of a dispute in a process                  *)
  faults, stops   (* how many there have been                               *)

dbVars == <<state, version, deliveries>>
poolVars == <<pool, rows, batch, full>>
vars == <<index, lock, due, dbVars, poolVars, handler, faults, stops>>

OnTheClock == {"received", "resolving", "draft_ready"}

Handler == [phase : {"idle", "queued", "locked", "decided", "leaving"},
            version : Nat,
            to : {"none", "refunded", "expired"},
            overran : BOOLEAN]

Idle == [phase |-> "idle", version |-> 0, to |-> "none", overran |-> FALSE]

TypeOK ==
  /\ IndexTypeOK
  /\ state \in [Disputes -> OnTheClock \cup {"absent", "represented", "refunded", "expired"}]
  /\ version \in [Disputes -> Nat]
  /\ deliveries \in [Disputes -> Nat]
  /\ pool \in [Pools -> {"down", "starting", "running", "stopping"}]
  /\ rows \in [Pools -> (SUBSET Disputes) \cup {Absent}]
  /\ batch \in [Pools -> Nat]
  /\ full \in [Pools -> BOOLEAN]
  /\ handler \in [Pools -> [Disputes -> Handler]]
  /\ faults \in Nat /\ stops \in Nat

Init ==
  /\ IndexInit
  /\ state = [d \in Disputes |-> "absent"]
  /\ version = [d \in Disputes |-> 0]
  /\ deliveries = [d \in Disputes |-> 0]
  /\ pool = [p \in Pools |-> "down"]
  /\ rows = [p \in Pools |-> Absent]
  /\ batch = [p \in Pools |-> 0]
  /\ full = [p \in Pools |-> FALSE]
  /\ handler = [p \in Pools |-> [d \in Disputes |-> Idle]]
  /\ faults = 0
  /\ stops = 0

Fault == faults < MaxFaults /\ faults + stops < MaxTrouble /\ faults' = faults + 1

Halt == stops < MaxStops /\ faults + stops < MaxTrouble /\ stops' = stops + 1

Alive(p) == pool[p] \in {"starting", "running"}

-----------------------------------------------------------------------------
(* Around the workers.                                                     *)

(* The ingest service files a dispute.                                     *)
File(d) ==
  /\ state[d] = "absent"
  /\ state' = [state EXCEPT ![d] = "received"]
  /\ UNCHANGED <<index, lock, due, version, deliveries, poolVars, handler, faults, stops>>

(* Agents and people move a dispute along; a represented one is off the    *)
(* clock.                                                                  *)
Moves == {<<"received", "resolving">>, <<"resolving", "received">>,
          <<"resolving", "draft_ready">>, <<"draft_ready", "received">>,
          <<"draft_ready", "represented">>}

Overtake(d) ==
  /\ version[d] < MaxVersion[d]
  /\ \E to \in {"received", "resolving", "draft_ready", "represented"} :
       /\ <<state[d], to>> \in Moves
       /\ state' = [state EXCEPT ![d] = to]
  /\ version' = [version EXCEPT ![d] = @ + 1]
  /\ UNCHANGED <<index, lock, due, deliveries, poolVars, handler, faults, stops>>

(* Consumer.process of a dispute.received message, as often as the queue   *)
(* delivers it.                                                            *)
Consume(d) ==
  /\ \E p \in Pools : Alive(p)
  /\ state[d] # "absent"
  /\ deliveries[d] < MaxDeliveries
  /\ Schedule(d, due[d])
  /\ deliveries' = [deliveries EXCEPT ![d] = @ + 1]
  /\ UNCHANGED <<lock, due, state, version, poolVars, handler, faults, stops>>

(* Time passes.                                                            *)
Tick ==
  /\ due' = [d \in Disputes |-> IF state[d] = "absent" THEN due[d] ELSE Age(due[d])]
  /\ index' = [d \in Disputes |-> IF index[d] = Absent THEN Absent ELSE Age(index[d])]
  /\ <<due, index>>' # <<due, index>>
  /\ UNCHANGED <<lock, dbVars, poolVars, handler, faults, stops>>

(* A lock's TTL runs out.  A handler that still had it goes on without.    *)
WithoutLock(d) ==
  [p \in Pools |-> [handler[p] EXCEPT ![d].overran = @ \/ lock[d] = p]]

Lapse(d) ==
  /\ lock[d] # Free
  /\ lock' = [lock EXCEPT ![d] = Free]
  /\ handler' = WithoutLock(d)
  /\ UNCHANGED <<index, due, dbVars, poolVars, faults, stops>>

(* Redis comes back empty.                                                 *)
Flush ==
  /\ Fault
  /\ index' = [d \in Disputes |-> Absent]
  /\ lock' = [d \in Disputes |-> Free]
  /\ handler' = [p \in Pools |-> [d \in Disputes |->
       [handler[p][d] EXCEPT !.overran = @ \/ lock[d] = p]]]
  /\ UNCHANGED <<due, dbVars, poolVars, stops>>

-----------------------------------------------------------------------------
(* A process: started, stopped by a signal, or gone.                       *)

Start(p) ==
  /\ pool[p] = "down"
  /\ pool' = [pool EXCEPT ![p] = "starting"]
  /\ UNCHANGED <<index, lock, due, dbVars, rows, batch, full, handler, faults, stops>>

Stop(p) ==
  /\ Alive(p)
  /\ Halt
  /\ pool' = [pool EXCEPT ![p] = "stopping"]
  /\ UNCHANGED <<index, lock, due, dbVars, rows, batch, full, handler, faults>>

NoBatch(p) ==
  /\ batch' = [batch EXCEPT ![p] = 0]
  /\ full' = [full EXCEPT ![p] = FALSE]

Quiet(p) == \A d \in Disputes : handler[p][d].phase = "idle"

(* Run returns when the loops have, and the poll loop waits for its batch. *)
Exit(p) ==
  /\ pool[p] = "stopping"
  /\ Quiet(p)
  /\ pool' = [pool EXCEPT ![p] = "down"]
  /\ rows' = [rows EXCEPT ![p] = Absent]
  /\ NoBatch(p)
  /\ UNCHANGED <<index, lock, due, dbVars, handler, faults, stops>>

Crash(p) ==
  /\ Crashes
  /\ pool[p] # "down"
  /\ Halt
  /\ pool' = [pool EXCEPT ![p] = "down"]
  /\ rows' = [rows EXCEPT ![p] = Absent]
  /\ NoBatch(p)
  /\ handler' = [handler EXCEPT ![p] = [d \in Disputes |-> Idle]]
  /\ lock' = [d \in Disputes |-> IF lock[d] = p THEN Orphan ELSE lock[d]]
  /\ UNCHANGED <<index, due, dbVars, faults>>

-----------------------------------------------------------------------------
(* The reconciler reads Postgres and then writes Redis.                    *)

(* A seeded bug: a draft nobody approved is not on the clock.              *)
OpenWithoutDrafts == {d \in Disputes : state[d] \in OnTheClock \ {"draft_ready"}}

OpenDeadlines == {d \in Disputes : state[d] \in OnTheClock}

ReconcileRead(p) ==
  /\ Alive(p)
  /\ rows[p] = Absent
  /\ rows' = [rows EXCEPT ![p] = OpenDeadlines]
  /\ UNCHANGED <<index, lock, due, dbVars, pool, batch, full, handler, faults, stops>>

ReconcileWrite(p) ==
  /\ Alive(p)
  /\ rows[p] # Absent
  /\ ScheduleMany(rows[p])
  /\ rows' = [rows EXCEPT ![p] = Absent]
  /\ pool' = [pool EXCEPT ![p] = "running"]
  /\ UNCHANGED <<lock, due, dbVars, batch, full, handler, faults, stops>>

(* Only the first pass is worth stopping for; the error cancels the group. *)
ReconcileFails(p) ==
  /\ Alive(p)
  /\ Fault
  /\ rows' = [rows EXCEPT ![p] = Absent]
  /\ pool' = [pool EXCEPT ![p] = IF @ = "starting" THEN "stopping" ELSE @]
  /\ UNCHANGED <<index, lock, due, dbVars, batch, full, handler, stops>>

-----------------------------------------------------------------------------
(* The poll loop: one batch after the other while they come back full, no  *)
(* more than MaxBatches of them in one tick.                               *)

Claim(p, ds) ==
  /\ Take(ds)
  /\ handler' = [handler EXCEPT ![p] =
       [d \in Disputes |-> IF d \in ds THEN [Idle EXCEPT !.phase = "queued"] ELSE Idle]]
  /\ batch' = [batch EXCEPT ![p] = IF ds = {} THEN 0 ELSE @ + 1]
  /\ full' = [full EXCEPT ![p] = Cardinality(ds) = BatchSize]

TickOver(p) == ~full[p] \/ batch[p] >= MaxBatches

MayClaim(p) == Alive(p) /\ Quiet(p) /\ (batch[p] = 0 \/ ~TickOver(p))

Poll(p) ==
  /\ MayClaim(p)
  /\ \E ds \in Batches : (batch[p] = 0 => ds # {}) /\ Claim(p, ds)
  /\ UNCHANGED <<lock, due, dbVars, pool, rows, faults, stops>>

(* The claim failed, and the script may have run all the same.             *)
ClaimFails(p) ==
  /\ MayClaim(p)
  /\ Fault
  /\ \E ds \in Batches \cup {{}} : Take(ds)
  /\ NoBatch(p)
  /\ UNCHANGED <<lock, due, dbVars, pool, rows, handler, stops>>

EndTick(p) ==
  /\ Alive(p)
  /\ batch[p] > 0
  /\ Quiet(p)
  /\ TickOver(p)
  /\ NoBatch(p)
  /\ UNCHANGED <<index, lock, due, dbVars, pool, rows, handler, faults, stops>>

-----------------------------------------------------------------------------
(* handle.  A call under the pool's context fails once the pool is         *)
(* stopping; the cleanup calls have a context of their own.                *)

Is(p, d, phase) == handler[p][d].phase = phase

Become(p, d, phase) == handler' = [handler EXCEPT ![p][d].phase = phase]

Finish(p, d) == handler' = [handler EXCEPT ![p][d] = Idle]

(* errgroup's limit.                                                       *)
HasSlot(p) ==
  Cardinality({d \in Disputes : handler[p][d].phase \in {"locked", "decided", "leaving"}})
    < Concurrency

(* An error of the call, or of every call of a pool that is stopping.      *)
CallFails(p) == \/ pool[p] = "stopping" /\ UNCHANGED faults
                \/ Fault

(* A seeded bug: the reschedule runs under the context that was cancelled. *)
PutBackIfRunning(p, d, at) ==
  IF pool[p] = "stopping" THEN UNCHANGED index ELSE Schedule(d, at)

PutBack(p, d, at) == Schedule(d, at)

(* rescheduleSoon: no time is preferred, so the window decides.            *)
RescheduleSoon(p, d) == PutBack(p, d, NextVisit(Past))

Acquire(p, d) ==
  /\ Is(p, d, "queued") /\ HasSlot(p)
  /\ pool[p] # "stopping"
  /\ lock[d] = Free
  /\ lock' = [lock EXCEPT ![d] = p]
  /\ Become(p, d, "locked")
  /\ UNCHANGED <<index, due, dbVars, poolVars, faults, stops>>

Contended(p, d) ==
  /\ Is(p, d, "queued") /\ HasSlot(p)
  /\ pool[p] # "stopping"
  /\ lock[d] # Free
  /\ RescheduleSoon(p, d)
  /\ Finish(p, d)
  /\ UNCHANGED <<lock, due, dbVars, poolVars, faults, stops>>

(* SETNX may have been done before its answer was lost.                    *)
AcquireFails(p, d) ==
  /\ Is(p, d, "queued") /\ HasSlot(p)
  /\ CallFails(p)
  /\ \/ UNCHANGED lock
     \/ lock[d] = Free /\ lock' = [lock EXCEPT ![d] = Orphan]
  /\ RescheduleSoon(p, d)
  /\ Finish(p, d)
  /\ UNCHANGED <<due, dbVars, poolVars, stops>>

Skips(d) == state[d] \notin OnTheClock \/ (state[d] = "draft_ready" /\ ~Late(d))

(* A seeded bug: the clock is not checked before the other rules.          *)
EscalatesAtAnyTime(d) == ~Skips(d) /\ d \notin Refundable

Escalates(d) == ~Skips(d) /\ ~Late(d) /\ d \notin Refundable

LoadAndSkip(p, d) ==
  /\ Is(p, d, "locked") /\ pool[p] # "stopping"
  /\ Skips(d)
  /\ Become(p, d, "leaving")
  /\ UNCHANGED <<index, lock, due, dbVars, poolVars, faults, stops>>

LoadAndEscalate(p, d) ==
  /\ Is(p, d, "locked") /\ pool[p] # "stopping"
  /\ Escalates(d)
  /\ PutBack(p, d, NextVisit(due[d]))
  /\ Become(p, d, "leaving")
  /\ UNCHANGED <<lock, due, dbVars, poolVars, faults, stops>>

LoadAndDecide(p, d) ==
  /\ Is(p, d, "locked") /\ pool[p] # "stopping"
  /\ ~Skips(d) /\ ~Escalates(d)
  /\ handler' = [handler EXCEPT ![p][d] =
       [phase |-> "decided", version |-> version[d],
        to |-> IF Late(d) THEN "expired" ELSE "refunded",
        overran |-> handler[p][d].overran]]
  /\ UNCHANGED <<index, lock, due, dbVars, poolVars, faults, stops>>

LoadFails(p, d) ==
  /\ Is(p, d, "locked")
  /\ CallFails(p)
  /\ RescheduleSoon(p, d)
  /\ Become(p, d, "leaving")
  /\ UNCHANGED <<lock, due, dbVars, poolVars, stops>>

(* A seeded bug: the UPDATE has lost its "AND version = $2".               *)
AnyVersion(p, d) == TRUE

Fresh(p, d) == version[d] = handler[p][d].version

Write(p, d) ==
  /\ Fresh(p, d)
  /\ state' = [state EXCEPT ![d] = handler[p][d].to]
  /\ version' = [version EXCEPT ![d] = @ + 1]
  /\ UNCHANGED deliveries

Apply(p, d) ==
  /\ Is(p, d, "decided") /\ pool[p] # "stopping"
  /\ Write(p, d)
  /\ Become(p, d, "leaving")
  /\ UNCHANGED <<index, lock, due, poolVars, faults, stops>>

(* ErrStaleCandidate: refused, and left to whoever overtook it.            *)
ApplyStale(p, d) ==
  /\ Is(p, d, "decided") /\ pool[p] # "stopping"
  /\ ~Fresh(p, d)
  /\ Become(p, d, "leaving")
  /\ UNCHANGED <<index, lock, due, dbVars, poolVars, faults, stops>>

(* The COMMIT may have been done before its answer was lost.               *)
ApplyFails(p, d) ==
  /\ Is(p, d, "decided")
  /\ CallFails(p)
  /\ UNCHANGED dbVars \/ Write(p, d)
  /\ RescheduleSoon(p, d)
  /\ Become(p, d, "leaving")
  /\ UNCHANGED <<lock, due, poolVars, stops>>

(* A reschedule that fails is logged, and the id is gone from the index.   *)
RescheduleFails(p, d) ==
  /\ Fault
  /\ \/ /\ Is(p, d, "queued") /\ HasSlot(p)
        /\ lock[d] # Free
        /\ Finish(p, d)
     \/ /\ Is(p, d, "locked")
        /\ Escalates(d)
        /\ Become(p, d, "leaving")
  /\ UNCHANGED <<index, lock, due, dbVars, poolVars, stops>>

Leave(p, d) ==
  /\ Is(p, d, "leaving")
  /\ lock' = [lock EXCEPT ![d] = Unlocked(d, p)]
  /\ Finish(p, d)
  /\ UNCHANGED <<index, due, dbVars, poolVars, faults, stops>>

LeaveFails(p, d) ==
  /\ Is(p, d, "leaving")
  /\ Fault
  /\ lock' = [lock EXCEPT ![d] = IF @ = p THEN Orphan ELSE @]
  /\ Finish(p, d)
  /\ UNCHANGED <<index, due, dbVars, poolVars, stops>>

-----------------------------------------------------------------------------
Around ==
  \/ Tick
  \/ Flush
  \/ \E d \in Disputes : File(d) \/ Overtake(d) \/ Consume(d) \/ Lapse(d)

Process(p) ==
  \/ Start(p) \/ Stop(p) \/ Exit(p) \/ Crash(p)
  \/ ReconcileRead(p) \/ ReconcileWrite(p) \/ ReconcileFails(p)
  \/ Poll(p) \/ ClaimFails(p) \/ EndTick(p)

Handle(p, d) ==
  \/ Acquire(p, d) \/ Contended(p, d) \/ AcquireFails(p, d)
  \/ LoadAndSkip(p, d) \/ LoadAndEscalate(p, d) \/ LoadAndDecide(p, d) \/ LoadFails(p, d)
  \/ Apply(p, d) \/ ApplyStale(p, d) \/ ApplyFails(p, d)
  \/ RescheduleFails(p, d)
  \/ Leave(p, d) \/ LeaveFails(p, d)

Next ==
  \/ Around
  \/ \E p \in Pools : Process(p)
  \/ \E p \in Pools, d \in Disputes : Handle(p, d)

Spec == Init /\ [][Next]_vars

(* What the scheduler, the tickers and the TTL make sure of: a process is  *)
(* started again, its loops and handlers go on while it lives, time        *)
(* passes, and a key with a TTL goes.                                      *)
Fairness ==
  /\ WF_vars(Tick)
  /\ \A d \in Disputes : WF_vars(lock[d] = Orphan /\ Lapse(d))
  /\ \A p \in Pools :
       /\ WF_vars(Start(p)) /\ WF_vars(Exit(p))
       /\ WF_vars(ReconcileRead(p)) /\ WF_vars(ReconcileWrite(p))
       /\ WF_vars(Poll(p)) /\ WF_vars(EndTick(p))
       /\ \A d \in Disputes : WF_vars(Handle(p, d))

FairSpec == Spec /\ Fairness

-----------------------------------------------------------------------------
(* A handler between Acquire and Release has its lock, unless the TTL ran  *)
(* out under it: nobody else's Release takes it away, so two handlers are  *)
(* on one dispute only after an overrun.                                   *)
LockHeld ==
  \A p \in Pools, d \in Disputes :
    handler[p][d].phase \in {"locked", "decided", "leaving"} /\ ~handler[p][d].overran
      => lock[d] = p

(* Until a call fails, no process that only ever stops when told to loses  *)
(* the id of a dispute nobody else has written to: once the queue has      *)
(* announced it, it is in the index or in the hands of a handler that will *)
(* settle it or put it back.                                               *)
InHand(d) ==
  \E p \in Pools : handler[p][d].phase \in {"queued", "locked", "decided"}

Tracked ==
  ~Crashes /\ faults = 0 =>
    \A d \in Disputes : state[d] = "received" /\ version[d] = 0 /\ deliveries[d] > 0 =>
      index[d] # Absent \/ InHand(d)

(* Only those who copy the deadline itself, the queue's consumer and the   *)
(* reconciler, may make a dispute claimable.  What a handler puts back,    *)
(* a retry, a dispute somebody else has locked or an escalation, comes to  *)
(* lie beyond the claim window even when the deadline is within it: else   *)
(* it would be claimed, escalated and put back without end, the livelock   *)
(* nextVisit is for.                                                       *)
OnlyDeadlinesInWindow ==
  [][Tick \/ \A d \in Disputes :
       index'[d] # index[d] /\ index'[d] # Absent =>
         \/ index'[d] > Lookahead
         \/ index'[d] = due[d] /\ UNCHANGED handler]_vars

(* The workers do their duty: whatever fails, stops or dies, a dispute on  *)
(* the clock comes off it, and is settled only once and only from there.   *)
FateOf(s) ==
  IF s = "absent" THEN "absent" ELSE IF s \in OnTheClock THEN "open"
  ELSE IF s = "represented" THEN "argued" ELSE "settled"

Fates == [d \in Disputes |-> FateOf(state[d])]

Duty == INSTANCE DeadlineDuty WITH fate <- Fates

DoesItsDuty == Duty!Spec
=============================================================================
