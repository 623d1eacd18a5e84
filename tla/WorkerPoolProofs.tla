-------------------------- MODULE WorkerPoolProofs --------------------------
(***************************************************************************)
(* Proofs about WorkerPool, for any disputes, processes and bounds.        *)
(***************************************************************************)
EXTENDS WorkerPool, TLAPS

(* TypeOK by parts: no action changes them all.                            *)
RowsTyped ==
  /\ state \in [Disputes -> OnTheClock \cup {"absent", "represented", "refunded", "expired"}]
  /\ version \in [Disputes -> Nat]
  /\ deliveries \in [Disputes -> Nat]

LoopsTyped ==
  /\ pool \in [Pools -> {"down", "starting", "running", "stopping"}]
  /\ rows \in [Pools -> (SUBSET Disputes) \cup {Absent}]
  /\ batch \in [Pools -> Nat]
  /\ full \in [Pools -> BOOLEAN]

IndexTyped == index \in [Disputes -> Score \cup {Absent}]

LocksTyped == lock \in [Disputes -> Pools \cup {Free, Orphan}]

DueTyped == due \in [Disputes -> Score]

HandlersTyped == handler \in [Pools -> [Disputes -> Handler]]

CountsTyped == faults \in Nat /\ stops \in Nat

(* The parts are the whole.                                                *)
LEMMA Parts ==
  TypeOK <=> /\ RowsTyped /\ LoopsTyped /\ IndexTyped /\ LocksTyped /\ DueTyped
             /\ HandlersTyped /\ CountsTyped
BY DEF TypeOK, IndexTypeOK, RowsTyped, LoopsTyped, IndexTyped, LocksTyped, DueTyped,
       HandlersTyped, CountsTyped

LEMMA PartsNext ==
  ASSUME RowsTyped', LoopsTyped', IndexTyped', LocksTyped', DueTyped', HandlersTyped',
         CountsTyped'
  PROVE  TypeOK'
BY DEF TypeOK, IndexTypeOK, RowsTyped, LoopsTyped, IndexTyped, LocksTyped, DueTyped,
       HandlersTyped, CountsTyped

(* Who has decided decided on a row it read: the row has since only got    *)
(* newer, and as long as it has not it is still on the clock.              *)
ReadersKnow ==
  \A p \in Pools, d \in Disputes : Is(p, d, "decided") =>
    /\ handler[p][d].to \in {"refunded", "expired"}
    /\ handler[p][d].version <= version[d]
    /\ handler[p][d].version = version[d] => state[d] \in OnTheClock

(* What an action leaves alone keeps its type.                             *)
LEMMA Unchanged ==
  ASSUME TypeOK
  PROVE  /\ UNCHANGED dbVars => RowsTyped'
         /\ UNCHANGED poolVars => LoopsTyped'
         /\ UNCHANGED index => IndexTyped'
         /\ UNCHANGED lock => LocksTyped'
         /\ UNCHANGED due => DueTyped'
         /\ UNCHANGED handler => HandlersTyped'
         /\ UNCHANGED <<faults, stops>> => CountsTyped'
         /\ (UNCHANGED faults \/ Fault) /\ UNCHANGED stops => CountsTyped'
         /\ UNCHANGED faults /\ Halt => CountsTyped'
BY Parts DEF dbVars, poolVars, RowsTyped, LoopsTyped, IndexTyped, LocksTyped, DueTyped,
       HandlersTyped, CountsTyped, Fault, Halt

(* Time never runs past the floor, and a visit is put at a score.          *)
LEMMA Scores ==
  ASSUME NEW t \in Score
  PROVE  Age(t) \in Score /\ NextVisit(t) \in Score
BY IndexAssumption DEF Age, NextVisit, Score, Past

(* Scheduling keeps the index.                                             *)
LEMMA ScheduleTyped ==
  ASSUME TypeOK, NEW d \in Disputes, NEW t \in Score, Schedule(d, t)
  PROVE  IndexTyped'
BY Parts DEF IndexTyped, Schedule

LEMMA PutBackTyped ==
  ASSUME TypeOK, NEW d \in Disputes, NEW p
  PROVE  /\ RescheduleSoon(p, d) => IndexTyped'
         /\ PutBack(p, d, NextVisit(due[d])) => IndexTyped'
<1>1. Past \in Score /\ due[d] \in Score
  BY Parts DEF Past, Score, DueTyped
<1>2. NextVisit(Past) \in Score /\ NextVisit(due[d]) \in Score
  BY <1>1, Scores
<1> QED BY <1>2, ScheduleTyped DEF RescheduleSoon, PutBack

(* A handler's next phase, and its end.                                    *)
LEMMA OneHandler ==
  ASSUME TypeOK, NEW p \in Pools, NEW d \in Disputes, NEW h \in Handler,
         handler' = [handler EXCEPT ![p][d] = h]
  PROVE  HandlersTyped'
<1>1. [handler[p] EXCEPT ![d] = h] \in [Disputes -> Handler]
  BY Parts DEF HandlersTyped
<1>2. handler' = [handler EXCEPT ![p] = [handler[p] EXCEPT ![d] = h]]
  BY Parts DEF HandlersTyped
<1> QED BY <1>1, <1>2, Parts DEF HandlersTyped

LEMMA BecomeTyped ==
  ASSUME TypeOK, NEW p \in Pools, NEW d \in Disputes,
         NEW phase \in {"idle", "queued", "locked", "decided", "leaving"},
         Become(p, d, phase)
  PROVE  HandlersTyped'
<1> DEFINE h == [handler[p][d] EXCEPT !.phase = phase]
<1>1. handler[p][d] \in Handler
  BY Parts DEF HandlersTyped
<1>2. h \in Handler
  BY <1>1 DEF Handler
<1>3. handler' = [handler EXCEPT ![p][d] = h]
  BY DEF Become
<1> QED BY <1>2, <1>3, OneHandler

LEMMA FinishTyped ==
  ASSUME TypeOK, NEW p \in Pools, NEW d \in Disputes, Finish(p, d)
  PROVE  HandlersTyped'
<1>1. Idle \in Handler
  BY DEF Idle, Handler
<1> QED BY <1>1, OneHandler DEF Finish

-----------------------------------------------------------------------------
(* Every action keeps the types.                                           *)
LEMMA AroundTyped == TypeOK /\ Around => TypeOK'
<1> SUFFICES ASSUME TypeOK, Around PROVE TypeOK' OBVIOUS
<1>1. CASE Tick
  <2>1. DueTyped'
    <3>1. \A d \in Disputes : due[d] \in Score /\ Age(due[d]) \in Score
      BY Parts, Scores DEF DueTyped
    <3> QED BY <1>1, <3>1 DEF Tick, DueTyped
  <2>2. IndexTyped'
    <3>1. \A d \in Disputes : index[d] # Absent => Age(index[d]) \in Score
      BY Parts, Scores DEF IndexTyped
    <3> QED BY <1>1, <3>1 DEF Tick, IndexTyped
  <2> QED BY <1>1, <2>1, <2>2, Unchanged, PartsNext DEF Tick
<1>2. CASE Flush
  <2>1. HandlersTyped'
    <3> DEFINE h(p, d) == [handler[p][d] EXCEPT !.overran = @ \/ lock[d] = p]
    <3>1. ASSUME NEW p \in Pools, NEW d \in Disputes PROVE h(p, d) \in Handler
      <4>1. handler[p][d] \in Handler
        BY Parts DEF HandlersTyped
      <4>2. (handler[p][d].overran \/ lock[d] = p) \in BOOLEAN
        OBVIOUS
      <4> QED BY <4>1, <4>2 DEF Handler
    <3>2. handler' = [p \in Pools |-> [d \in Disputes |-> h(p, d)]]
      BY <1>2 DEF Flush
    <3> HIDE DEF h
    <3> QED BY <3>1, <3>2 DEF HandlersTyped
  <2>2. IndexTyped' /\ LocksTyped'
    BY <1>2 DEF Flush, IndexTyped, LocksTyped
  <2> QED BY <1>2, <2>1, <2>2, Unchanged, PartsNext DEF Flush
<1>3. ASSUME NEW d \in Disputes, File(d) PROVE TypeOK'
  <2>1. RowsTyped'
    BY <1>3, Parts DEF File, RowsTyped, OnTheClock
  <2> QED BY <1>3, <2>1, Unchanged, PartsNext DEF File
<1>4. ASSUME NEW d \in Disputes, Overtake(d) PROVE TypeOK'
  <2>1. RowsTyped'
    BY <1>4, Parts DEF Overtake, RowsTyped, OnTheClock
  <2> QED BY <1>4, <2>1, Unchanged, PartsNext DEF Overtake
<1>5. ASSUME NEW d \in Disputes, Consume(d) PROVE TypeOK'
  <2>1. IndexTyped'
    BY <1>5, Parts, ScheduleTyped DEF Consume, DueTyped
  <2>2. RowsTyped'
    BY <1>5, Parts DEF Consume, RowsTyped
  <2> QED BY <1>5, <2>1, <2>2, Unchanged, PartsNext DEF Consume
<1>6. ASSUME NEW d \in Disputes, Lapse(d) PROVE TypeOK'
  <2>1. HandlersTyped'
    <3> DEFINE h(p) == [handler[p][d] EXCEPT !.overran = @ \/ lock[d] = p]
    <3>1. ASSUME NEW p \in Pools PROVE h(p) \in Handler
      <4>1. handler[p][d] \in Handler
        BY Parts DEF HandlersTyped
      <4>2. (handler[p][d].overran \/ lock[d] = p) \in BOOLEAN
        OBVIOUS
      <4> QED BY <4>1, <4>2 DEF Handler
    <3>2. handler' = [p \in Pools |-> [handler[p] EXCEPT ![d] = h(p)]]
      BY <1>6 DEF Lapse, WithoutLock
    <3> HIDE DEF h
    <3> QED BY <3>1, <3>2, Parts DEF HandlersTyped
  <2>2. LocksTyped'
    BY <1>6, Parts DEF Lapse, LocksTyped
  <2> QED BY <1>6, <2>1, <2>2, Unchanged, PartsNext DEF Lapse
<1> QED BY <1>1, <1>2, <1>3, <1>4, <1>5, <1>6 DEF Around

LEMMA ProcessTyped ==
  ASSUME TypeOK, NEW p \in Pools, Process(p)
  PROVE  TypeOK'
<1>1. CASE Start(p) \/ Stop(p)
  <2>1. LoopsTyped' /\ CountsTyped'
    BY <1>1, Parts DEF Start, Stop, Halt, LoopsTyped, CountsTyped
  <2> QED BY <1>1, <2>1, Unchanged, PartsNext DEF Start, Stop
<1>7. CASE Exit(p)
  <2>1. LoopsTyped'
    BY <1>7, Parts DEF Exit, NoBatch, LoopsTyped
  <2> QED BY <1>7, <2>1, Unchanged, PartsNext DEF Exit
<1>2. CASE Crash(p)
  <2>1. LoopsTyped'
    BY <1>2, Parts DEF Crash, NoBatch, LoopsTyped
  <2>2. CountsTyped' /\ LocksTyped'
    BY <1>2, Parts DEF Crash, Halt, CountsTyped, LocksTyped
  <2>3. HandlersTyped'
    <3>1. [d \in Disputes |-> Idle] \in [Disputes -> Handler]
      BY DEF Idle, Handler
    <3> QED BY <1>2, <3>1, Parts DEF Crash, HandlersTyped
  <2> QED BY <1>2, <2>1, <2>2, <2>3, Unchanged, PartsNext DEF Crash
<1>3. CASE ReconcileRead(p) \/ ReconcileFails(p)
  <2>1. LoopsTyped'
    BY <1>3, Parts DEF ReconcileRead, ReconcileFails, OpenDeadlines, LoopsTyped
  <2> QED BY <1>3, <2>1, Unchanged, PartsNext DEF ReconcileRead, ReconcileFails
<1>4. CASE ReconcileWrite(p)
  <2>1. LoopsTyped'
    BY <1>4, Parts DEF ReconcileWrite, LoopsTyped
  <2>2. IndexTyped'
    BY <1>4, Parts DEF ReconcileWrite, ScheduleMany, IndexTyped, DueTyped
  <2> QED BY <1>4, <2>1, <2>2, Unchanged, PartsNext DEF ReconcileWrite
<1>5. CASE Poll(p)
  <2>1. PICK ds \in Batches : Claim(p, ds)
    BY <1>5 DEF Poll
  <2>2. IndexTyped'
    BY <2>1, Parts DEF Claim, Take, IndexTyped
  <2>3. LoopsTyped'
    BY <1>5, <2>1, Parts DEF Poll, Claim, LoopsTyped
  <2>4. HandlersTyped'
    <3>1. Idle \in Handler /\ [Idle EXCEPT !.phase = "queued"] \in Handler
      BY DEF Idle, Handler
    <3>2. [d \in Disputes |-> IF d \in ds THEN [Idle EXCEPT !.phase = "queued"] ELSE Idle]
            \in [Disputes -> Handler]
      BY <3>1
    <3> QED BY <2>1, <3>2, Parts DEF Claim, HandlersTyped
  <2> QED BY <1>5, <2>2, <2>3, <2>4, Unchanged, PartsNext DEF Poll
<1>6. CASE ClaimFails(p)
  <2>1. LoopsTyped'
    BY <1>6, Parts DEF ClaimFails, NoBatch, LoopsTyped
  <2>2. IndexTyped'
    BY <1>6, Parts DEF ClaimFails, Take, IndexTyped
  <2> QED BY <1>6, <2>1, <2>2, Unchanged, PartsNext DEF ClaimFails
<1>8. CASE EndTick(p)
  <2>1. LoopsTyped'
    BY <1>8, Parts DEF EndTick, NoBatch, LoopsTyped
  <2> QED BY <1>8, <2>1, Unchanged, PartsNext DEF EndTick
<1> QED BY <1>1, <1>2, <1>3, <1>4, <1>5, <1>6, <1>7, <1>8 DEF Process

LEMMA HandleTyped ==
  ASSUME TypeOK, ReadersKnow, NEW p \in Pools, NEW d \in Disputes, Handle(p, d)
  PROVE  TypeOK'
<1>1. CASE Acquire(p, d)
  <2>1. HandlersTyped'
    BY <1>1, BecomeTyped DEF Acquire
  <2>2. LocksTyped'
    BY <1>1, Parts DEF Acquire, LocksTyped
  <2> QED BY <1>1, <2>1, <2>2, Unchanged, PartsNext DEF Acquire
<1>2. CASE Contended(p, d)
  <2>1. HandlersTyped' /\ IndexTyped'
    BY <1>2, FinishTyped, PutBackTyped DEF Contended
  <2> QED BY <1>2, <2>1, Unchanged, PartsNext DEF Contended
<1>3. CASE AcquireFails(p, d)
  <2>1. HandlersTyped' /\ IndexTyped'
    BY <1>3, FinishTyped, PutBackTyped DEF AcquireFails
  <2>2. LocksTyped'
    BY <1>3, Parts DEF AcquireFails, LocksTyped
  <2> QED BY <1>3, <2>1, <2>2, Unchanged, PartsNext DEF AcquireFails, CallFails
<1>4. CASE LoadAndSkip(p, d) \/ ApplyStale(p, d)
  <2>1. HandlersTyped'
    BY <1>4, BecomeTyped DEF LoadAndSkip, ApplyStale
  <2> QED BY <1>4, <2>1, Unchanged, PartsNext DEF LoadAndSkip, ApplyStale
<1>5. CASE LoadAndEscalate(p, d)
  <2>1. HandlersTyped' /\ IndexTyped'
    BY <1>5, BecomeTyped, PutBackTyped DEF LoadAndEscalate
  <2> QED BY <1>5, <2>1, Unchanged, PartsNext DEF LoadAndEscalate
<1>6. CASE LoadAndDecide(p, d)
  <2>1. HandlersTyped'
    <3>1. handler[p][d] \in Handler /\ version[d] \in Nat
      BY Parts DEF HandlersTyped, RowsTyped
    <3>2. [phase |-> "decided", version |-> version[d],
           to |-> IF Late(d) THEN "expired" ELSE "refunded",
           overran |-> handler[p][d].overran] \in Handler
      BY <3>1 DEF Handler
    <3> QED BY <1>6, <3>2, OneHandler DEF LoadAndDecide
  <2> QED BY <1>6, <2>1, Unchanged, PartsNext DEF LoadAndDecide
<1>7. CASE LoadFails(p, d)
  <2>1. HandlersTyped' /\ IndexTyped'
    BY <1>7, BecomeTyped, PutBackTyped DEF LoadFails
  <2> QED BY <1>7, <2>1, Unchanged, PartsNext DEF LoadFails, CallFails
<1>8. ASSUME Is(p, d, "decided"), Write(p, d) PROVE RowsTyped'
  <2>1. handler[p][d].to \in {"refunded", "expired"}
    BY <1>8 DEF ReadersKnow
  <2> QED BY <1>8, <2>1, Parts DEF Write, RowsTyped
<1>9. CASE Apply(p, d)
  <2>1. HandlersTyped'
    BY <1>9, BecomeTyped DEF Apply
  <2> QED BY <1>8, <1>9, <2>1, Unchanged, PartsNext DEF Apply
<1>10. CASE ApplyFails(p, d)
  <2>1. HandlersTyped' /\ IndexTyped'
    BY <1>10, BecomeTyped, PutBackTyped DEF ApplyFails
  <2> QED BY <1>8, <1>10, <2>1, Unchanged, PartsNext DEF ApplyFails, CallFails
<1>11. CASE RescheduleFails(p, d)
  <2>1. HandlersTyped'
    BY <1>11, BecomeTyped, FinishTyped DEF RescheduleFails
  <2> QED BY <1>11, <2>1, Unchanged, PartsNext DEF RescheduleFails
<1>12. CASE Leave(p, d) \/ LeaveFails(p, d)
  <2>1. HandlersTyped'
    BY <1>12, FinishTyped DEF Leave, LeaveFails
  <2>2. LocksTyped'
    BY <1>12, Parts DEF Leave, LeaveFails, Unlocked, LocksTyped
  <2> QED BY <1>12, <2>1, <2>2, Unchanged, PartsNext DEF Leave, LeaveFails
<1> QED BY <1>1, <1>2, <1>3, <1>4, <1>5, <1>6, <1>7, <1>9, <1>10, <1>11, <1>12 DEF Handle

LEMMA TypeStep == TypeOK /\ ReadersKnow /\ [Next]_vars => TypeOK'
<1>1. TypeOK /\ UNCHANGED vars => TypeOK'
  BY Unchanged, PartsNext DEF vars
<1> QED BY <1>1, AroundTyped, ProcessTyped, HandleTyped DEF Next

LEMMA TypeInit == Init => TypeOK
<1> SUFFICES ASSUME Init PROVE TypeOK OBVIOUS
<1>1. DueTyped /\ IndexTyped /\ LocksTyped
  BY IndexAssumption DEF Init, IndexInit, DueTyped, IndexTyped, LocksTyped, Score, Past
<1>2. RowsTyped /\ LoopsTyped /\ CountsTyped
  BY DEF Init, RowsTyped, LoopsTyped, CountsTyped
<1>3. HandlersTyped
  BY DEF Init, HandlersTyped, Idle, Handler
<1> QED BY <1>1, <1>2, <1>3, Parts

-----------------------------------------------------------------------------
(* What one step does to the handlers, whichever of them it is about.      *)
LEMMA OneMoves ==
  ASSUME TypeOK, NEW p \in Pools, NEW d \in Disputes, NEW h \in Handler,
         handler' = [handler EXCEPT ![p][d] = h]
  PROVE  /\ handler'[p][d] = h
         /\ \A q \in Pools, e \in Disputes :
              q # p \/ e # d => handler'[q][e] = handler[q][e]
BY Parts DEF HandlersTyped

LEMMA BecomeMoves ==
  ASSUME TypeOK, NEW p \in Pools, NEW d \in Disputes,
         NEW phase \in {"idle", "queued", "locked", "decided", "leaving"},
         Become(p, d, phase)
  PROVE  /\ handler'[p][d].phase = phase
         /\ handler'[p][d].overran = handler[p][d].overran
         /\ handler'[p][d].version = handler[p][d].version
         /\ handler'[p][d].to = handler[p][d].to
         /\ \A q \in Pools, e \in Disputes :
              q # p \/ e # d => handler'[q][e] = handler[q][e]
<1> DEFINE h == [handler[p][d] EXCEPT !.phase = phase]
<1>1. handler[p][d] \in Handler
  BY Parts DEF HandlersTyped
<1>2. /\ h \in Handler
      /\ h.phase = phase /\ h.overran = handler[p][d].overran
      /\ h.version = handler[p][d].version /\ h.to = handler[p][d].to
  BY <1>1 DEF Handler
<1>3. handler' = [handler EXCEPT ![p][d] = h]
  BY DEF Become
<1> HIDE DEF h
<1> QED BY <1>2, <1>3, OneMoves

LEMMA FinishMoves ==
  ASSUME TypeOK, NEW p \in Pools, NEW d \in Disputes, Finish(p, d)
  PROVE  /\ handler'[p][d] = Idle
         /\ \A q \in Pools, e \in Disputes :
              q # p \/ e # d => handler'[q][e] = handler[q][e]
BY Parts DEF Finish, HandlersTyped

(* A TTL that runs out tells nobody.                                       *)
LEMMA LockLost ==
  ASSUME TypeOK, Flush \/ \E d \in Disputes : Lapse(d),
         NEW p \in Pools, NEW d \in Disputes
  PROVE  /\ handler'[p][d].phase = handler[p][d].phase
         /\ handler'[p][d].version = handler[p][d].version
         /\ handler'[p][d].to = handler[p][d].to
         /\ handler[p][d].overran => handler'[p][d].overran
         /\ lock'[d] = lock[d] \/ lock'[d] = Free
         /\ lock[d] = p /\ lock'[d] # p => handler'[p][d].overran
<1> DEFINE h(q, e) == [handler[q][e] EXCEPT !.overran = @ \/ lock[e] = q]
<1>1. ASSUME NEW q \in Pools, NEW e \in Disputes
      PROVE  /\ h(q, e).phase = handler[q][e].phase
             /\ h(q, e).version = handler[q][e].version
             /\ h(q, e).to = handler[q][e].to
             /\ handler[q][e].overran => h(q, e).overran
             /\ lock[e] = q => h(q, e).overran
  <2>1. handler[q][e] \in Handler
    BY Parts DEF HandlersTyped
  <2> QED BY <2>1 DEF Handler
<1>2. CASE Flush
  <2>1. handler'[p][d] = h(p, d) /\ lock'[d] = Free
    BY <1>2 DEF Flush
  <2> HIDE DEF h
  <2> QED BY <1>1, <2>1
<1>3. ASSUME NEW e \in Disputes, Lapse(e)
      PROVE  /\ handler'[p][d] = IF d = e THEN h(p, e) ELSE handler[p][d]
             /\ lock'[d] = IF d = e THEN Free ELSE lock[d]
  <2>1. handler' = [q \in Pools |-> [handler[q] EXCEPT ![e] = h(q, e)]]
    BY <1>3 DEF Lapse, WithoutLock
  <2> HIDE DEF h
  <2>2. lock' = [lock EXCEPT ![e] = Free]
    BY <1>3 DEF Lapse
  <2> QED BY <2>1, <2>2, Parts DEF HandlersTyped, LocksTyped
<1> HIDE DEF h
<1> QED BY <1>1, <1>2, <1>3

(* A handler moves alone, and does not forget what it read or lost.        *)
LEMMA HandleMoves ==
  ASSUME TypeOK, NEW p \in Pools, NEW d \in Disputes, Handle(p, d)
  PROVE  /\ \A q \in Pools, e \in Disputes :
              q # p \/ e # d => handler'[q][e] = handler[q][e]
         /\ \/ handler'[p][d] = Idle
            \/ Is(p, d, "queued") /\ handler'[p][d].phase = "locked"
            \/ LoadAndDecide(p, d)
            \/ handler'[p][d].phase = "leaving" /\ (Is(p, d, "locked") \/ Is(p, d, "decided"))
         /\ handler'[p][d] # Idle => handler'[p][d].overran = handler[p][d].overran
<1>1. CASE Acquire(p, d)
  BY <1>1, BecomeMoves DEF Acquire
<1>2. CASE LoadAndSkip(p, d) \/ LoadAndEscalate(p, d) \/ LoadFails(p, d)
  BY <1>2, BecomeMoves DEF LoadAndSkip, LoadAndEscalate, LoadFails
<1>3. CASE Apply(p, d) \/ ApplyStale(p, d) \/ ApplyFails(p, d)
  BY <1>3, BecomeMoves DEF Apply, ApplyStale, ApplyFails
<1>4. CASE Contended(p, d) \/ AcquireFails(p, d) \/ Leave(p, d) \/ LeaveFails(p, d)
  BY <1>4, FinishMoves DEF Contended, AcquireFails, Leave, LeaveFails
<1>5. CASE RescheduleFails(p, d)
  BY <1>5, FinishMoves, BecomeMoves DEF RescheduleFails
<1>6. CASE LoadAndDecide(p, d)
  BY <1>6, Parts DEF LoadAndDecide, HandlersTyped
<1> QED BY <1>1, <1>2, <1>3, <1>4, <1>5, <1>6 DEF Handle

(* A process puts handlers on its batch only when all of them are done.    *)
LEMMA ProcessMoves ==
  ASSUME TypeOK, NEW p \in Pools, Process(p), NEW q \in Pools, NEW d \in Disputes
  PROVE  \/ handler'[q][d] = handler[q][d]
         \/ handler'[q][d].phase \in {"idle", "queued"}
<1>1. CASE Poll(p)
  <2>1. PICK ds \in Batches : Claim(p, ds)
    BY <1>1 DEF Poll
  <2>2. Idle.phase = "idle" /\ [Idle EXCEPT !.phase = "queued"].phase = "queued"
    BY DEF Idle
  <2>3. q = p => handler'[q][d] \in {Idle, [Idle EXCEPT !.phase = "queued"]}
    BY <2>1, Parts DEF Claim, HandlersTyped
  <2> QED BY <2>1, <2>2, <2>3, Parts DEF Claim, HandlersTyped
<1>2. CASE Crash(p)
  BY <1>2, Parts DEF Crash, HandlersTyped, Idle
<1> QED
  BY <1>1, <1>2 DEF Process, Start, Stop, Exit, ReconcileRead, ReconcileWrite,
       ReconcileFails, ClaimFails, EndTick

-----------------------------------------------------------------------------
(* Which actions write to the row.                                         *)
LEMMA WhoHandles ==
  ASSUME NEW p \in Pools, NEW d \in Disputes, Handle(p, d)
  PROVE  /\ UNCHANGED dbVars \/ (Is(p, d, "decided") /\ Write(p, d))
         /\ UNCHANGED faults \/ Fault
BY DEF Handle, Acquire, Contended, AcquireFails, LoadAndSkip, LoadAndEscalate,
       LoadAndDecide, LoadFails, Apply, ApplyStale, ApplyFails, RescheduleFails, Leave,
       LeaveFails, CallFails

LEMMA WhoWrites ==
  ASSUME [Next]_vars
  PROVE  \/ UNCHANGED dbVars
         \/ \E d \in Disputes : File(d) \/ Overtake(d) \/ Consume(d)
         \/ \E p \in Pools, d \in Disputes : Is(p, d, "decided") /\ Write(p, d)
<1>1. CASE Tick \/ Flush \/ \E e \in Disputes : Lapse(e)
  BY <1>1 DEF Tick, Flush, Lapse
<1>2. ASSUME NEW p \in Pools, Process(p) PROVE UNCHANGED dbVars
  BY <1>2 DEF Process, Start, Stop, Exit, Crash, ReconcileRead, ReconcileWrite,
       ReconcileFails, Poll, ClaimFails, EndTick
<1>3. CASE UNCHANGED vars
  BY <1>3 DEF vars
<1> QED BY <1>1, <1>2, <1>3, WhoHandles DEF Next, Around

(* The row only gets newer, and off the clock only by getting newer.       *)
LEMMA RowsMove ==
  ASSUME TypeOK, [Next]_vars, NEW d \in Disputes
  PROVE  /\ version'[d] >= version[d]
         /\ version'[d] = version[d] /\ state[d] \in OnTheClock => state'[d] \in OnTheClock
<1>0. version[d] \in Nat
  BY Parts DEF RowsTyped
<1>1. CASE UNCHANGED dbVars
  BY <1>0, <1>1 DEF dbVars
<1>2. ASSUME NEW e \in Disputes, File(e) \/ Overtake(e) \/ Consume(e)
      PROVE  /\ version'[d] >= version[d]
             /\ version'[d] = version[d] /\ state[d] \in OnTheClock
                  => state'[d] \in OnTheClock
  BY <1>0, <1>2, Parts DEF File, Overtake, Consume, RowsTyped, OnTheClock
<1>3. ASSUME NEW p \in Pools, NEW e \in Disputes, Write(p, e)
      PROVE  /\ version'[d] >= version[d]
             /\ version'[d] = version[d] /\ state[d] \in OnTheClock
                  => state'[d] \in OnTheClock
  BY <1>0, <1>3, Parts DEF Write, RowsTyped
<1> QED BY <1>1, <1>2, <1>3, WhoWrites

(* A decision is one somebody had, or was just taken on the row.           *)
LEMMA Decisions ==
  ASSUME TypeOK, [Next]_vars, NEW p \in Pools, NEW d \in Disputes, Is(p, d, "decided")'
  PROVE  \/ /\ Is(p, d, "decided")
            /\ handler'[p][d].version = handler[p][d].version
            /\ handler'[p][d].to = handler[p][d].to
         \/ LoadAndDecide(p, d)
<1>1. CASE UNCHANGED handler
  BY <1>1 DEF Is
<1>2. CASE Flush \/ \E e \in Disputes : Lapse(e)
  BY <1>2, LockLost DEF Is
<1>3. ASSUME NEW q \in Pools, Process(q) PROVE UNCHANGED handler[p][d]
  BY <1>3, ProcessMoves DEF Is
<1>4. ASSUME NEW q \in Pools, NEW e \in Disputes, Handle(q, e)
      PROVE  UNCHANGED handler[p][d] \/ LoadAndDecide(p, d)
  BY <1>4, HandleMoves DEF Is, Idle
<1>5. CASE Tick \/ \E e \in Disputes : File(e) \/ Overtake(e) \/ Consume(e)
  BY <1>1, <1>5 DEF Tick, File, Overtake, Consume
<1>6. CASE UNCHANGED vars
  BY <1>1, <1>6 DEF vars
<1> QED BY <1>1, <1>2, <1>3, <1>4, <1>5, <1>6 DEF Next, Around, Is

LEMMA ReadersStep == TypeOK /\ ReadersKnow /\ [Next]_vars => ReadersKnow'
<1> SUFFICES ASSUME TypeOK, ReadersKnow, [Next]_vars,
                    NEW p \in Pools, NEW d \in Disputes, Is(p, d, "decided")'
             PROVE  /\ handler'[p][d].to \in {"refunded", "expired"}
                    /\ handler'[p][d].version <= version'[d]
                    /\ handler'[p][d].version = version'[d] => state'[d] \in OnTheClock
  BY DEF ReadersKnow
<1>1. version[d] \in Nat /\ version'[d] \in Nat /\ handler[p][d].version \in Nat
  BY TypeStep, Parts DEF RowsTyped, HandlersTyped, Handler, TypeOK
<1>2. CASE /\ Is(p, d, "decided")
           /\ handler'[p][d].version = handler[p][d].version
           /\ handler'[p][d].to = handler[p][d].to
  BY <1>1, <1>2, RowsMove DEF ReadersKnow
<1>3. CASE LoadAndDecide(p, d)
  <2>1. /\ handler'[p][d].to \in {"refunded", "expired"}
        /\ handler'[p][d].version = version[d]
    BY <1>3, Parts DEF LoadAndDecide, HandlersTyped
  <2>2. state[d] \in OnTheClock /\ UNCHANGED <<state, version>>
    BY <1>3 DEF LoadAndDecide, Skips, dbVars
  <2> QED BY <1>1, <2>1, <2>2
<1> QED BY <1>2, <1>3, Decisions

LEMMA Inductive == Spec => [](TypeOK /\ ReadersKnow)
<1>1. Init => ReadersKnow
  BY DEF Init, ReadersKnow, Is, Idle
<1> QED BY <1>1, TypeInit, TypeStep, ReadersStep, PTL DEF Spec

(* The workers' and their Redis' state is always of its type, for any      *)
(* number of processes and disputes.                                       *)
THEOREM PoolTypes == Spec => []TypeOK
BY Inductive, PTL

-----------------------------------------------------------------------------
(* A lock is only given up by its own handler or its own TTL.              *)
LEMMA LockHeldStep == TypeOK /\ LockHeld /\ [Next]_vars => LockHeld'
<1> DEFINE Holding(q, e) ==
      handler[q][e].phase \in {"locked", "decided", "leaving"} /\ ~handler[q][e].overran
<1> SUFFICES ASSUME TypeOK, LockHeld, [Next]_vars,
                    NEW q \in Pools, NEW e \in Disputes, Holding(q, e)'
             PROVE  lock'[e] = q
  BY DEF LockHeld
<1>a. Free \notin Pools /\ Orphan \notin Pools
  BY IndexAssumption
<1>b. Holding(q, e) => lock[e] = q
  BY DEF LockHeld
<1>1. CASE UNCHANGED <<handler, lock>>
  BY <1>1, <1>b
<1>2. CASE Flush \/ \E d \in Disputes : Lapse(d)
  BY <1>2, <1>b, LockLost
<1>3. ASSUME NEW p \in Pools, Process(p) PROVE lock'[e] = q
  <2>1. Holding(q, e)
    BY <1>3, ProcessMoves
  <2>2. CASE Crash(p)
    <3>1. q # p
      BY <2>2, Parts DEF Crash, HandlersTyped, Idle
    <3> QED BY <1>b, <2>1, <2>2, <3>1 DEF Crash
  <2> QED
    BY <1>3, <1>b, <2>1, <2>2 DEF Process, Start, Stop, Exit, ReconcileRead, ReconcileWrite,
         ReconcileFails, Poll, ClaimFails, EndTick
<1>4. ASSUME NEW p \in Pools, NEW d \in Disputes, Handle(p, d) PROVE lock'[e] = q
  <2>1. CASE q = p /\ e = d /\ Is(p, d, "queued")
    <3>1. Acquire(p, d)
      BY <1>4, <2>1, FinishMoves DEF Handle, Is, Contended, AcquireFails, LoadAndSkip,
           LoadAndEscalate, LoadAndDecide, LoadFails, Apply, ApplyStale, ApplyFails,
           RescheduleFails, Leave, LeaveFails, Idle
    <3> QED BY <2>1, <3>1, Parts DEF Acquire, LocksTyped
  <2>2. CASE ~(q = p /\ e = d /\ Is(p, d, "queued"))
    <3>1. Holding(q, e)
      BY <1>4, <2>2, HandleMoves DEF Is, Idle, LoadAndDecide
    <3>2. CASE UNCHANGED lock
      BY <1>b, <3>1, <3>2
    <3>3. CASE Acquire(p, d) \/ AcquireFails(p, d)
      BY <1>a, <1>b, <3>1, <3>3, Parts DEF Acquire, AcquireFails, LocksTyped
    <3>4. CASE Leave(p, d) \/ LeaveFails(p, d)
      <4>1. q # p \/ e # d
        BY <3>4, FinishMoves DEF Leave, LeaveFails, Idle
      <4> QED BY <1>b, <3>1, <3>4, <4>1, Parts DEF Leave, LeaveFails, Unlocked, LocksTyped
    <3> QED
      BY <1>4, <3>2, <3>3, <3>4 DEF Handle, Contended, LoadAndSkip, LoadAndEscalate,
           LoadAndDecide, LoadFails, Apply, ApplyStale, ApplyFails, RescheduleFails
  <2> QED BY <2>1, <2>2
<1>5. CASE Tick \/ \E d \in Disputes : File(d) \/ Overtake(d) \/ Consume(d)
  BY <1>1, <1>5 DEF Tick, File, Overtake, Consume
<1>6. CASE UNCHANGED vars
  BY <1>1, <1>6 DEF vars
<1> QED BY <1>1, <1>2, <1>3, <1>4, <1>5, <1>6 DEF Next, Around

(* Release's token check is enough: whatever fails, stops or dies, a       *)
(* handler that has not overrun its TTL is the one with the lock.          *)
THEOREM LocksAreHeld == Spec => []LockHeld
<1>1. Init => LockHeld
  BY DEF Init, LockHeld, Idle
<1> QED BY <1>1, Inductive, LockHeldStep, PTL DEF Spec

-----------------------------------------------------------------------------
(* Whatever is put back by a handler is put outside the window.            *)
LEMMA PutBackOutside ==
  ASSUME TypeOK, NEW d \in Disputes, NEW p,
         RescheduleSoon(p, d) \/ PutBack(p, d, NextVisit(due[d]))
  PROVE  /\ index'[d] \in Int /\ index'[d] > Lookahead
         /\ \A e \in Disputes : e # d => index'[e] = index[e]
<1>1. due[d] \in Int /\ Past \in Int
  BY Parts DEF Past, DueTyped, Score
<1>2. \A t \in Int : NextVisit(t) \in Int /\ NextVisit(t) > Lookahead
  BY IndexAssumption DEF NextVisit
<1> QED BY <1>1, <1>2, Parts DEF RescheduleSoon, PutBack, Schedule, IndexTyped

LEMMA HandleSchedules ==
  ASSUME TypeOK, NEW p \in Pools, NEW d \in Disputes, Handle(p, d)
  PROVE  UNCHANGED index \/ RescheduleSoon(p, d) \/ PutBack(p, d, NextVisit(due[d]))
BY DEF Handle, Acquire, Contended, AcquireFails, LoadAndSkip, LoadAndEscalate,
       LoadAndDecide, LoadFails, Apply, ApplyStale, ApplyFails, RescheduleFails, Leave,
       LeaveFails

(* No retry, escalation or failure of a handler brings a dispute back into *)
(* the claim window, its own deadline included: only the queue's consumer  *)
(* and the reconciler put one there, at the deadline.                      *)
THEOREM NoLivelock == Spec => OnlyDeadlinesInWindow
<1> DEFINE Outside(d) == index'[d] # index[d] /\ index'[d] # Absent =>
                           \/ index'[d] > Lookahead
                           \/ index'[d] = due[d] /\ UNCHANGED handler
<1>1. ASSUME TypeOK, [Next]_vars, ~Tick, NEW d \in Disputes PROVE Outside(d)
  <2>1. CASE UNCHANGED index
    BY <2>1
  <2>2. CASE Flush \/ \E e \in Disputes : File(e) \/ Overtake(e) \/ Consume(e) \/ Lapse(e)
    BY <1>1, <2>2, Parts DEF Flush, File, Overtake, Consume, Lapse, Schedule, IndexTyped
  <2>3. ASSUME NEW p \in Pools, Process(p) PROVE Outside(d)
    BY <1>1, <2>3, Parts DEF Process, Start, Stop, Exit, Crash, ReconcileRead,
         ReconcileWrite, ReconcileFails, Poll, ClaimFails, EndTick, Claim, Take,
         ScheduleMany, IndexTyped
  <2>4. ASSUME NEW p \in Pools, NEW e \in Disputes, Handle(p, e) PROVE Outside(d)
    <3>1. CASE UNCHANGED index
      BY <3>1
    <3>2. CASE RescheduleSoon(p, e) \/ PutBack(p, e, NextVisit(due[e]))
      BY <1>1, <3>2, PutBackOutside
    <3> QED BY <1>1, <2>4, <3>1, <3>2, HandleSchedules
  <2>5. CASE UNCHANGED vars
    BY <2>1, <2>5 DEF vars
  <2> QED BY <1>1, <2>1, <2>2, <2>3, <2>4, <2>5 DEF Next, Around
<1>2. TypeOK /\ [Next]_vars => [Tick \/ \A d \in Disputes : Outside(d)]_vars
  BY <1>1
<1> QED BY <1>2, Inductive, PTL DEF Spec, OnlyDeadlinesInWindow

-----------------------------------------------------------------------------
(* Nothing is announced before it is filed.                                *)
FiledFirst == \A d \in Disputes : deliveries[d] > 0 => state[d] # "absent"

LEMMA FiledFirstStep == TypeOK /\ ReadersKnow /\ FiledFirst /\ [Next]_vars => FiledFirst'
<1> SUFFICES ASSUME TypeOK, ReadersKnow, FiledFirst, [Next]_vars, NEW d \in Disputes,
                    deliveries'[d] > 0
             PROVE  state'[d] # "absent"
  BY DEF FiledFirst
<1>1. CASE UNCHANGED dbVars
  BY <1>1 DEF dbVars, FiledFirst
<1>2. ASSUME NEW e \in Disputes, File(e) \/ Overtake(e) \/ Consume(e)
      PROVE  state'[d] # "absent"
  BY <1>2, Parts DEF File, Overtake, Consume, RowsTyped, FiledFirst
<1>3. ASSUME NEW p \in Pools, NEW e \in Disputes, Is(p, e, "decided"), Write(p, e)
      PROVE  state'[d] # "absent"
  BY <1>3, Parts DEF Write, RowsTyped, FiledFirst, ReadersKnow
<1> QED BY <1>1, <1>2, <1>3, WhoWrites

(* An entry leaves the index only into the hands of a handler, or by a     *)
(* call that failed.                                                       *)
LEMMA TrackedStep ==
  TypeOK /\ ReadersKnow /\ FiledFirst /\ Tracked /\ [Next]_vars => Tracked'
<1> DEFINE Unwritten(d) == state[d] = "received" /\ version[d] = 0 /\ deliveries[d] > 0
           Seen(d) == index[d] # Absent \/ InHand(d)
<1> SUFFICES ASSUME TypeOK, ReadersKnow, FiledFirst, Tracked, [Next]_vars,
                    ~Crashes, faults' = 0, NEW d \in Disputes, Unwritten(d)'
             PROVE  Seen(d)'
  BY DEF Tracked
<1>a. Absent \notin Int
  BY IndexAssumption
<1>b. version[d] \in Nat /\ deliveries[d] \in Nat /\ faults \in Nat
  BY Parts DEF RowsTyped, CountsTyped
<1>c. ~Fault
  BY <1>b DEF Fault
<1>d. faults = 0 /\ Unwritten(d) => Seen(d)
  BY DEF Tracked
<1>1. CASE UNCHANGED <<index, handler, dbVars, faults>>
  BY <1>1, <1>d DEF dbVars, InHand
<1>2. CASE Tick
  <2>1. index[d] # Absent => index'[d] \in Int
    BY <1>2, Parts, Scores DEF Tick, IndexTyped, Score
  <2> QED BY <1>2, <1>a, <1>d, <2>1 DEF Tick, dbVars, InHand
<1>3. CASE \E e \in Disputes : Lapse(e)
  <2>1. UNCHANGED <<index, dbVars, faults>>
    BY <1>3 DEF Lapse
  <2>2. \A p \in Pools : handler'[p][d].phase = handler[p][d].phase
    BY <1>3, LockLost
  <2> QED BY <1>d, <2>1, <2>2 DEF dbVars, InHand
<1>4. ASSUME NEW e \in Disputes, Consume(e) PROVE Seen(d)'
  <2>1. CASE e = d
    BY <1>4, <1>a, <2>1, Parts DEF Consume, Schedule, IndexTyped, DueTyped, Score
  <2>2. CASE e # d
    <3>1. Seen(d)
      BY <1>4, <1>d, <2>2, Parts DEF Consume, RowsTyped
    <3> QED BY <1>4, <2>2, <3>1, Parts DEF Consume, Schedule, IndexTyped, InHand
  <2> QED BY <2>1, <2>2
<1>5. ASSUME NEW e \in Disputes, File(e) \/ Overtake(e) PROVE Seen(d)'
  <2>1. Unwritten(d)
    BY <1>5, <1>b, Parts DEF File, Overtake, RowsTyped, FiledFirst
  <2> QED BY <1>5, <1>d, <2>1 DEF File, Overtake, InHand
<1>6. ASSUME NEW p \in Pools, Process(p) PROVE Seen(d)'
  <2>1. UNCHANGED <<dbVars, faults>> /\ Seen(d)
    BY <1>6, <1>c, <1>d DEF Process, Start, Stop, Exit, Crash, ReconcileRead,
         ReconcileWrite, ReconcileFails, Poll, ClaimFails, EndTick, dbVars
  <2>2. CASE Poll(p)
    <3>1. PICK ds \in Batches : Claim(p, ds)
      BY <2>2 DEF Poll
    <3>2. CASE d \in ds
      <4>1. handler'[p][d] = [Idle EXCEPT !.phase = "queued"]
        BY <3>1, <3>2, Parts DEF Claim, HandlersTyped
      <4>2. handler'[p][d].phase = "queued"
        BY <4>1 DEF Idle
      <4> QED BY <4>2 DEF InHand
    <3>3. CASE d \notin ds
      <4>1. index'[d] = index[d]
        BY <3>1, <3>3 DEF Claim, Take
      <4>2. \A q \in Pools : q # p => handler'[q] = handler[q]
        BY <3>1, Parts DEF Claim, HandlersTyped
      <4>3. handler[p][d].phase = "idle"
        BY <2>2 DEF Poll, MayClaim, Quiet
      <4> QED BY <2>1, <4>1, <4>2, <4>3 DEF InHand
    <3> QED BY <3>2, <3>3
  <2>3. CASE ReconcileWrite(p)
    BY <2>1, <2>3, <1>a, Parts DEF ReconcileWrite, ScheduleMany, DueTyped, Score, InHand
  <2> QED
    BY <1>6, <1>c, <2>1, <2>2, <2>3 DEF Process, Start, Stop, Exit, Crash, ReconcileRead,
         ReconcileFails, ClaimFails, EndTick, InHand
<1>7. ASSUME NEW p \in Pools, NEW e \in Disputes, Handle(p, e) PROVE Seen(d)'
  <2>1. CASE e = d /\ (RescheduleSoon(p, e) \/ PutBack(p, e, NextVisit(due[e])))
    BY <2>1, <1>a, PutBackOutside
  <2>2. CASE e = d /\ UNCHANGED index
    <3>1. CASE Acquire(p, d) \/ LoadAndDecide(p, d)
      BY <3>1, BecomeMoves, Parts DEF Acquire, LoadAndDecide, HandlersTyped, InHand
    <3>2. CASE LoadAndSkip(p, d)
      BY <3>2 DEF LoadAndSkip, Skips, OnTheClock, dbVars
    <3>3. CASE Apply(p, d)
      BY <3>3, <1>b, Parts DEF Apply, Write, RowsTyped
    <3>4. CASE ApplyStale(p, d)
      <4>1. handler[p][d].version <= version[d] /\ handler[p][d].version # version[d]
        BY <3>4 DEF ApplyStale, Fresh, ReadersKnow
      <4>2. version[d] = 0 /\ handler[p][d].version \in Nat
        BY <3>4, Parts DEF ApplyStale, dbVars, HandlersTyped, Handler
      <4> QED BY <4>1, <4>2
    <3>5. CASE Leave(p, d)
      <4>1. Seen(d) /\ UNCHANGED index /\ Is(p, d, "leaving")
        BY <3>5, <1>d DEF Leave, dbVars
      <4> QED BY <3>5, <4>1, FinishMoves DEF Leave, InHand, Is
    <3>6. CASE RescheduleFails(p, d) \/ LeaveFails(p, d)
      BY <3>6, <1>c DEF RescheduleFails, LeaveFails
    <3>7. CASE Contended(p, d) \/ AcquireFails(p, d) \/ LoadAndEscalate(p, d)
               \/ LoadFails(p, d) \/ ApplyFails(p, d)
      BY <3>7, <1>a, PutBackOutside DEF Contended, AcquireFails, LoadAndEscalate,
           LoadFails, ApplyFails
    <3> QED BY <1>7, <2>2, <3>1, <3>2, <3>3, <3>4, <3>5, <3>6, <3>7 DEF Handle
  <2>3. CASE e # d
    <3>1. UNCHANGED <<state[d], version[d], deliveries[d]>>
      BY <1>7, <2>3, WhoHandles, Parts DEF Write, RowsTyped, dbVars
    <3>2. index'[d] = index[d]
      BY <1>7, <2>3, HandleSchedules, PutBackOutside
    <3>3. faults = 0
      BY <1>7, <1>c, WhoHandles
    <3>4. \A q \in Pools : handler'[q][d] = handler[q][d]
      BY <1>7, <2>3, HandleMoves
    <3> QED BY <1>d, <3>1, <3>2, <3>3, <3>4 DEF InHand
  <2> QED BY <1>7, <2>1, <2>2, <2>3, HandleSchedules
<1>8. CASE Flush
  BY <1>8, <1>c DEF Flush
<1>9. CASE UNCHANGED vars
  BY <1>1, <1>9 DEF vars
<1> QED BY <1>2, <1>3, <1>4, <1>5, <1>6, <1>7, <1>8, <1>9 DEF Next, Around

(* Short of a failing call and a process that dies, no dispute the queue   *)
(* announced is ever out of sight before somebody has acted on it.         *)
THEOREM NoneLost == Spec => []Tracked
<1>1. Init => FiledFirst /\ Tracked
  BY DEF Init, FiledFirst, Tracked
<1> QED BY <1>1, Inductive, FiledFirstStep, TrackedStep, PTL DEF Spec

-----------------------------------------------------------------------------
(* The refinement: what the pool does to a dispute is a step of its duty.  *)
LEMMA FateMoves ==
  ASSUME TypeOK, NEW d \in Disputes, NEW s, state' = [state EXCEPT ![d] = s]
  PROVE  Fates' = [Fates EXCEPT ![d] = FateOf(s)] /\ Fates[d] = FateOf(state[d])
<1>1. \A e \in Disputes : state'[e] = IF e = d THEN s ELSE state[e]
  BY Parts DEF RowsTyped
<1>2. \A e \in Disputes : Fates'[e] = IF e = d THEN FateOf(s) ELSE Fates[e]
  BY <1>1 DEF Fates
<1> QED BY <1>2 DEF Fates

LEMMA DutyStep ==
  TypeOK /\ ReadersKnow /\ [Next]_vars => [Duty!Next]_Fates
<1> SUFFICES ASSUME TypeOK, ReadersKnow, [Next]_vars PROVE Duty!Next \/ Fates' = Fates
  OBVIOUS
<1>1. CASE UNCHANGED dbVars
  BY <1>1 DEF dbVars, Fates
<1>2. ASSUME NEW d \in Disputes, File(d) PROVE Duty!Next
  <2>1. Fates[d] = "absent" /\ Fates' = [Fates EXCEPT ![d] = "open"]
    BY <1>2, FateMoves DEF File, FateOf, OnTheClock
  <2> QED BY <2>1 DEF Duty!Next, Duty!Becomes, Fates, FateOf
<1>3. ASSUME NEW d \in Disputes, Overtake(d) PROVE Duty!Next \/ Fates' = Fates
  <2>1. PICK s \in {"received", "resolving", "draft_ready", "represented"} :
          /\ <<state[d], s>> \in Moves
          /\ state' = [state EXCEPT ![d] = s]
    BY <1>3 DEF Overtake
  <2>2. Fates[d] = "open" /\ Fates' = [Fates EXCEPT ![d] = FateOf(s)]
    BY <2>1, FateMoves DEF Moves, FateOf, OnTheClock
  <2>3. CASE s = "represented"
    BY <2>2, <2>3 DEF Duty!Next, Duty!Becomes, Fates, FateOf, OnTheClock
  <2>4. CASE s # "represented"
    BY <2>1, <2>2, <2>4 DEF Fates, FateOf, OnTheClock
  <2> QED BY <2>3, <2>4
<1>4. ASSUME NEW d \in Disputes, Consume(d) PROVE Fates' = Fates
  BY <1>4 DEF Consume, Fates
<1>5. ASSUME NEW p \in Pools, NEW d \in Disputes, Is(p, d, "decided"), Write(p, d)
      PROVE  Duty!Next
  <2>1. state[d] \in OnTheClock /\ handler[p][d].to \in {"refunded", "expired"}
    BY <1>5 DEF ReadersKnow, Write, Fresh
  <2>2. Fates[d] = "open" /\ Fates' = [Fates EXCEPT ![d] = "settled"]
    BY <1>5, <2>1, FateMoves DEF Write, FateOf, OnTheClock
  <2> QED BY <2>2 DEF Duty!Next, Duty!Becomes, Fates, FateOf
<1> QED BY <1>1, <1>2, <1>3, <1>4, <1>5, WhoWrites

(* The pool implements the safety of its duty: whatever is stale, retried, *)
(* delivered twice or decided by two handlers at once, a dispute is        *)
(* settled once, from the clock, and never after a person has argued it.   *)
THEOREM SettlesOnce == Spec => Duty!Safety
<1>1. Init => Fates = [d \in Disputes |-> "absent"]
  BY DEF Init, Fates, FateOf
<1>2. Spec => Fates = [d \in Disputes |-> "absent"] /\ [][Duty!Next]_Fates
  BY <1>1, Inductive, DutyStep, PTL DEF Spec
<1> QED BY <1>2 DEF Duty!Safety, Duty!Init
=============================================================================
