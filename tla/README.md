# Dispute Router in TLA+

Dispute Router is a chargeback platform: processors report disputes over a webhook,
deadline workers refund or expire them, an agent drafts letters for the chargebacks, people
submit or discard the drafts, and the card network rules. Everything that matters is in
Postgres; Redis, SQS and a language model stand around it. These modules describe what the
code does to a dispute and to its money, TLC checks them on small instances, and TLAPS proves
the main results for every value of the constants.

Paths below are relative to the repository.

## 1. Inventory

| Part | State it keeps | Operations | What is hard about it |
| --- | --- | --- | --- |
| Ledger (`internal/ledger`, `db/migrations/000002`) | journal entries and postings, balance trigger | Hold, ReleaseHold, SettleLoss, Refund | zero-sum entries, one entry per reference, currencies without accounts |
| Tables (`db/migrations/000001`, `000003`, `internal/events`, `internal/outbox/insert.go`) | disputes with an optimistic version, charges, audit events, outbox, agent runs | written by all the parts below | four kinds of writer on one row, all-or-nothing transactions |
| Ingest store (`internal/ingest/store.go`) | webhook_events | record, recordRuling | repeated, reordered, contradictory deliveries |
| Ingest HTTP path (`handler.go`, `idempotency.go`) | Redis keys | ServeHTTP, Claim, record, Release | a claim that outlives the request that made it |
| Secrets cache, signatures, rate limiter (`internal/secrets`, `internal/signing`, `ratelimit.go`) | a document with an age, a refresh mutex, token buckets in Redis | For, load, VerifyAny, Allow | a cache that lapses between two looks at it, clocks of several instances |
| Worker store and rules (`internal/worker/store.go`, `rules.go`) | the snapshot of one claim | load, Decide, apply | acting on a stale snapshot, two workers at once |
| Worker pool (`worker.go`, `deadlines.go`, `locks.go`) | sorted set of deadlines, locks with a TTL, batches | reconcile, claim, handle, reschedule, shutdown | lost index entries, lapsed locks, livelock, starvation |
| Outbox relay, SQS, consumer (`relay.go`, `sqs.go`, `worker/events.go`) | published_at, a transaction's row locks, messages in flight | drainOnce, Publish, handle | at-least-once delivery, ordering, poison messages |
| Dead-letter redrive (`internal/dlq`, `cmd/dlq`) | the DLQ, a redrive count | Peek, Replay, Purge | duplicate or lost messages between send and delete |
| Agent (`internal/agent/assist.go`, `store.go`, `verify.go`, `cmd/agent`) | claims, runs, money spent | Candidates, Hold, Assist, Record, Release | a claim abandoned by a crash or a dead context, a ceiling on prices known afterwards |
| Record assembly (`facts.go`, `evidence.go`, `precedent.go`, `baserate.go`, `backfill.go`, `cmd/embed`) | embeddings, an errgroup of four reads | For, Embedded, Backfill | reads that fail apart from each other, a limited block, two embedding models in one table, backfills side by side |
| Evidence upload (`internal/api/evidence.go`) | objects in a bucket | sign, post, list | presigned forms posted in any order, twice or late |
| Reviews (`internal/api/reviews.go`) | agent_runs.review | Decide | two reviewers on stale pages, against the deadline |
| Tool loop and its tools (`internal/toolloop`, `internal/disputetools`, `cmd/ask`) | turns, tokens, a trace | Run, runTools, Registry.Run | concurrent tools of which one fails, a budget, lists that are cut |
| Read API (`internal/api/filters.go`, `store.go`, `summary.go`, `handler.go`) | none | list, count, export, detail, summary, history | one answer out of several statements beside writers |
| Model client, prompts (`internal/llm`, `generate.go`) | | Messages, Embed | text in, text out |
| Simulator, seeds, evaluation, Terraform, boot, dashboard | | | data generation, infrastructure, presentation |

How they interact. The ingest process turns a webhook into rows of Postgres in one
transaction, an outbox row among them; its relay sends that to SQS. The worker process
consumes the queue into a sorted set in Redis, claims what is due from there, decides and
applies the decision in one transaction, which writes the outbox too. The agent and the API
write to the same dispute rows, and only `disputes.version` orders them. The agent reads the
bucket the API signs uploads for, and the embeddings a command fills in. The assistant's tools
and the dashboard read the same tables through the same queries. Nothing else is shared: every
other call between parts is a message, a Redis command or a row.

What makes the system correct, part by part:

- the money held for disputes is that of the chargebacks still open, and each end has one price;
- a dispute ends once, and nothing touches it after;
- a stale reader (worker, agent, reviewer) never wins over the writer that overtook it;
- one letter goes to the network per dispute, and a ruling needs it;
- an open dispute is always found again by a worker, whatever crashes, and is ended in time;
- what a dispute did is told once in the audit trail, and announced once or more to the queue;
- an event of the outbox is acted on or lies where a person finds it, whoever crashes;
- a webhook answered with success has its row, and one delivery of it was accepted;
- a rotated key takes effect as the cache lapses, and a bucket lets through what it was refilled
  with;
- the record a model is shown is whole or an error, and names only what belongs in it;
- a dispute's drafts stay within their ceiling, and no unchecked letter reaches a reviewer;
- what a reader is shown hangs together although its statements see different moments;
- a question to the assistant ends, within its budget, with a trace of what was really called.

## 2. The modules

```
Ledger <- DisputeStore <- IngestStore, WorkerStore, AgentRuns, ReviewStore
                             \_________ DisputeSystem _________/        implements DisputeLifecycle
                                  DisputeInvariants <- DisputeSystemProofs
                                      MCDisputeSystem

DeadlineIndex <- WorkerPool                                            implements DeadlineDuty
                   WorkerPoolProofs, MCWorkerPool

MessageQueue <- OutboxRelay, QueueConsumer, Redrive
                   \_______ Delivery _______/                           implements AtLeastOnce
                   DeliveryProofs, MCDelivery

Intake
   IntakeProofs, MCIntake

TokenBucket <- FrontDoor
   FrontDoorProofs, MCFrontDoor

ClaimBackfill, EvidenceBucket <- FactSource
                                   FactSourceProofs, MCFactSource
Drafting
   DraftingProofs, MCDrafting

DisputeReads <- ToolLoop
                  ToolLoopProofs, MCToolLoop
```

The groups meet in the tables. `DisputeSystem` writes an outbox row where `Delivery`
starts (`Insert`), `Delivery` ends in the `Schedule` with which a dispute enters `WorkerPool`
(`Deliver`), the decision `WorkerPool` only names is `WorkerStore`'s, and the transaction
`Intake` calls `Write` is `IngestStore`'s. A delivery that ends `FrontDoor` as "passed" is one
`Intake` sees arrive; `Drafting` is one claim of `AgentRuns` from the inside, and its
`Assemble` is one `Ask` of `FactSource`. `DisputeReads` has the part of `DisputeStore` that
its answers tell apart. Each group leaves the others open: what it does not
know about them is nondeterministic, so what it promises does not depend on them.

### Disputes and money

**Ledger** writes the four journal entries down as functions from an account to a signed
amount, and `AcceptedAtCommit` is the deferred balance trigger: zero sum, which an entry
without postings satisfies too.

**DisputeStore** is the schema: the columns that decide anything are variables indexed by
dispute, and the statements the writers share (`Move`, `Resolve`, `Post`, `RecordEvent`,
`Announce`) are operators. A database transaction is one action of the module that issues
it. Postgres makes that sound: every one of these transactions starts by writing the
dispute's row, or is guarded by the version it read.

**IngestStore** has one action per way `record` and `recordRuling` can commit. **WorkerStore**
splits a worker's visit into load, decide and apply, because the code reads outside the
transaction that writes. **AgentRuns** splits the agent's work into listing, claiming and
recording, with the failures, lost answers, dead contexts and crashes in between; what the model
answers is any outcome `attempt` can return. `dropped` is no state of the code: it remembers the
claims a fault has left standing without anybody who holds them. **ReviewStore** lets a reviewer
hold a page open for any time before the decision commits.

**DisputeSystem** is all of them over the same tables and the same clock, and states the
properties. The clock of a dispute has three positions (open, the last five minutes in which
`Candidates` no longer lists it, past), which are all the code tells apart.

**DisputeLifecycle** is what the platform promises about one dispute: it is open, may be
argued, ends once, and the money moves only as its end says. `KeepsPromise` says that
DisputeSystem implements it under the mapping at the end of `DisputeSystem.tla`.

### The worker pool

**DeadlineIndex** is the sorted set and the locks. Time is kept as distances: a score or a
deadline is the number of units (one unit is `retryBackoff`) until it comes, and `Tick` takes
one off all of them. Nothing in the code compares two distances that lie behind the present,
so -1 stands for all of those and the state space is finite without a bound on time.

**WorkerPool** has per process a reconciler, which reads Postgres in one action and writes
Redis in another, a poller, which claims batches while they come back full, and a handler per
claimed dispute with its lock, its load and decision, its apply and its release. Every call
to Redis or Postgres has a failing twin that may or may not have reached the server. A signal
cancels the pool's context; from then on the calls under it fail and only those under
`cleanupContext` go through. A process that died leaves its locks behind as orphans.

**DeadlineDuty** is the promise: every dispute on the clock comes off it, once.

### Delivery

**MessageQueue** is SQS, external to this code, in the two queues of `messaging.tf`. A message
is a copy of an outbox row; copies are numbered in the order they are sent and never reused,
so that a redelivery (the same copy) and a duplicate (another copy) stay apart.
`maxReceiveCount` is in `Receivable` and `DeadLetter`, retention (4 and 14 days) is left out.

**OutboxRelay** is `drainOnce` over several actions, because other relays run while one holds
its row locks: select with SKIP LOCKED, one publish per message, mark and commit, and what
happens when a send fails (the batch is cut there), a commit's answer is lost or the process
dies. `Refused` names messages the queue will never accept.

**QueueConsumer** acts on one message after another and deletes each once it has;
`Unhandled` names the messages the deployed version returns ErrUnhandled for.
**Redrive** is the dead-letter tool, which sends before it deletes, counts what it puts back,
and may be interrupted anywhere.

**Delivery** composes them. `Lapse` ends a visibility timeout; if somebody still has the
message in hand, that is one of the faults `MaxFaults` counts. **AtLeastOnce** is the promise:
an event is told only once committed, and then it is acted on, or a dead letter a person can
find, until a person puts it back or destroys it.

### Intake

**Intake** is a delivery from its arrival to its answer: claim (SETNX), the transaction,
release, each with its failing twin, under a context that is canceled when the sender hangs
up. A sender has one delivery of an event under way at a time, tries again after a 5xx or
after it hung up, and may repeat an event it was told about. Keys expire and Redis may be
flushed at any time. What the checks before the claim refuse is one action without effect.

### The front door

**TokenBucket** is the Lua script on one bucket: refill for the time that passed, cap, take a
token or not, write back, set the expiry. The time is the caller's, so it may go back from one
call to the next by up to `MaxSkew`; the expiry is told by Redis. Tokens are counted in parts
small enough that a refill is a whole number of them.

**FrontDoor** is what a delivery passes before `Intake`: the limit of its source (refused or
not), `SecretsFor` with its first lookup, the refresh mutex, the fetch that takes as long as it
takes or fails, the second lookup, `VerifyAny` over the merchant's keys within `Tolerance`, and the
merchant's bucket. An operator publishes and withdraws keys. A MAC is the key it was made with.

### The agent's record and run

**ClaimBackfill** is the table of embeddings with the backfills that fill it - select, pay,
write, cut anywhere. Nothing keeps two of them apart, so there are two, and each counts what it
has paid for. **EvidenceBucket** is the bucket of one dispute: a form is a second and a name, and
posting one writes that key. **FactSource** is `For`: the row, then history, evidence and the two
searches side by side, each step a statement or a request of its own that may fail; an error of
the first two cancels the group, the other two only end. What the searches find is left out.
`known` remembers the files there were when the listing was asked for.

**Drafting** is `Assist` and `attempt` on one dispute, with everything that happens to the
dispute between their steps: Hold (which may commit and lose its answer), the record, the two
estimates against the ceiling, the generator, the citations and the verifier, Record or
Release, and the deadline, a reviewer and uploads in between. A model call costs what `Prices`
holds, known only afterwards.

### Reading

**DisputeReads** is every answer as the statements it is put together from, each of which
sees the tables at a moment of its own: pages and counts of a filtered list, the export of
pages, a dispute's page, the summary and the history. What it reads
has two layers: `history`, the states a dispute's events tell of, and `claimed`, the disputes
an agent holds, of which no event tells. **ToolLoop** is `Run` with its halts, and `Complete`
with its attempts; `billed` is what the provider has charged, `wasted` what of that went for
responses that broke off or did not decode. The tools of one turn are processes under one group,
limited to `maxParallelTools`, whose statements are `DisputeReads`' own; a failing one cancels
the others.

## 3. The runs

| Run | Instance | What it shows |
| --- | --- | --- |
| `shared_charge` | alert + chargeback on one charge; worker, agent that crashes and whose statements fail, reviewer, operator | the inductive invariant, types included; held money, DisputeLifecycle |
| `two_alerts` | three alerts, two on one charge that can pay one of them, each delivered twice; 2 workers | refunds follow the ledger and stay within the capture; announcements are true and single |
| `one_chargeback` | 1 chargeback, 1 worker, 2 agents with 2 attempts, failing statements, lost answers and crashes, 2 reviewers, both rulings | one letter, one price, one standing claim, an end that is final, a trail that joins up, no claim left behind but by the faults that must |
| `two_pools` | 1 dispute that is escalated, 2 processes, 1 outside write, 1 signal | locks are released by their holder only, no id drops out of sight, what a handler puts back is not claimable at once |
| `duty` | 2 disputes, batches of 1, a draft that is taken back, 1 failing call, 1 crash or signal | DeadlineDuty, with more due than one batch takes and an id that is lost |
| `delivery` | 2 rows, one unhandled; 2 relays, 1 consumer, 1 operator, 1 fault | nothing lost, nothing told twice without a cause, exhausted letters stay, AtLeastOnce |
| `intake` | 2 events of one dispute, 1 break, 1 failing transaction | one 202 per dispute; without a break no stranded key and no forgotten event |
| `front_door` | 2 deliveries, 2 keys and a forged one, 1 rotation, 1 call by another instance whose clock is ahead, 1 fault | one fetch at a time, rotations in time, the bucket's bound; every delivery is answered if fetches end |
| `record` | 3 disputes, one of them to draft for and two with a claim, 2 files and 1 upload, 2 models, 2 backfills with 1 cut each, 1 fault | a whole record or an error that has its reason, its limits, an end; nobody pays twice for a claim but after a cut |
| `drafting` | 1 dispute, 4 runs, 2 attempts, ceiling 8, prices 1 or 3, 1 draft sent back, 1 fault | the ceiling, checked letters, spending on record |
| `reads` | 4 disputes, one of them held and two whose refund posts something, 1 write, 1 failing call; limits absent, 0, 1 and above the cap; 2 tools per turn, 2 turns, 2 attempts | walks and exports are whole, answers hang together, the loop ends in budget with a true trace |

Bounds. `MaxVersion` stops new writes once a dispute has changed that often (a claim and its
release add two versions, so 2 to 4 is enough for a claim, its loss and a second claim);
`MaxAttempts` is the code's own limit; amounts are 1 to 3, chosen so that one refund fits a
capture and two do not. Deadlines lie 1 or 2 units ahead with a look-ahead of 1, so that a
dispute is seen before, inside and after its window. One fault is what it takes to lose an id (a
claim whose answer is lost, or a process that dies with it); the repair comes with a reconcile
pass, and a fault in that only puts it off. In `delivery`, six copies let each row be published
twice, dead-lettered and put back; `MaxMessages` and `ReceiveMax` 1 make batches by interleaving
instead, and the theorems hold for any size. In `intake`, two slots per event are what one
hang-up can occupy. In `front_door` a unit of time is the cache's whole time, three of them let
it lapse around a rotation, or in the middle of a fetch, and a burst of one token with half a
token per unit makes refills that are not enough beside refills that are. In `record` two files
and an upload are what it takes to fill a block of three with files of two; each read has its
failure, and one fault is enough to cancel the others at any point; one search beside the two
needed reads is enough, as both end the same way. In `drafting` a ceiling of 8 is passed by 3 at
the earliest in the third run, so both the refusal beforehand and the overrun happen. In `reads`
pages of one row are walked while one row moves, is held or is released; two tools may run at
once and no turn has more, so the wait for a free slot does not occur (a turn of three is out of
reach). Deadlock checking is off everywhere: once every dispute has ended and every event has
been told, the system is rightly quiet.

Fairness. The pool's loops are tickers in a process ECS restarts, so `Start`, the reconcile,
poll and handler steps are weakly fair, and so are time and the TTL of an orphaned lock;
signals, crashes, failing calls and everything agents and people do are not. `Delivery` asks
the same of the relays (a ticker), the consumers (a loop) and the queues (SQS delivers and
times out), and nothing of the operator. Fairness is per process, not per message: WF of
`Relay(r)` only says the relay goes on. `Intake` asks that a request runs to its answer and
that a sender who has not been told tries again. `FactSource` asks that the goroutines of one
record run to their end, and `ToolLoop` that each tool and the loop itself go on: both run under
the deadline of `cmd/agent` and `cmd/ask`, so every statement and every call there comes back or
fails. `FrontDoor` asks that a request's own steps are taken, that the mutex goes to whoever has
waited longest (as Go's does) and that Redis answers or times out, but nothing of the fetch of
the keys: it runs under the request's context, which has no deadline, so `Answered` has the
condition that fetches end. Operators, other instances, uploads, writers and the model's choices
are free. All faults are bounded: liveness under failures that never stop is not claimed.

One run finds a disagreement between the code and what the repository says of it:

| Run | Says | Does |
| --- | --- | --- |
| `stranded_claim` | every path out of `record` commits or hands the claim back (`handler.go:213`) | the release runs under the request's context; if the sender hung up, the key stands for a day without a row and its retry is told "duplicate" |

Seen while modelling, and not given a run of their own. About money and disputes:

- `assist.go:161` says a faulted attempt gives the dispute back, but `Release` (164) runs under
  the context that ended, or fails for a reason of its own, which is only logged; and a hold that
  commits and loses its answer (`store.go:101-122`) leaves no claim to release. The dispute then
  stays in `resolving` until its deadline. `ClaimsReturned` says that nothing but these and a
  crash leaves one there;
- `-dispute` can put an alert on the chargeback's path; a ruling then moves a hold that was
  never made, against `verify.ts:89`. `Refinement` therefore has the condition that no alert is
  passed to `-dispute`;
- the agent's claim and release change `disputes.state` without an event, though
  `000001_init.up.sql:161` calls dispute_events an audit of every state change; a dispute's page
  that is opened while an agent holds it shows a state none of its events tells
  (`HangsTogether` has this case);
- a refund in a currency without accounts has no postings on the page either (`Booked`);
- a currency without accounts posts an entry without legs (`verify.ts:29` expects two), and
  nothing compares a dispute's amount with its charge (`verify.ts:50`);
- `assist.go:220-222` counts on the cost of earlier attempts, but a run that fails, loses its
  claim or cannot be recorded is dropped with its cost (153-176): `Accounted` is stated short
  of such a failure.

About queues and keys:

- `relay.go:131` says a broken message does not block the ones behind it for ever; a refused
  row heads every batch, and each pass stops there before it has sent anything;
- the poll loop starts beside the first reconcile pass, though `worker.go:78` says the index is
  checked before any polling;
- `Replay` asks for up to `-n` messages on every receive, so it can move more than `-n`;
- `secrets.go:65-66` says the TTL bounds how long a rotated key takes to take effect; the
  document is dated when it is stored (165), and the fetch (127) has no deadline: `awsx.Load` sets
  none, and the server's WriteTimeout does not end the request's context. `RotationTakesEffect`
  allows for the time the fetch took, and whoever waits for the mutex waits as long;
- a SETNX whose answer is lost leaves a key that answers the repeats of an event nobody recorded;
- the cache of keys may lapse between the check under the mutex (`secrets.go:119-125`) and the
  second lookup (94): a valid delivery is then answered 401. `RotationTakesEffect` excepts
  exactly this.

About records and reads:

- `backfill.go:17-18` says stopping a backfill and starting it again "costs nothing and repeats
  nothing": the batch it was stopped in is paid for again, and two runs side by side both pay for
  what both selected, as nothing keeps them apart (145-156). `PaidOnce` bounds what each pays;
- a response of the model that broke off is asked for again and one that does not decode is
  dropped (`anthropic.go:108-126`, 152-174), both charged and neither on any record; `Run`
  returns without the cost of such a turn (`loop.go:188-190`). `SpendHolds` keeps it apart;
- a body that breaks off in the middle becomes "not read" in the record, though
  `evidence.go:73` says a file that cannot be fetched is an error;
- the listing is in the order of second and name of the form, not of upload
  (`api/evidence.go:53-55`), and a form of the same second and name, or the same form again,
  overwrites what is there, though `evidence.go:126` counts on the timestamp against that;
- a bad `due_within` given to the list tool ends the question instead of going back to the
  model (`tools.go:172-176`);
- a count that falls while a page is read hides that the page was cut (`NoteTold` is stated for
  tables that hold still in between);
- `handler.go:205` mentions the row count in a trailer that is never written;
- decisions (`reviewed_at`) and the customer history (`opened_at`) are sorted without a
  tie-break, unlike the lists;
- `cmd/ask` returns a failed question's error (`main.go:104-106`) before it prints the cost,
  which `Run` did account for (`SpendHolds`).

## 4. The proofs

All for every value of the constants that satisfies the named assumptions.

`DisputeSystemProofs`:

- `EntriesBalance`: every entry of the ledger balances where the four accounts exist;
- `Invariance`: `Inv` of `DisputeInvariants` is an invariant; from it `TypesHold`,
  `HeldMoneyHolds`, `MerchantChargeHolds`, `ResolvedHolds`, `AnnouncedHolds`,
  `DraftHasRunHolds`, `RulingStandsHolds`, `ClaimGuardsHolds`, `OneLetterHolds`,
  `AuditTrailHolds`, `RefundsAddUpHolds`;
- `ClaimsReturnedHolds`: a dispute in 'resolving' has an agent with a standing claim, or one whose
  claim was dropped by a hold without an answer, a failed release or a crash;
- `TerminalFinalHolds`: an action property, nothing changes about an ended dispute;
- `Refinement`: DisputeSystem implements DisputeLifecycle, if no alert is in `Manual`
  (section 3 says why the condition is needed).

None of the properties is inductive by itself: that a stale worker cannot expire a represented
dispute rests on the version being bumped by every write. So `Inv` adds `SnapshotStanding` and
`ClaimStanding` (a reader whose version still stands has seen the present state), `ClaimsDiffer`
(no two claims share a version), `ListedChargebacks` and `SettledOnce` (the ledger entries of a
dispute follow from its state). `EventsEnd` says that no event leads to 'resolving', so a claim,
which leaves none, can be read between two events; `SentOnce` names the one run that was
submitted, because a step keeps a name more easily than a count; `OneLetter` follows from it.
`RefundsFinite` joins `RefundsAddUp`: the charge's column is a sum over the set of refunds in the
ledger, which has a meaning only while that set is finite, and every write that touches it adds
or takes one refund (lemmas about such sums carry it). The claims need `NoClaimAssumption`: no
claim is `Nil`. The step lemmas do not repeat the sixteen actions for each conjunct: `StepEffect`
reduces any step to an `Effect` on one dispute - logged, filed, claimed, released, recorded,
reviewed, ended, ruled - and each conjunct is shown to survive each effect.

`WorkerPoolProofs`: `PoolTypes`, `LocksAreHeld`, `NoLivelock`, `NoneLost`, and `SettlesOnce`,
the safety half of DeadlineDuty. Types go part by part. `LocksAreHeld` is inductive with the
types. `NoneLost` adds `FiledFirst` (what has been delivered has a row), and `SettlesOnce`
adds `ReadersKnow`: a handler's version is at most the row's, and if it is the row's, the
dispute is still on the clock; the UPDATE's version guard does the rest.

`DeliveryProofs`: `DeliveryTypes`, `NothingLost` (`NeverLost`), `ToldOnce` (`OnceUntilAFault`),
`DeadStayDead` (`StaysDead`), and `DeliveryImplements`, the safety half of AtLeastOnce. `Inv`
there says what each process knows when it is about to forget something: a relay's sent rows are
carried by a copy or settled (`RelayKnows`), a consumer deletes what was acted on
(`ConsumerKnows`), and an operator deletes a dead letter that has a later copy (`OperatorKnows`).
That the copy is later, and so cannot in turn be waiting for this one, is what makes two operators
at one queue safe; `Segment` (copies are sent in order) supplies it. Every step is shown to
satisfy `Keeps` - no copy goes unless a later one stays or its row is settled - and the rest
follows from `Keeps` alone. `ToldOnce` adds `Locked` (a row is in one batch, and unpublished as
long as it is: what FOR UPDATE SKIP LOCKED gives) and `TellsOnce` (until something fails, a row
with a copy from a relay is marked, or among what a relay is about to mark); `DeadStayDead` adds
`PutBackFew` (what an operator is about to delete was below the limit when it was sent again, and
counts do not change).

`IntakeProofs`: `IntakeTypes`, `OneAcceptance`, `ClaimsBacked`. `AcceptanceInv` ties an
acceptance, told or under way, to being the first of its dispute with a row; `BackedInv` adds
that nobody's context is canceled while nothing broke.

`DraftingProofs`: `TypeCorrect`, `CeilingKept`, `DraftsAreChecked`, `SpendingIsRecorded`, for
any prices up to `MaxPrice` and any ceiling. `IInv` adds to the types what the claim knows of
the row (`ClaimKnows`: while its version stands, its `spent` and its attempt number are the
row's, which is why the two estimates speak for all attempts), what the stage says of the run's
cost (`Costs`: before a call there is room under the ceiling for the estimate), and where the
citations come from (`Evidence`: the record's files are the dispute's, and stay).

`FrontDoorProofs`: `BucketTypes` and `NeverMoreThanRefilled` of the bucket alone, for any rate,
burst, expiry and skew with `Rate * FullAfter >= Full` (the expiry is long enough to fill the
bucket, which is what the code's `ceil(burst/rate)` is for) and `MaxSkew <= Slack`. The argument
is a potential: tokens in the bucket plus tokens let through never exceed a full one plus the
refill for the time since the window began and the time the clocks went back. Both are carried
through the composition (`LimitHolds`, `TypeCorrect`), with `FetchedOnce` (whoever is between
check and store holds the mutex, and the cache stays lapsed) and `RotationsTakeEffect` (where
the cached document differs from the present one, the key was rotated after the fetch that
brought it began, however long that took).

`FactSourceProofs`: `PaidOnceHolds`, `RecordTypes`, `RecordWholeHolds`, `FitsBlockHolds`, for any
disputes, backfills, files in the bucket and limits. `PaidInv` says of each backfill what it has
paid for a claim by where the embedding is: not yet in its batch, in the batch it is paying for,
or in the row, whoever wrote it; a run of its own that was cut is its only way to pay again.
`RecordInv` says that the files read so far are the first of the listing, and that a file is left
out of the block only when the block is full. What the block holds is a sum along a sequence, by
a recursive function; that it grows by what each file shows, and depends on the files before it
only, goes by the least length where it would not.

`ToolLoopProofs`: `SpendKept` (`SpendHolds`), for any tools, prices, attempts and budget. `Books`
says what the provider has charged is on record but for the turn whose tools are running and what
was wasted; `EndTools` records it also when a tool failed, which is the case the property is
about. What was wasted is bounded attempt by attempt.
`ListsWholeHolds`, `HangsTogetherHolds`, `NoteToldHolds`, `TraceTrueHolds` and `TypeCorrect` rest
on `AllInv`, checked on the bounds of `reads` first. None of the first three speaks of a
request on its way, so the invariant does: `Sound(q, from)` says what the answers `q` has so far
still tell of tables that have moved on since write number `from`.

- A list (`ListTells`) tells the page and the count, while nothing was written. `Walked` places a
  reader in the list: what was seen is the list up to the offset. That needs `OneOrder`, that two
  arrangements of the same rows are the same: it is what the `d.id` of `orderBy` is for, and the
  proof fails without it at the first place where the two differ.
- A dispute's page (`DetailTells`) tells states and refunds that a history never takes back, and a
  claim is made only in a state an event told of. The
  events are read after the row, the postings after both; in another order the two
  inclusions do not hold (`EventsFirst` is that mutant).
- The panels of the summary (`SummaryTells`) are each as far from the tables as there were writes
  since `from` (`Near`): a write opens, closes or files one dispute, so it moves every count by
  one at most. That panels differ by no more than that among each other follows as they are read.
- The trace (`KeptWell`): of the first calls, those answered are the ones with an entry, in
  order, and if they are all answered there are as many entries as calls. It is a property of
  steps: what is recorded is compared with the calls as they are when the tools have ended.
  `CallSound` ties a note to the two answers it compares.

Named assumptions of the read side: there are finitely many disputes and their histories are
sequences of states (`ReadsAssumption`), what a model asks for is one of four tools or one of
three mistakes, and `None` is not an entry of a trace (`LoopAssumption`). The runs evaluate all of
them.

The type invariant of every system is part of what is proved, and in the dispute system
part of `Inv`. The prover cannot use an induction theorem that takes an operator; where
something holds of every number up to a length (a recursive function of it, a sequence, the size
of a set), the proof takes the least number it would not hold for, a set of numbers like any other
(`LeastNumber`).

Only model-checked: everything under fairness (the liveness of `KeepsPromise` in Delivery,
`DoesItsDuty`, `NoneForgotten`, `Answered`, `Returns`), which the prover cannot reach; and the
violation.

## 5. The plan, and what is left

Done, in this order: the dispute system, the worker pool, delivery, intake, the front door
(bucket, secrets, signatures), the agent's record and its run, the read side and the tool loop.

What could follow:

- the decisions list and the reviews page as further requests of `DisputeReads`.

Not modelled, and not planned:

- the text of prompts and letters, the fencing of quoted text and the providers' HTTP clients:
  text in, text out. What a model or an embedder may answer is left open where it is called;
- which of several matching precedents is nearest: any choice is allowed;
- merchants, customers and the event stream of the API, and the dashboard but for its paging:
  single statements without a write;
- the simulator, the seeds and the evaluation, which make test data and measure;
- Terraform beyond the queue's parameters, configuration and process wiring.
