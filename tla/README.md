# A verification of RegEngine

TLA+ models of the parts of RegEngine whose correctness depends on the order in
which processes, threads, transactions and retries act, TLC configurations that
check them on small instances, and TLAPS proofs of what matters most for
instances of every size.  Paths below are relative to `src/`.

    tlc -config IngestWriters.cfg MCIngest      # one configuration
    tlapm IngestProofs.tla                      # the proofs of one module

## 1. The system

RegEngine keeps FSMA 204 traceability events.  One FastAPI monolith
(`server/main.py`) runs in several gunicorn processes on several replicas over
one PostgreSQL; Redis, Stripe, a mail provider and Neo4j are outside.

| part | state | who acts at the same time | what must hold |
|---|---|---|---|
| task queue (`server/workers/task_processor.py`, `services/shared/task_queue.py`) | `fsma.task_queue` | two different workers in every process, operators, the scheduler | attempts are accounted for, outcomes are final, every task settles, evidence rows are never touched |
| event stores and hash chain (`services/shared/cte_persistence`, `services/shared/canonical_persistence`) | `fsma.cte_events`, `fsma.traceability_events`, `fsma.hash_chain` | every ingestion route, the retention job | one chain, no gap, no fork; one event per key; both stores agree |
| ingestion routes and per-label billing (`webhook_router_v2`, `webhook_compat.py`, `epcis`, `stripe_billing/label_billing.py`) | a transaction with savepoints, `fsma.label_charges` | other requests of the tenant, retries by clients | what is reported and billed is what is committed |
| chain verification, retention (`chain_verification_job.py`, `services/scheduler/service.py`) | the tables above | writers | an intact ledger is not reported as broken; the log readers see only grows |
| scheduler leadership (`services/scheduler/app/distributed.py`, `server/workers/embedded_scheduler.py`) | an advisory lock, heartbeats, a flag | all processes, the database that drops sessions | a leader without the lock stops; in the end somebody leads |
| scraping and alerts (`services/scheduler/service.py`, `app/circuit_breaker.py`, `app/state.py`, `app/notifications.py`) | seen items, breaker, outbox file | scraper threads, the drain, restarts | an item is acknowledged only when everything that follows from it is done or kept |
| supplier remediation (`services/ingestion/app/remediation`) | cases, links, patches, records | suppliers, buyers, concurrent requests | the record is what its patches make of it; a released record is final; the dashboard is truthful |
| its notification outbox (`remediation/outbox.py`, `delivery.py`) | `notification_outbox` | several drainers, revocations | every row settles; a duplicate mail carries no live older link |
| refresh sessions (`services/admin/app/session_store.py`, `auth/`) | Redis hashes, token keys, tombstones | tabs, logouts, expiry | one usable token per session; what was revoked stays revoked |
| FDA request workflow and deadline monitor (`services/shared/request_workflow`, `services/scheduler/service.py`) | the case, signoffs, packages, submissions; the alert cache | handlers that check a status and write later | versions have no gap, filings are backed and signed, breaches are reported |
| idempotency middleware, inbound e-mail, usage reporting (`services/shared/idempotency.py`, `email_ingest/service.py`, `stripe_billing/usage_reporting.py`) | a reservation, a claim, a counter each | retries, redeliveries, crashes | executed once, ingested once, billed as counted |

Everything else (parsers, validators, exports, graph projections, front end,
NLP) computes from these or renders them; `PROJECT.json` lists each part with
the reason it is left out, and every hazard with the line at which it bites.

The behaviours that are hard to test here: two workers written at different
times that share a table under different locking rules; a lock that belongs to a
transaction, and therefore ends with a savepoint that is rolled back; state that
is read once per batch, or once per request, and used after others have
committed; a fallback that repeats a half-finished batch; a job that reads a
ledger while it is written; a leader that does not know that it lost its lock;
crashes between a durable claim and the call it protects.

## 2. Modules

| module | models |
|---|---|
| `TaskTable`, `TaskProcessor`, `TaskWorker`, `TaskQueue` | the queue table and its operators, the two kinds of worker, and their composition in every process with lease expiry, crashes and restarts |
| `EventStores`, `Ingest` | the three tables of one tenant and the writes to them; requests, the chain lock, billing, retention, verification |
| `AppendOnlyLedger` | the abstract specification of the ledger: a log that grows at its end and enters no event twice |
| `Leadership` | election, heartbeat, loss and retirement of the scheduler's leader |
| `Scraping` | scrape, emit, notify, alert, acknowledge; the breaker; the outbox file of the webhook notifier |
| `Remediation`, `NotificationOutbox` | remediation cases; the drainers that mail their links (extends the former, for they mint and revoke the same tokens) |
| `Sessions` | refresh tokens, rotation, reuse detection, logouts |
| `RequestWorkflow`, `DeadlineMonitor` | one request case; the sweep over many cases |
| `Idempotency`, `InboundEmail`, `UsageReporting` | the three claim-then-act services |
| `MCTaskQueue`, `MCIngest`, `MCScheduler`, `MCServices` | the instances |
| `TaskQueueProofs`, `IngestProofs`, `TwinProofs`, `LedgerProofs`, `SessionProofs`, `ServiceProofs`, `SchedulerProofs`, `NotificationProofs` | the theorems |

One action is one SQL statement, one Redis command, one external call or one
transaction whose intermediate states nobody else can see.  Where a handler
reads, checks and writes later, the read and the write are two actions.  Time
appears as what the code compares it with: a lease is live or expired, a key
expires at some moment, a deadline is normal, critical or overdue.

### The task queue

`row[t]` is a row of the table; `proc[n]` and `tw[n]` say where the two threads
of process `n` are and which claim (with the attempts read at the claim) they
work on; `stage[n]` is the life of the process.  `failed` and `lost` are history:
they count the failures recorded in a row and the claims that ended without a
result.  A late result keeps its thread, and meets the row in whatever
state it is by then.  Three switches choose between what deployments do:
`ClaimRace` (a commit may fall into `_claim_one`'s statement, between the
snapshot and the row lock), `ForcedRls` (migration v111 is applied) and
`MayOverrun` (handlers may outlive their lease).

### The ledger

A session is one request handler.  `tx` holds the rows its transaction has added;
it sees these and the committed rows (`View`), and nobody else sees them before
`Commit`.  `lock` is `pg_advisory_xact_lock` of the tenant: `AcquireChainLock` is
re-entrant and blocks, `ReleaseChainLock` is part of every commit and rollback.
A savepoint that is rolled back loses the lock only if the request did not hold
it before (`SkipSingly`).  A batch of the v2 webhook is one action per event in
both of its loops, so that failures and other sessions fall between them;
`FallBack` is the whole `except` branch, the rollback and the undoing of results
and billing queue included.  `IngestEpcis`, `IngestCompat` and `IngestPortal` are
one event of each other route with every write it makes; `Fails` is any
exception the route does not handle, a failed COMMIT or a crash.

A hash is the record (or the sequence) of what is hashed, so equal hashes mean
equal inputs and a chain hash contains its whole past; this is collision freedom.
Idempotency keys carry their formula and the source.  Event ids are fresh numbers
(uuid4).  One tenant is enough: every query is scoped by tenant and tenants share
only the hash of the lock, which can only delay.  A transaction that holds no
lock has added nothing, so READ COMMITTED visibility is `View`.

`archive_expired_records` deletes any set of legacy rows at any time, without the
lock; the 1095 days are a time at which nothing else need have happened.  The
verification job is one action per SELECT, because READ COMMITTED gives each its
own snapshot.

### The scheduler

`Leadership`: a node is a process with two threads, the runner (`pc`) and, while
it leads, the heartbeat (`hb`).  `leaderLock` is the advisory lock; only the
database takes it away (`DropSession`), and neither thread is told.  `Probe`
compares, `Missed` counts and clears the flag, `SignalLost` calls
`scheduler.shutdown()`, which is refused unless the scheduler runs.  `Leave` and
`Rejoin` are the `finally` block and the retirement of the old service with its
engines; until then a pooled session may keep the lock.

`Scraping`: a run of a scraper is the steps breaker, scrape, emit, notify, alert,
acknowledge; several runs and one drain of the outbox file go on at once.  The
drain reads the file under the lock, delivers without it and rewrites the file,
so `overwritten` remembers what was appended in between and lost.  A process end
clears the breaker and the counter of unpersisted letters and keeps table and
file.

`Remediation` and `NotificationOutbox`: a supplier's or buyer's request reads the
case, link or record in one transaction and commits in another; `Reissue` revokes
what the statement saw and mints the next link; `Transition` walks the
case through its statuses and mirrors the last into the exception table, which
may fail alone (`mirrorLost`).  A correction overlays the payload, is normalised
as the code does, and appends a patch.  A drainer works through the batch it read
at the start of its tick, with the attempts and the token of that read; every
outcome is written without asking who holds the claim.

### The services

`Sessions`: each Redis command or pipeline is one action.  A refresh claims its
token by GETDEL, checks the session, rotates it and answers; a logout reads and
later writes; a logout-all raises `userVersion` first and sweeps afterwards.  A
hash that a write re-creates after it expired is a ghost, as in Redis.

`RequestWorkflow`: `Admit` is the read and the check of the status, the step that
follows is the write that relies on it.  An amendment is four transactions, with
the compensating one when the assembly fails.  `DeadlineMonitor`: one action is
the sweep of one tenant with the pruning of the cache; deadlines approach, cases
are filed and reopened between sweeps.

`Idempotency`: one key; lookup, `SET NX`, second lookup, execution, and the Lua
scripts that store or release only what the request still owns; the entry may
expire at any moment.  `InboundEmail`: the audit row is claimed before any
attachment and finalised after the last.  `UsageReporting`: a report sends one
meter event per period; an error commits what was sent before it, a crash does
not; `billed` is what Stripe charges, and it ignores an identifier it has seen.

## 3. What is checked

| run | instance | shows |
|---|---|---|
| `queue_shared` | 2 processes, 2 rows under one key, claim race, overruns of both workers, 1 fault | `TypeOK`, `AttemptsAccounted`, `DeadMeansExhausted`, `OneRowPerKey` |
| `queue_live` | 2 processes, one row of each kind and a drill, forced RLS, 1 fault, fair | `EventuallySettled`, `EvidenceKept`, `OutcomeFinal`, `LiveClaimEndsOnlyByHolder` |
| `ledger_writers` | 2 sessions, 3 requests, 2 faults | `TypeOK`, `ChainLinked`, `EventsChained`, `OneEventPerKey`, `TwinKept`, `ChargesAreBacked`, `ChargedOnce` |
| `ledger_jobs` | 2 sessions, 2 requests, retention and one verification | `ImplementsLedger` although legacy rows disappear, `VerdictSound` |
| `ledger_live` | 2 sessions, 2 requests, 1 fault, fair | `EveryRequestAnswered` |
| `scheduler` | 2 nodes; 2 items and 2 threads; 2 drainers; failures in each, fair | `StaleLeaderWatched`, `LostLeaderStops`, `LeaderElected`; `AckedIsHandled`, `EveryItemNotified`, `BreakerCloses`; `DuplicateCarriesNoOldLink`, `RowsSettle` |
| `services` | seven services, two or three concurrent requests each | `OneTokenPerSession`, `RevokedStaysRevoked`, `GenerationEnds`; `DiffBaseExists`, `FiledIsBacked`, `UnforcedIsSigned`; `BreachesReported`, `AlertCacheBounded`; `ExecutedOnce`; `IngestedOnce`; `BilledAsCounted`; `PatchesExplainRecord`, `DashboardTruthful`, `ReleasedIsFrozen` |

Five runs state what a document or comment says and end in a counterexample:

| run | the text | what the code does |
|---|---|---|
| `queue_claim_race` | `services/shared/task_queue.py:723`, the claim is atomic | the row lock repeats no condition of the snapshot; a row taken or finished in between is taken again |
| `queue_crash_loop` | `ASYNC_PROCESSES.md:37`, dead after `max_attempts` | a claim never compares the two; a row that kills its process is claimed for ever |
| `queue_shared_pid` | `server/workers/task_processor.py:637`, late results are ignored | `worker-<pid>` is the same in two replicas |
| `queue_forced_rls` | `services/shared/task_queue.py:37`, a foreign row is released | the release does not arm the setting the row policy asks for and matches no row |
| `ledger_retention` | `services/shared/cte_persistence/verification.py:167`, deleting an event is "never legal" | the retention job deletes EPCIS events and leaves their chain rows; verification then reports an intact chain as broken |

The components of `scheduler` share no state, nor do those of `services`.  The
instance picks one (`focus`) and lets only that one move, which checks each with
all its interleavings and leaves out the products, which say nothing.  Beside the
drainers the mirror writes of the exception cases succeed, since no drainer reads
them; `services` checks the ones that fail.

Some properties name the cases the code leaves open, and hold outside them; each
is a hazard in `PROJECT.json`:

* leadership: `Blind`, a leader whose backend pid could not be read has no
  heartbeat; `Escaped`, the flag is cleared after the last check and before the
  scheduler can be shut down; a runner whose new service cannot be built ends;
* scraping: `overwritten`, a dead letter appended while the drain delivers is
  dropped by its rewrite of the file;
* remediation: `mirrorLost`, a failed mirror write is not repeated;
* idempotency: requests served while Redis is down are not guarded;
* usage: `slipped`, a period whose accepted meter event was not recorded and that
  grew before the next report uses an identifier Stripe has seen.

### Bounds, and why they are enough

Two processes, sessions, drainers or handlers: every conflict in this code is
between the holder of a lock, lease or claim and one other.  Three where a third
party matters: a refresh that claims after a logout overtook another refresh; a
third request with one idempotency key; a third delivery of an e-mail.

Queue: one task per kind of type, or two that share a key.  `MaxAttempts = 2`
separates "retry" from "dead"; `AttemptsCap` lies above it, so that rows are also
stolen after their last attempt, except in `queue_shared`, where every other
switch is on and the theorems cover the rest.

Ledger: contents `a`; `again`, which has the same keys (another quantity);
`moved`, which shares only the canonical key; `b`, which shares nothing and which
EPCIS rejects.  Batches have up to two events, so that a failure can fall before,
between and after them.  Three requests let one event be written, retried and
written again over another route; `MaxFaults` bounds failures, crashes and
skipped events together.  `ledger_jobs` leaves faults to `ledger_writers` and to
the proofs.

Scheduler: two missed probes separate a hiccup from a loss; one source separates
the check before a source from the check before the start; three losses let a
session drop, the unlock fail and the successor lose again.  One outbox attempt
and a threshold of one reach "exhausted", "open" and "half open" at once, and
three troubles combine them.  One link with two mail attempts over two drainers
and one interrupted tick reaches the stale claim and the stale batch.

Services: two links and two patches let an older session meet a newer one; three
packages allow an amendment after two concurrent assemblies; two tenants with two
cases, a scan limit and a cache of one overflow both; three tokens rotate one
session twice; two periods and three events leave one period unreported while
the other grows.

Processes, sessions and handlers are interchangeable, and symmetry is used where
only safety is checked.  Deadlock is checked for the queue, which never stops.
The other instances stop when their requests are used up, so it is not checked
there; the liveness properties cover what a deadlock would break.

### Fairness

Queue: weak fairness for every step a thread can take on its own, for clocks and
for the restart of a stopped process.  Claims are strongly fair: a due row may be
taken away by the other worker and come back, but the processor polls twice a
second, a TaskWorker sleeps two seconds after a row it cannot handle, and that row
is deferred by one.

Ledger: strong fairness per session, because PostgreSQL queues the waiters of an
advisory lock, so a waiter gets it even if it is never free for long; weak
fairness for the verification job.  Nothing obliges a client to send a request.

Scheduler: weak fairness for the two threads of a node, for each scraper thread,
for the drain and for each drainer, all of which are loops or interval jobs that
run again and again; strong fairness for the delivery attempt of the drain,
because every pass looks at the line and its retry time comes; weak fairness for
a claim to grow stale, which is the clock.  In `NotificationOutbox` a tick at work
on a row ends before the claim of 15 minutes is stale.

Faults are bounded everywhere, and never fair.  The services are checked for
safety only: their progress depends on clients and providers that promise nothing.

## 4. What is proved

For every number of tasks, processes, sessions, events, requests and faults.  Leaves
without arithmetic cite `Zenon`: the encoding for SMT becomes slower with every
obligation of a module.

`TaskQueueProofs`, from the named assumptions of `TaskTable`, `TaskWorker` and
`TaskQueue` (the registries of the two workers are disjoint, evidence types have
no handler and their rows no idempotency key, `MaxAttempts > 0`):

* `TypeCorrect`: `TypeOK`, which includes that the lock columns are set exactly
  while a row is processing.  It is inductive as it stands; two lemmas say which
  shapes an UPDATE can give a row, and every action is an instance of them.
* `AttemptsAreAccounted`: `AttemptsAccounted`, under all switches, pid collisions
  included.  Inductive together with `TypeOK`.
* `EvidenceIsKept`: the action property `EvidenceKept`.
* `DeathIsEarned`: `DeadMeansExhausted` if lock ids are unique.  The
  strengthening relates the attempts a thread read at its claim to the row it
  still holds.
* `OutcomesAreFinal`: `OutcomeFinal` if the TaskWorker claim is atomic and its
  handlers do not outlive their lock, the two conditions whose failure
  `queue_claim_race` and the hazard at `task_queue.py:891` describe.
* `LiveClaimsAreTheirHolders`: the action property `LiveClaimEndsOnlyByHolder`
  under these conditions and unique lock ids, from the same strengthening.
* `EnqueueIsIdempotent`: `OneRowPerKey`.  Its lemma is that a row comes into being
  by an INSERT only: no late or unguarded UPDATE revives a purged row.
* `AtomicClaimsTakePending`, `UniqueIdsIgnoreLateResults` and
  `VisibleForeignClaimsAreReleased`: the documented claims `ClaimsOnlyPending`,
  `LateResultIgnored` and `ForeignClaimReleased`, which `queue_claim_race`,
  `queue_shared_pid` and `queue_forced_rls` refute, hold when the claim statement is
  one step, when lock ids are unique, and when row level security does not bind the
  worker's role.  So the condition each run drops is the whole reason it fails.
* `ExcessAttemptsAreLost`: `ExcessIsLost`, what is left of the documented limit that
  `queue_crash_loop` refutes.  If lock ids are unique and the claim is one step,
  attempts pass `max_attempts` only by claims that were lost, one for each.  Neither
  the limit nor this bound is inductive; `FailuresWithin` is, beside
  `AttemptsAccounted`: at most `max_attempts` failures are recorded, and fewer while
  the row is not dead.

`IngestProofs`, which begins with the lemmas about the writes of `EventStores`,
`TwinProofs` and `LedgerProofs`, each extending the one before, from the named
assumptions of `EventStores` and `Ingest`:

* `LedgerInvariant`: the inductive invariant `IInv`.  None of the properties below
  is inductive: a commit makes rows visible that were computed earlier.  `IInv`
  therefore speaks of what every session *sees*: whoever has added a row holds the
  lock (`OnlyHolderWrites`), each session's view is a good ledger (`Good`: linked,
  ids fresh, events chained, keys unique), and what a batch preloaded still
  contains every committed legacy row (the retention job only removes some).
  Every write takes a good view to a good view; a commit makes the holder's view
  the committed state, and nobody else has anything pending.
* `IngestTypeCorrect`, `ChainNeverForks`, `EventsStayChained`, `KeysStayUnique`:
  the invariants `TypeOK`, `ChainLinked`, `EventsChained` and `OneEventPerKey`.
* `LedgerIsAppendOnly` (in `LedgerProofs`): `ImplementsLedger`, the refinement of
  `AppendOnlyLedger` under the mapping that reads the chain in order of
  `sequence_num`.
* `TwinsStay` (in `TwinProofs`), `OnlyLedgerEventsAreCharged` and `VerificationIsSound`: `TwinKept`,
  `ChargesAreBacked` and `VerdictSound`.  They need a second invariant, `PairsOK`:
  every session's view is paired (`Paired`: webhook events are chained, chain and
  canonical rows of one id carry one digest, and each canonical digest has its
  canonical row) except for the events its loops have still to write
  (`Awaiting`); whatever it will charge or report is in its chain; and what it adds
  under an id that is committed already is in the canonical store as well, so that
  no commit repairs what retention orphaned (`Fresh`).
  For the verdict, `JobInv` says that a walk has found nothing so far, or that a row
  is orphaned, which nothing undoes (`OrphansStay`).
* `OnlyRetentionFailsVerification`: `OnlyTamperingFailsVerification`, which
  `ledger_retention` refutes, holds when the retention job does not run.  By
  `AllCovered`: whatever a transaction has added to the chain it has added to a store
  too, so a commit orphans nothing.
* `LabelsAreChargedOnce`: `ChargedOnce`, by `Claims`: a label is invoiced only by the
  one session that holds its claim, and not before.

`SchedulerProofs`:

* `StaleLeaderIsWatched`: `StaleLeaderWatched`, by an invariant that ties the flag
  to the heartbeat (up only while it beats or none was started) and the lock to
  the places of the runner.
* `DashboardStaysTruthful` and `ReleaseIsFinal`: `DashboardTruthful` and the action
  property `ReleasedIsFrozen`.  A request acts on what it read before others
  committed, so `RemediationInvariant` says what its read still guarantees
  (`RequestKnows`), that a release is the last thing that happens to a record
  (`ReleaseIsLast`), and the mirror.
* `PatchesTellTheRecord`: `PatchesExplainRecord`, from `RemediationAssumption` (rows
  and corrections hold values the normalisation is defined on).  The property says
  that some trail of payloads, one per patch, leads from the staged row to the
  record, which is the fold of `apply_patches` without a recursion; a commit adds
  one payload to the trail.  `PatchInvariant` adds what a submission knows: while
  the tail it read is the last patch, the payload it read is the record's
  (`SubmissionKnows`).
* `AcksAreHandled`: `AckedIsHandled`, by `ScrapingInvariant`: what each thread may
  conclude about its batch at each place (`RunSound`) and that every line the drain
  has read is delivered, kept or still to be looked at (`DrainSound`), so that its
  rewrite of the file loses only what was appended meanwhile.

`NotificationProofs`, on top of the lemmas about remediation:

* `OldLinksAreDead`: `DuplicateCarriesNoOldLink`, of `NotificationSpec`.  That a row
  has one working link is not inductive: a tick mails with what it read and revoked
  earlier.  `OutboxInvariant` adds that a tick at work on a row holds a claim that
  is not stale (`WorkSound`) and is alone with it (`OneWorker`), that every link
  mailed before is revoked or in the snapshot its remint revokes, and that all but
  the fresh one are revoked once it is minted.  The other steps on links only age
  them (`Ages`): none is taken back, none changes its case.

`SessionProofs`: `OneClaimAtATime`, `RevocationHolds` and `GenerationHolds`, the
three properties of `Sessions`.  The invariant adds that every token was minted
for a session that was created, that a claim made after a revocation is refused
before it answers (`LateIsRefused`), and that a rotation carries the generation of
its session along (`GenerationBound`).

`ServiceProofs`:

* `PostExecutedOnce`: `ExecutedOnce`; a request past its reservation owns the entry
  until that entry expires.
* `ReplaysAreGenuine`: the action property `ReplayedFromExecution`.  A stored response
  that answers a request is the response of a request with the same fingerprint,
  executed with success since the entry was reserved.  `Genuine` says that the owner of
  an entry has not seen it expire, and that a success is counted unless it has: an
  owner that finishes late finds an entry that is not its own.
* `EmailIngestedOnce`: `IngestedOnce`; one delivery ever holds the claim, and what it
  has still to do has not been done.
* `VersionsHaveNoGap`, `FilingIsBacked`, `SubmissionIsSigned`: the versions used are
  an initial segment of the numbers, and each handler may conclude something from the
  status it read.
* `EveryBreachReported` and `CacheIsBounded`: the sweep and its cache.
* `BillsAreCounted`: `BilledAsCounted`, from `UsageAssumption`.  `UsageInvariant` says
  that a period is billed what `last_reported_count` says or, while the answer to a
  call is open (`Pending`), what its counter says; that the counter is the number of
  counted events; and that no identifier Stripe has seen is ahead of it.  The second
  case is why a repeated call adds nothing: the counter has not moved, so the
  identifier is the same.

Only model-checked: all liveness (fairness and ENABLED are outside the prover),
that is `EventuallySettled`, `EveryRequestAnswered`, `LostLeaderStops`,
`LeaderElected`, `EveryItemNotified`, `BreakerCloses` and `RowsSettle`.  Every other
property of a passing run has a theorem; `DeadMeansExhausted`, `OutcomeFinal` and
`LiveClaimEndsOnlyByHolder` under the conditions named above.  Of the five statements
the violated runs refute, four are proved under the condition the run drops, and the
fifth has its bound.  `ExcessIsLost` and `ReplayedFromExecution` are proved and belong
to no run.

## 5. What is not modelled

Ledger: KDE and alert rows, ingestion-run receipts, gap tracking and usage
counters written in the same transaction; Merkle proofs and all read endpoints;
`persist_events_batch` and superseding events, which no route uses; duplicates
inside one batch (batches hold distinct events; rows added earlier in the same
batch are seen); sources other than webhook, EPCIS and portal.  Rules enforcement
removes events before the batch, or skips one, and so appears as the choice of the
batch and as `SkipSingly`.  Rollback of a savepoint after it was released (an
exception between `savepoint.commit()` and the end of the fallback's `try`)
changes the response only.  The publication to the graph is not modelled.

Scheduler: what the single scrapers fetch, the replay of rule-evaluation dead
letters, metrics.  Remediation: the rules that judge a corrected record (their
verdict is a choice), address suppression, webhooks of the mail provider.
Requests: how a package is assembled, the hash manifest, holidays and business
hours of deadlines; a sweep reads at most 500 cases, which `ScanLimit` keeps.
Sessions: signing of access tokens, passwordless login.  Usage: plans and invoices.

Whole parts that are not modelled are listed in `PROJECT.json`, each with its
reason.  Most of the repository is not stateful: parsers, validators, exports,
reports and the front end map inputs to outputs, and NLP is statistical.  The
stateful ones left out are sequential, or repeat a shape that is modelled: the
outboxes of the admin service have one drainer that works row by row, its audit
log is a per-tenant chain extended under an advisory lock, and sign-in challenges
are consumed under a row lock.
