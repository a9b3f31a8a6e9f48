# Formal models of Axiom Lumen

Axiom Lumen reconciles public evidence about the Stellar network: latest ledger, circulating supply, order-book
depth, trustlines, anchor reserves. A background worker schedules collection cycles in PostgreSQL, runs them under
leases, reconciles the readings into a snapshot and one discrepancy per source, and conducts the right of reply of
named anchors. A web process serves what was persisted, streams snapshot events and enforces API keys and quotas.

Everything hard about the program happens in PostgreSQL between processes that do not know of each other, so the
models have one shape throughout: a statement or transaction the code sends is one action, a value the code keeps in
memory between two statements is a variable of its own, and anything another process may commit in between may come in
between. Two parts are of another kind: the arithmetic that turns readings into a snapshot, and the connectors, whose
counterpart is a service that changes between two answers. Paths below are relative to `src/`.

Contents: 1 inventory, 2 modules and code, 3 runs, 4 fairness, 5 proofs, 6 disagreements with the documents,
7 what is not modelled, 8 plan.

## 1. Inventory

### Components that are modelled

**Lease scheduler** (`lib/worker/scheduler.ts`, `lib/db/scheduler-repository.ts`, `worker/main.ts`). *State*:
`scheduled_cycle_leases` (status, owner, fencing token, attempts, expiry), one row per subject and boundary;
`ingest_cycles`, the append-only durable cycles; in memory, the pass's captured `now`, each consumer's lease and its
abort controller. *Operations*: `schedule`, `claim`, `heartbeat`, `assertLease`, `acknowledge`, `release`, `fail`,
`reapExpired`; the loop of passes, shutdown. *Meets*: the cycle transaction of the projection, which inserts into
`ingest_cycles` without looking at the lease. *Hard*: an expired lease reclaimed while its first holder still writes;
a crash between the durable batch and the acknowledgement; a reaper that looks up durable cycles in one statement and
acts on them in another; consumers that share an owner label; clocks that disagree. *Correct when*: no two consumers
work on one current claim; a completed row has a durable batch; a subject has at most one active cycle; a lease ends
by its owner or after expiry; every scheduled cycle settles and is settled once.

**Discrepancy state machine** (`lib/reconcile/discrepancy-state.ts`, the schema in `lib/contracts/domain.ts`).
A pure function of the previous state and a measurement: streaks of cycles out of tolerance, severity, resolution and
recurrence, and the publication transitions. *Hard*: refusals (schema, ordering, expected event) in a long sequence of
legal calls. *Correct when*: every accepted result passes the schema, the severity follows the rule of ADR 0001.

**Cycle persistence and the projection** (`lib/db/repositories.ts` `persistCompletedCycle`, `getDiscrepancyStates`;
`lib/worker/latest-ledger-job.ts`, `lib/reconcile/orchestrator.ts`). *State*: cycle batches, `discrepancies`,
`discrepancy_events`, `publication_events`. *Meets*: jobs read prior states before they measure for seconds, then
write them back with the batch. *Hard*: two jobs of one subject overlap (one abandoned, one newer), in both orders; a
job is given a row that others have moved; subjects and occurrences that share an id. *Correct when*: rows never
rewind, streaks never overcount, events replay to rows, the open cycle is refused for a known reason only.

**Anchor case workflow and replies** (`lib/worker/anchor-case-workflow.ts`, `lib/db/anchor-case-repository.ts`,
`lib/anchor/case-workflow.ts`, parts of `lib/db/anchor-claim-repository.ts`). *State*: `anchor_cases`, `notifications`
with leases and fencing tokens, delivery attempts, and the same `discrepancies` row. *Operations*: open a case, claim,
dispatch and record notices, expire the reply window, requeue, reply, review, retract. *Hard*: three writers of one row
(cycles, workflow, people); a dispatch that outlives its lease; refusals that abort a transaction after the letter was
sent. *Correct when*: a named party is public only after it was told, was heard or had its whole window, and a person
approved.

**Snapshot event stream** (`lib/db/snapshot-event-repository.ts`, `lib/http/sse.ts`,
`app/api/v1/events/snapshots/route.ts`). *State*: `snapshot_events` with ids from a sequence; per client a cursor, a
pending window, the stream's queue, counters of stalled polls and of the age of the authorization. *Hard*: ids drawn in
one order and committed in another; timers that fire while a poll awaits; a client that stops reading; access that ends
mid-stream. *Correct when*: the client gets an ordered subsequence without duplicates, memory is bounded, streams whose
access ended close in time, and an open stream serves what is ahead of it.

**API keys and quotas** (`lib/db/api-access-repository.ts`, `scripts/prune-api-quota.ts`). *State*: `api_keys`,
`api_key_events`, `api_quota_usage`; per request the time and key it looked up. *Operations*: `authorizeAndConsume`,
`createKey`, `rotateKey`, `revokeKey`, `pruneQuotaUsage`. *Hard*: two counters per grant, in two statements, under row
locks; a refusal after the first count; cleanup beside requests; rotations racing each other and revocation. *Correct
when*: no window grants more than its limit, refusals leave no trace, a key ends once, each request is decided.

**Source health** (`lib/worker/resilience.ts`, the collection part of the job handlers, `source_health_states` in
`lib/db/repositories.ts`). *State*: per source the last result, the count of failures, the circuit and the time until
which it is skipped; in a job the rows it read, a pool of consumers and the attempts in progress. *Operations*: begin,
take a source or skip it, attempt, retry after a pause, complete, commit. *Meets*: jobs of different subjects share
sources. *Hard*: rows read at the start and written at the end; skips that are written back as results; a clock that is
set back; a `Retry-After` beyond the policy. *Correct when*: every row passes the table's checks, exclusion ends after
the last real attempt, the count that opens a circuit is the number of failed cycles.

**Reconciliation and the refresh cycle** (`lib/reconcile/*`, `config/methodology/*`, the discovery queries, the five
job handlers, the read models of `lib/db`). *State*: the registry, the rows of discrepancies, the supply reference,
one job and its snapshot. *Operations*: discover, collect, reconcile, persist, serve. *Hard*: every mixture of
answers, errors, stale and half answers; ties and zero weights; checks at the end of a job that lose the whole cycle;
a read model that throws on a snapshot that was accepted. *Correct when*: "verified" is earned, the value is a fair
median, a cycle fails only for a stated reason, and what was committed is served.

**Connectors** (`lib/stellar/horizon*.ts`, `archive-supply.ts`, `price.ts`). *State*: one scan with its cursor, its
ledger, its counts, its log and, for a supply, a checkpoint that the caller may hand back. *Hard*: a ledger closes
between two pages, instances behind one endpoint are at different ledgers, pages link to themselves, a scan is resumed
later, rounding of inverse prices. *Correct when*: an observation is the complete state of one ledger, a checkpoint is
one the connector takes back, buckets are executable, every scan ends.

**Anchor registry and claims** (`lib/db/anchor-repository.ts`, `lib/db/anchor-claim-repository.ts`,
`lib/anchor/claims.ts`, `scripts/discover-anchor.ts`). *State*: the rows of an anchor, its domains, reserve sources,
verification events, challenges, claimants, sessions and contacts, and the row locks on them. *Operations*: discovery,
suspension, challenge, claim, and a session's registration, revocation and speech. *Hard*: transactions that read,
await an answer of somebody else's server, then lock; a suspension that reads what others bind without a lock; locks
taken in different orders; a domain that changes hands while its old claimant registers a contact. *Correct when*:
claims outlive nothing they were checked against, a domain has one claimant, live contacts are the present claimant's,
the registry says what the last verification said, wherever a suspension has not overlooked one.

### Components that are not, or only in part

| Component | State and operations | Why |
| --- | --- | --- |
| Evidence, disputes and corrections of an anchor | rows added by a session; a scan and a store outside | only the authority to add them is modelled (`Speak`); the rows are read by people |
| Contact secrets, notification transport | encryption, one HTTP request | what a transport may answer is part of `RightOfReply` |
| Backup and restore drill | dump, encryption, manifest, rename | one sequential script; see section 7 |
| HTTP API, freshness and operational status | none: queries and their presentation | the authorization and the service of a snapshot are modelled |
| Release gates, observability, configuration, pages | none, or input and output | |

`PROJECT.json` lists every component with its files and, under `hazards`, the places in the code where something can go
wrong that a test would hardly reach, with the properties that watch each. Lesser ones that no property covers: the
reaper handles 100 rows a pass (`lib/db/scheduler-repository.ts:566`); a lease that fails after its job was superseded
(`lib/db/scheduler-repository.ts:532`); a methodology upgrade while a discrepancy is open
(`lib/reconcile/discrepancy-state.ts:229`); a recurrence under the same id that finds its old, resolved case
(`lib/db/anchor-case-repository.ts:170`); a crash between a dump and its removal
(`lib/operations/database-backup.ts:211`).

## 2. Modules and how they correspond to the code

| Part | Abstract specification | Model | Composes | TLC | Proofs |
| --- | --- | --- | --- | --- | --- |
| Scheduler | `CycleLifecycle` | `LeaseScheduler` | | `MCLeaseScheduler` | `LeaseScheduler_proofs` |
| State machine | | `DiscrepancyState` | | | `Discrepancy_proofs` |
| Projection | | `DiscrepancyProjection` | `DiscrepancyState` | `MCDiscrepancyProjection` | `Discrepancy_proofs` |
| Right of reply | | `RightOfReply` | `DiscrepancyProjection` | `MCRightOfReply` | `Discrepancy_proofs` |
| Stream | `SnapshotFeed` | `SnapshotStream` | | `MCSnapshotStream` | `SnapshotStream_proofs` |
| Access | | `ApiAccess` | | `MCApiAccess` | `ApiAccess_proofs` |
| Source health | | `SourceHealth` | | `MCSourceHealth` | `SourceHealth_proofs` |
| Refresh cycle | | `RefreshCycle` | `Methodology`, `Reconciliation` | `MCRefreshCycle` | `RefreshCycle_proofs` |
| Connectors | | `HorizonScan` | `HorizonService`, `SdexBook`, `ArchiveReplay` | `MCHorizonScan` | `HorizonScan_proofs` |
| Registry and claims | `DomainAuthority` | `AnchorClaims` | `AnchorRows`, `AnchorRegistry` | `MCAnchorClaims` | `AnchorClaims_proofs` |

### LeaseScheduler

A process runs passes: `ReapScan` captures `now`, locks the expired rows and looks up which have a durable batch,
`ReapCommit` applies the verdicts; `Ensure` inserts the row of the current boundary unless the subject is active;
after `StartConsumers` each consumer does `Claim` until nothing is left, and `EndPass` waits until all have returned.
A consumer goes through `handling`, `persisting`, `acking`, or `releasing`, `failing`, `rejecting`: the places of
`consume` in the code where an await may be overtaken. `Persist` inserts the batch once, whoever holds the lease; the
updates of the lease row (`Acknowledge`, `Release`, `Fail`, `Heartbeat`) are fenced on owner and token by `Holds`.
`row` is the table, `finalized` the unique finalized cycles. `clock` is the slowest process's time and `Skew` adds to
it, because the code compares leases against `Date` of the process, not of the database. Faults are crashes, shutdown
signals, failing heartbeats and errors that are named `AbortError` without an abort, which `isAbort` takes for one, so
that the lease is released and not failed (`Threw`). `CycleLifecycle` is what is promised about one scheduled cycle:
unscheduled, open, settled; its batch appears once, only while it is open, and a settlement is final.

### DiscrepancyState and DiscrepancyProjection

`DiscrepancyState` holds `Advance` (measurement, streak, opening, severity changes, resolution) and `Transition`
(publication actions) as operators on one record, with the schema (`Valid`) and the refusals as separate predicates,
so that a caller's transaction can be refused as a whole. Values and deviations are reduced to the bands the rule
tells apart. `DiscrepancyProjection` adds the table and the jobs: `Collect` ends the readings, `ReadPrior` takes some
row of the source (the query has no order within a source), and `Persist` advances that copy and writes batch, row and
events together under the conditions of the statement (`Accepts`: `setWhere` and the unique index of open rows;
`Resolvable`: the unique index of events by type and target). `ids` says where a discrepancy's id comes from
(`TargetOf`). The latest ledger's is hashed from the observation, a fresh one for each occurrence. All other metrics
hash the source, the reserves with the anchor: all occurrences share that id, and so do all subjects the source is
routed to. `OtherSubject` is the cycle of another one that inserts the row first; from then on the upsert's identity
tests refuse it here. `Drop` is every way a job ends without an effect. `late` is a history variable: the cycles whose
batch committed after they stopped being open, which happens because the batch's transaction does not look at the
lease.

### RightOfReply

Extends the projection: the same row is also moved by a worker's pass (`open`, `claim`, `deliver`, then expiry), by the
anchor (`SubmitReply`), by reviewers (`ReviewCase`), and by administrators (`Requeue`, `Retract`). A claimed notice and
its result are kept in the pass, since the dispatch happens between the claim and the record; results are recorded in
order and a refusal in one ends the process, as the code's uncaught throw does. `log` is the publication history
and `sends` counts dispatches.

### SnapshotStream

Writers draw an id (`Insert`) and commit it later (`Commit`) in any order. A client connects with or without
`Last-Event-ID`; `OpenAtTail`, `Locate` and `Replay` are the queries of `prepare`, and then the stream's timer: `Fire`
starts a poll if none is in progress, `Authorize` and `ReadLog` are its awaits, `Throws` any of them failing, and
`Read` is the client taking a chunk. Time is counted in polls. The `ReadableStream` queue and its high-water mark are
modelled since backpressure depends on them. `SnapshotFeed` promises a client some ordered subsequence of what is
published ahead of its start, without duplicates, that skips only what was overtaken.

### ApiAccess

A request takes the steps lookup, scope, sustained, burst, grant; the two upserts hold their row locks until commit,
and a refusal rolls both counts back. `usage` is the committed counter, `granted` the history of grants, which cleanup
never touches, and `reopened` counts the cleanups that took the row of a window in which requests may still be
counted: cleanup compares a window's start with the retention and does not ask for its length. Rotations read the old
key and write the successor later; `audit` is `api_key_events` with its checks.

### SourceHealth

A job reads the rows of its sources (`Begin`), its consumers take one source after the other (`TakeSource`: ask or
skip), an attempt is answered or fails, sleeps and is retried, and `Complete` and `Commit` are the end of the handler:
each row is computed from the one that was read (`HealthStateOf`) and replaces a row with an earlier last attempt only
(`Replaces`, the `setWhere`). `evidence`, `streak` and `contended` are history: when a source was last really asked,
how many cycles in a row failed on it, whether jobs overlapped on it. The clock is the wall clock and may be set back.

### Methodology, Reconciliation and RefreshCycle

`Methodology` holds the parameters of the versions in force, `Reconciliation` the pure operators: weights by class,
upstream and age, the weighted median, agreement per metric, caps, confidence, completeness and status. Ages are
counted in half-lives, weights and scores as natural numbers in units of 1/10000 rounded down, sums are exact; one
bucket stands for the depth buckets. `RefreshCycle` runs them: `Discover` is the discovery query of the metric,
`Collect` what `SourceHealth` leaves of each source, `Finish` and `FinishReserve` the orchestrator with the conditions
under which it throws, `Commit` the batch with the discrepancies' existence and the supply reference. `Refused` stands
for the throws that depend on the contents of the rows: each discrepancy the cycle advances (`Projected`: the one of a
deviating source, or one that has a row) may have been finalized later (`lib/reconcile/orchestrator.ts:424`), be
refused by the upsert (`lib/db/repositories.ts:537`) or by an index. Which rows do so is `DiscrepancyProjection`'s
matter. The readers are predicates on the snapshot: a read model that would throw does not serve. Anchor reserves
follow the generic profile; the mZAR profile's way to its supply reference is left out, and the expiry of an anchor's
verification is folded into `enabled`.

### HorizonService, SdexBook, ArchiveReplay and HorizonScan

`HorizonService` is the counterpart, outside the repository: each answer is the truth at *some* ledger of `Ledgers`,
whatever came before, or a failed request, or a page that repeats itself, starts from the beginning, links to itself
or elsewhere, is of other records, cannot be read or hides its ledger (`PagesAt`). `HorizonScan` has one action per
request of a connector, in which its verdicts (`SupplyPageVerdict`, `RootVerdict`, ...) follow the order of the code's
checks; `Restart` is the code's restart on another ledger, `Resume` a scan from a kept checkpoint, and `Abort` the
caller's signal or the time limit, which during a body counts as a malformed answer (ledger heads). `ordered` says
that no request of the log was completed before it started: the wall clock may be set back during one, and a
checkpoint with such a log is refused when it is handed back (`lib/stellar/horizon-supply.ts:514`). `SdexBook` has the
exact prices and buckets, `ArchiveReplay` the acceptance of an artifact, whose digest is the artifact itself. `log` is
the provenance the checkpoint carries.

### AnchorRows, AnchorRegistry, AnchorClaims and DomainAuthority

`AnchorRows` is PostgreSQL at READ COMMITTED as this code uses it: a transaction takes row locks one statement after
the other (`Lock`, in the modes update, write and the share lock of a foreign key), waits while another's conflict,
shows its writes when it commits (`End`) and may end anywhere (`Abort`). Waiting in a circle is possible and
PostgreSQL's own abort of one is an `Abort`. `AnchorRegistry` is `discover-anchor`: what a lookup finds is
nondeterministic, `at` is the time it was found; `persistVerifiedDiscovery` takes the anchor, then the domains, then
reads the sources it will write (`read`), `suspendVerification` reads the sources first, without a lock, and takes the
anchor last. Both write whole rows back as they read them. `overlooked` is history: the assets whose bindings changed
between a suspension's read and its write.
`AnchorClaims` adds challenges, the claim (`BeginClaim` reads, `ProveDomain` asks the domain, `LockClaim` and
`RevokeClaimants` lock, `ClaimAnchor` writes) and the session's operations, which authenticate under locks and may
then wait for a webhook. `DomainAuthority` promises, without transactions or time, that a domain has at most one
holder and a live contact belongs to it.

Bounds are constants: `Horizon`, `MaxFaults`, `MaxTime`, `MaxSends`, `MaxId`, `MaxCycles`, `MaxSetbacks`,
`MaxChallenges`, `MaxReopened` (cleanups of one window in use) and `MaxWork` (verifications recorded) limit counters
that run forever in the program.

## 3. What each run checks

| Run | Instance | Checks |
| --- | --- | --- |
| `scheduler` | 1 subject, 1 boundary, 2 processes with clocks one tick apart, 3 consumers, two under one owner label; lease 2, 2 attempts, 1 fault | `AttemptsBounded`, `ExclusiveClaim`, `LeaseNotStolen`, refinement of `CycleLifecycle`, with liveness (each scheduled cycle settles), `PassesRecur` |
| `discrepancy_pass` | 3 cycles, 2 overlapping jobs | `StreakBacked`, `HistoryReplays`, `RuleHolds`, `OpenCycleAccepted`, `NoRewind` |
| `discrepancy_recurrence` | 4 cycles, 1 job | `OccurrenceResolves` is violated |
| `reply_windows` | 2 cycles, 1 job, 2 contacts, 2 workers that may crash, 2 sends | `PublicationEarned`, `WindowMatches`, `ReplyAccepted`, `NoticeNotStolen` |
| `reply_retraction` | 2 cycles, 1 job, 1 contact | `RetractionStands` is violated |
| `stream_reader` | 4 events, 2 writers, replay limit 2, reauthorization every 2 polls, 2 stalled polls | `CutOff`, `BoundedMemory`, refinement of `SnapshotFeed`, `Served` |
| `access` | 2 requests, windows of 3 (limit 2) and 1 (limit 1), cleanup after 1, each window in use cleaned up once, times 0 to 2, policy changes; an operator, 2 keys, creation, rotation, revocation | `NotOversubscribed`, `CountersHonest`, `Admitted`, `OneEnd` |
| `health_safety` | 2 jobs that share one of 2 sources, threshold 2, 3 cycles, the clock set back once | `RowAccepted`, `BarredByEvidence`, `ExactWhenAlone` |
| `refresh` | 8 sources: 3 Horizon (2 of one upstream), an archive, 3 order books, an anchor; all metrics, all mixtures of answers | types, `VerifiedIsEarned`, `MedianFair`, `FailsOnlyWhen`, `ReadersServed` |
| `refresh_depth` | the order books | `DepthReadersServed` is violated |
| `horizon` | 4 ledgers, pages of one record, 5 pages, 3 records, 1 restart, 2 endpoints | `SnapshotExact`, `CheckpointResumable`, `BucketsExecutable`, `ScanEnds` |
| `claims` | 2 operators, both run discoveries, 2 domains, 2 URLs, 2 assets, a contact, 2 challenges, 4 verifications, 2 time units | types, `RegistryHonest`, `AuthorityHeld`, refinement of `DomainAuthority`, `ClaimEarned` |

Why the bounds are enough for the questions asked:

- *Scheduler*. A stale holder, a new holder and a reaper are three actors; three consumers in two processes provide
  them, a shared label included (so a fence on the owner alone would be caught). The boundary is claimed, expires, is
  reaped and reclaimed up to `MaxAttempts` 2; the faster clock expires a lease that the slower process still holds. A
  late batch that meets the next boundary needs a second one and is covered by the theorems.
- *Projection*. A discrepancy opens on the second cycle and is resolved or raised on the third, and staleness needs
  two jobs; both kinds of id are initial states. A recurrence that resolves again needs a fourth cycle: with one job in
  `discrepancy_recurrence`, otherwise by the theorems.
- *Right of reply*. Two contacts are the fewest for which a second delivery could restart a window; two cycles open a
  discrepancy and change it under the workflow; a lease that is taken over needs two workers and a crash. `MaxTime`
  leaves room for the window and its expiry.
- *Stream*. Four events exceed the replay limit by one whole window, so the replay error, the empty window and the
  partial window all happen; two writers commit out of order.
- *Access*. Requests may straddle a window's end. The retention is shorter than the sustained window, so that cleanup
  takes the row of a window in use and grants its limit anew, and as long as the burst window, where only a request of
  long ago still uses one. Two keys are one rotation,
  with which a revocation and a second rotation race; longer chains are covered by the theorem.
- *Health*. A circuit opens on the second failure and is probed on the third cycle; two jobs share a source, one has a
  second. The two errors are the ones the rules tell apart: retried with a `Retry-After`, and final.
- *Refresh*. The answers of a metric lie within the tolerance, beyond it and beyond the maximal spread, at two ledgers
  and with two details; ages are fresh, at the last accepted and past it. Three sources are the fewest with a median
  that is not an end and two of one upstream. Every combination of outcomes is collected.
- *Horizon*. One record a page makes every scan cross pages; the ledgers differ by a changed, a removed and a new
  record, one book lacks a side, one is crossed. Each page, restart and record budget is reached.
- *Claims*. Two transactions are the fewest that can wait for one another, and both operators verify and suspend: two
  suspensions, or one beside a discovery, overlook each other's bindings. Two assets make one anchor verified by the
  other's binding; a verification lasts one unit, so it expires. Four verifications leave two after such a pair, with
  which the next verification of the asset sets it right. Two domains let one be superseded while the other is claimed;
  two challenges give a claim that succeeds another. More operators and contacts are covered by the theorems.

`CHECK_DEADLOCK FALSE` appears where cycles, time, verifications and challenges are used up (discrepancy, reply, health
and claims runs): a finite number of them is a bound of the instance, and the program waits there for the next one. A
transaction that waits in a circle is no such state, for it may abort. Everywhere else a state in which nobody can go
on would be reported. Symmetry is used for workers, contacts, jobs, cycles, requests, keys, operators and assets, which
the definitions do not distinguish, and only in runs without liveness.

Conditions a reader should know of:

- `HistoryReplays`, `RuleHolds` and `OpenCycleAccepted` are stated for behaviours with `late = {}`. An abandoned cycle
  whose batch commits late, next to its successor's, really breaks them: the model shows it, and the hazards name the
  lines. `StreakBacked` and `NoRewind` hold with late batches too.
- `RuleHolds` and `OpenCycleAccepted` are for a source with one row at most. Of several, those of earlier occurrences
  of the latest ledger, a job is handed any. `OpenCycleAccepted` has two more exceptions, and both really refuse every
  cycle of a kind: an id of the source that another subject's row has taken refuses each deviating one, and an id that
  saw a resolution before refuses the resolution of its recurrence (`discrepancy_recurrence`).
- `FailsOnlyWhen` names the reasons for which a collected cycle is lost: a source of one of its discrepancies is no
  longer configured, a ledger's weight has decayed to nothing, a source that answered has a discrepancy row, or answers
  differ, so that one is to be opened. A first cycle whose answers agree is always persisted.
- `RegistryHonest` holds for any number of operators and speaks of the assets that no suspension overlooked. An
  overlooked one may have two bindings, or none, until its next verification.
- `NotOversubscribed` allows a window its limit again for each cleanup of its row while it was in use. Where the
  retention exceeds the window and the longest request, there is none.
- `CheckpointResumable` excepts a checkpoint with a request during which the clock was set back.
- `ExactWhenAlone` is for sources on which jobs did not overlap.

Each property has a mutant in `PROJECT.json`: a plausible slip in a modelled definition (a dropped fence, a missing
reset, a swapped order) under which the same run finds the property violated.

## 4. Fairness

- `LeaseScheduler`: weak fairness of the clock, of each process's pass and of each consumer's step. Processes are kept
  running (a supervisor restarts a crashed one), and a job's handler ends because every retrieval has a timeout.
  Nothing makes heartbeats, successful outcomes, crashes or shutdown happen, and faults are bounded by `MaxFaults`: a
  process that crashes forever settles nothing.
- `SnapshotStream`: weak fairness of the server's step: a timer fires, an await returns or throws. The client is not
  fair and may never read: `Served` says that an event ahead of an open stream is received or the stream ends.
- `HorizonScan`: weak fairness of the answer to the request in progress: every `fetch` runs under a time limit, so it
  is answered or fails. Nothing else is fair: nobody has to start, resume or abort a scan.

The other specifications state safety only and have no fairness.

## 5. What is proved

All theorems hold for every value of the constants that satisfies the named assumptions (`... Assumption`): any number
of processes, consumers, contacts, jobs, keys, any limits, windows, skews and lease durations.

**Scheduler.** `IInv` = `TypeOK`, `TokensIssued`, `TokensUnique`, `LocksSound`, `AckedDurable`, `CompletedIsDurable`,
`OneActivePerSubject`. `ExclusiveClaim` is not inductive: that two consumers do not share a claim rests on tokens
being drawn from the row (`TokensIssued`: nobody remembers a token the row has not reached; `TokensUnique`: nobody
else remembers the same one). `CompletedIsDurable` needs `AckedDurable` (a consumer that is about to acknowledge has
persisted) and `LocksSound` (an open reaper's verdict agrees with what is durable, since the rows are locked while the
durable cycles may only grow). `Refinement` then maps each step to a step of `CycleLifecycle` or a stutter.
`AttemptsBounded` is the safety half of settling: the reaper gives an expired claim back only within the budget, but a
release gives it back unseen (`lib/db/scheduler-repository.ts:510`). `RetryInv` charges each release to a fault: a row
that is pending, or whose owner is aborted and will release it, has an attempt less than the budget and the faults so
far. A stray error with the name of an abort is such a fault. That needs `OwnersNamed` (the owner's fence matches, so
a heartbeat that finds the lease lost is never the owner's) and `Seated` (a consumer without a claim is not aborted);
`QuittingStep` says that only a fault makes an owner release, `RowStep` lists what a step can make of a row.
`PassShrinksHolds` is the safety half of `PassesRecur`: a consumer's every step moves it towards its return (`Stage`),
unless it claims, which spends one of the attempts that `AttemptsBounded` counts and nothing gives back.

**Projection.** `IInv` = `TypeOK`, `HistoryTyped`, `PriorsSound` (what a job holds was a row, at or behind the present
one), `RowIds`, `Serial` (without late commits the cycles commit one after another), `EventsEnd`, `HistoryReplays`;
and `PriorsBacked` for `StreakBacked`: a prior's streak is backed by committed batches, which never go away, so
writing it back cannot overclaim. Without late commits two more invariants hold. `OpenInv`: a row was finalized by a
durable batch at that batch's time; while the open cycle has no batch, every batch is older than what its job
collected; a job that found no row would still find none. So what that job writes is newer than the row and meets no
other open one: neither the code's check nor the upsert refuses it, unless the id is another subject's. A fresh id
belongs to one occurrence (`RowIds`), so an open row with one was never resolved (`OpenUnresolved`) and its
resolution can be recorded (`OpenCycleAccepted`). `RowRule`: the one row of a
source was finalized by the latest measured batch, is open exactly if that batch is out of tolerance, and counts the
batches of the present streak; where there is no row, every batch was within. A commit adds one batch after all
others, so both sides of `RuleHolds` move by the same case, for any number of cycles; no induction over the history is
needed.

**Right of reply.** `WInv` = `WorkflowTypeOK`, `PriorsSound`, `AllJustified`, `FirstPassed`, `CaseChain`,
`ClockNeedsDelivery`. The argument for `PublicationEarned`: every state of the row, *and every copy a job still
holds*, is justified by the log; the log only grows, so a copy that is written back stays justified. This is also why
the theorem survives the defect `reply_retraction` shows: what is written back was earned once. For `WindowMatches`
and `ReplyAccepted`, `WindowInv` says of the row, and of the copy the job of the open cycle holds (without late
batches the only one that will be written back), that it `Agrees` with the case: if it awaits a reply and so does the
case, the deadline is its publication time plus the window, and as long as the case can be replied to, it is
`pending_reply`. A copy from before a notice rewinds the row to a state that awaits nothing; the next delivery then
sets both clocks anew. `PublicationPassed` (no publication is in the future) bounds what a write-back may carry. All
of it holds for a row that names a party and for one that does not.

**Stream.** `IInv` places every waiting event between the last one received and the cursor's future; `CutOff`,
`BoundedMemory` and `ImplementsFeed` follow. `ServedStepHolds` is the safety half of `Served`: an event published in
order that an open stream has still to deliver stays ahead of what was received until it is received or the stream
ends, and every step of the server or the client moves the cursor, which the ids bound, or spends `Patience`: the
polls a full queue is still waited for, the authorization and the read that a poll still has before it. Commits,
withdrawals and other connections give nothing back, so only fairness is left to the model checker.

**Access.** `QuotaInv` = `TypeOK`, `Room`, `Alone`, `CountersHonest`, `Tally`, `Full`, `NotOversubscribed`: a request
that holds a row lock holds it alone and counted room when it took it, so a counter never exceeds its limit (`Full`).
In a window in use what was granted and is no longer in the counter was taken by the cleanups counted in `reopened`,
at most a full counter each (`Tally`); a window that is no longer in use grants nothing more. Nothing is assumed of
the retention. `KeyInv` gives `OneEnd`; with `Remembered` (a key that was revoked when a request arrived stays
revoked) it gives `Admitted`.

**Source health.** `RowInv`: the rows of the table and the rows a job holds pass the table's checks, and an open one
counts at least `Threshold` failures. `EvidenceInv`: the evidence a job remembers is the evidence of the row it read,
and what it writes is computed from both. Hence `RowAccepted` and `BarredByEvidence` for any number of jobs and
sources and any policy that the code accepts. `AloneInv` serves `ExactWhenAlone`: while a source is not contended, its
count is the number of failed cycles in a row, at most one job holds a reading of its row, and that reading is still
the row; so what the job writes continues the count.

**Registry and claims.** `RowsTyped` says what a transaction refers to exists. `Protected` adds `Exclusion`, that no
two transactions hold conflicting locks on a row, and `Sound`: what a transaction decided upon (the challenge is
unused, the anchor verified, the claimants it will revoke are all there are, the session's claimant is not revoked)
still holds, because the rows it rests on are locked until it ends. `RowsHeld` is the lemma behind it: a row locked
FOR UPDATE stays as it is while another transaction steps. `AuthorityHeld` and `ClaimEarned` follow at once. For the
refinement, `Succession` adds that a domain has one claimant (`Single`), that live contacts are theirs (`Backed`) and
that each claimant used up a challenge of its own (`Counted`, which bounds their number). `RegistryHonest` is proved
from `Registered`, for any number of operators: what a discovery read of an asset is what is there when it writes,
unless the asset was overlooked (`Current`: discoveries lock the anchor first, and a suspension that writes beside one
marks what that would write back), and `Listing` says the same of the rows and the events.

**Refresh cycle and reconciliation.** The theorems hold for any finite set of sources with any classes, any answers
the observation schemas let through (`AnswersAssumption`), with the parameters of the versions in force
(`Methodology`). `RefreshInv` says what each phase holds, that a committed snapshot is a result of the reconciliation
of the answers that were collected (`SnapshotInv`), and why a cycle failed; `RefreshStep` shows that every throw of
the orchestrator and the commit is impossible or one of those `Excused` states. A refusal presupposes a discrepancy to
project: a row, or a source that deviates from the published value, which another source gave. Most of the work is
about what the code adds up in floating point and the model exactly. Facts about a sum over a finite set would need
induction over the set; they are proved by a smallest counterexample instead (`SmallestSubset`: of the subsets that
violate a statement one has the least cardinality), which gives existence, uniqueness, monotonicity and additivity of
`Total`. On them rest `MedianBalanced` (the half of the weight is reached at the value and not before; hence
`MedianIsFair`), `MedianExists` (ties and the fallback of the selection loop included), `SnapshotCounts`, and
`ConfidenceNeeds`: a confidence of nine tenths leaves room for no missing class, no single upstream and no loss of
more than half of the fresh weight, while the caps exclude every disagreement and error (`VerifiedIsAlwaysEarned`).
`ReadersAlwaysServed` compares what is counted in a snapshot with what each read model asserts.

**Connectors.** `ScanInv` says what each request in flight may rely on. A supply scan has the shape of a checkpoint
(`Checkpoint`): nothing read, the whole asset read, or the empty page after it read, with counts, cursors, tokens and
log that fit; hence `CheckpointResumable`, for the checkpoint in hand, the one an error returns and any the caller
kept, as long as its log is in order. An order book has read the first offers of one side of one ledger's book, and
its cursor is the last one's (`PrefixRead`), so it is complete when the page after the cursor is empty. That an
accepted page goes on exactly there, although the answer may repeat its records, start from the beginning or link to
itself, is `DistinctPage` (a page without a repeated token is the page asked for), `PrefixPage` and `DepthPages`.
`SnapshotExact` then needs that sorting loses nothing: the place of an offer is the number of offers before it,
`BeforeOrders` makes that a strict order of exact fractions (`CrossTransitive`), and distinct places are a permutation
(`PlacesPermute`), without induction. For `BucketsExecutable` the cost of a level is rounded down (`FloorCost`), bands
are nested (`BandsNest`), and sums over longer selections are not smaller (`SumsMonotone`, by the least position at
which they would be). `ScanShrinks` is the safety half of `ScanEnds`: each step of a scan in progress ends it, spends
one of its restarts, or leaves fewer requests to be answered (`Left`), so only fairness is left to the model checker.
The assumptions are positive budgets with room for two pages (`BudgetAssumption`: the least an order book accepts; a
supply scan accepts one page too), bands below 100 percent (`BandAssumption`; the methodology's are), and of the
service what Horizon documents: positive amounts and prices, offers by rising paging token, at most one record per
asset (`RecordsAssumption`, `ServiceAssumption`).

**Only model-checked**: the four liveness properties (`ImplementsLiveLifecycle`, `PassesRecur`, `Served`, `ScanEnds`),
since fairness and ENABLED are beyond the prover; of each the safety half is a theorem (`AttemptsBoundedHolds`,
`PassShrinksHolds`, `ServedStepHolds`, `ScanShrinks`). Every invariant and action property of a passing run is a
theorem. `RetractionStands`, `OccurrenceResolves` and `DepthReadersServed` are false of the code (section 6). Types of
the first six models, `CompletedIsDurable`, `OneActivePerSubject` and `ClockNeedsDelivery` are theorems and no part of
a run. No module uses a RECURSIVE operator.

## 6. Where code and documents disagree

Three disagreements have a run:

1. `reply_retraction`: a cycle's commit writes the publication fields it read (`lib/db/repositories.ts:526`); a
   retraction or withholding review in between is undone, against ADR 0001 line 62.
2. `refresh_depth`: books agree by price and amount and not by ledger (`lib/reconcile/depth.ts:95`), the read model
   takes the agreeing source of the least id and throws unless it is the very book (`lib/db/depth-read-model.ts:72`):
   a depth snapshot that was committed as verified may not be served.
3. `discrepancy_recurrence`: the `resolved` event of a recurrence under the same id targets the first opening
   (`lib/db/repositories.ts:543`) and breaks the unique index on type and target, so a recurrence can never be
   resolved, against `docs/reconciliation/discrepancy-state.md:28-30`.

Others were met while modelling, and the models contain the behaviour:

- A recurrence of the latest ledger gets a fresh id (`lib/reconcile/orchestrator.ts:167`), and `getDiscrepancyStates`
  (`lib/db/repositories.ts:647`) may hand a job the resolved row of the earlier occurrence; the open one is then never
  resolved (`docs/decisions/0001-discrepancy-severity-and-publication.md:42`).
- Supply, depth and trustline discrepancies take their id from the source alone (`lib/reconcile/supply.ts:85`,
  `depth.ts:139`, `trustlines.ts:51`), while a source may be routed to several assets or pairs
  (`lib/db/scheduler-repository.ts:192`). The first subject that deviates owns the row, and every deviating cycle of
  another is refused (`lib/db/repositories.ts:515`).
- A delivery recorded after the discrepancy resolved rolls back with its attempt and ends the worker
  (`lib/db/anchor-case-repository.ts:343`, `docs/anchor-case-workflow.md:14`); the notice is sent again. The id of an
  expiry event repeats after a restarted window (`:426`). A second contact's delivery can restart a reply window that
  the measurement had rewound (`docs/anchor-case-workflow.md:19`).
- An event committed after one with a larger id is never delivered and nothing says so
  (`lib/db/snapshot-event-repository.ts:85`, `docs/snapshot-events.md:35`).
- `WORKER_MAX_ATTEMPTS` counts claims and so counts restarts (`lib/db/scheduler-repository.ts:588`,
  `docs/worker.md:124`); a late batch may overlap its successor (`docs/worker.md:183`). Any error named `AbortError`
  releases a lease as a shutdown does (`lib/worker/scheduler.ts:97`).
- The retention of quota rows is not compared with the windows (`scripts/prune-api-quota.ts:13`,
  `docs/api-access.md:88`): where it is shorter, cleanup restarts the count of a window in use.
- A job that skips a source writes the row it read with its own completion time
  (`lib/worker/latest-ledger-job.ts:232`), which replaces a newer result that completed earlier
  (`lib/db/repositories.ts:426`, `docs/database.md:97`).
- A cycle whose source was disabled while it has a discrepancy row throws until the source is back
  (`lib/reconcile/orchestrator.ts:260`); a ledger so old that its weight is zero fails the whole cycle
  (`lib/worker/latest-ledger-job.ts:288`, `docs/worker.md:164`).
- A suspension reads the bindings without a lock (`lib/db/anchor-repository.ts:201`) and writes whole rows back, so it
  removes a binding another operator wrote meanwhile, or restores one that was removed, against
  `docs/connectors/stellar-toml-anchor-discovery.md:15-17`. An asset with two bindings is two routes, for which
  discovery throws (`lib/db/scheduler-repository.ts:395`). A superseded domain leaves its claimants, sessions and
  contacts valid until they expire (`docs/anchor-claim-workflow.md:31`); a scheduled notice goes to a contact revoked
  since (`docs/anchor-claim-workflow.md:48`).
- The order-book connector takes a full page without a next link for the end (`lib/stellar/horizon-depth.ts:471`),
  where the supply connector reports a partial scan; a checkpoint of a scan that ran out of pages never progresses
  under the same limit, and no job resumes one. A checkpoint whose log has a request during which the clock was set
  back is returned without `restartRequired` and refused when it is handed back (`lib/stellar/horizon-supply.ts:514`).

## 7. Not modelled, and why

- Text, formats, URLs and hashes; floating point (weights older than 53 half-lives vanish there); the mZAR profile.
- The reaper's limit of 100 rows a pass: the model's reaper takes all. Edits of the registry of sources during a job:
  nothing reads it then, so they are edits after it.
- Upgrades of the methodology version and of plan limits while requests run: constants of the models.
- HTTP parsing, caching, encryption, the transport's requests, pages, logging, connection handling: no state, or input
  and output only.
- Evidence, disputes and corrections of an anchor; contacts' secrets. Sessions that could not authenticate from the
  start, and two claims of one millisecond, whose ids collide. The unique index on active claimants: the model does
  not rely on it, and `Single` shows that the locks suffice.
- Several anchors at once: every row of the registry and the claims names its anchor and no transaction touches two.
- Deadlocks of PostgreSQL inside the scheduler, projection and access transactions, which lock in one order; those of
  the registry and the claims are an `Abort`.
- Which ledger a response is of is taken from its header and trusted, as the code does.
- `assessSupplyEvidence`, which no production code calls.
- The backup drill: its steps run once, in order, in one process, and what a crash leaves is a file that the next run
  neither reads nor removes; there is no second actor and no recovery to model.

## 8. Plan

Done, in order of importance: lease scheduler with its life cycle; state machine and projection; right of reply;
snapshot stream; API access; source health; refresh cycle and reconciliation; connectors; registry and claims.

Left:

1. Evidence, disputes and corrections as rows of `AnchorClaims`, with the reading of one session's evidence by
   another.
2. Freshness and operational status of the read models against the reader's clock.
