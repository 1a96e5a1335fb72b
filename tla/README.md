# A TLA+ model of Scrooge's event substrate

Scrooge (`prototype/`) is a bank run by software agents. Everything the agents do
is recorded in an append-only event log, and everything they react to is read
from it. This directory models the part of the program on which the rest stands:
the event store and its cold tier, the event-trigger bus, the scheduler, the sync
of several hosts' stores, the snapshots that projections are read through, the V2
tee, the runs of agents, and, of the business code, the close of an accounting
period. The rest of the business code (risk, KYC, payments) computes projections of
that log; if the log loses an event, a trigger fires twice, a snapshot hides a
posting or a sync turns cause and effect round, all of it is wrong.

Paths below are relative to `src/prototype/`.

## 1. Inventory

| Component | State | Operations | Interacts with |
|---|---|---|---|
| Event store (`platform/event-store/store.ts`) | SQLite table `events` (AUTOINCREMENT sequence, unique event id), `archive_partitions`, `bus_dispatch_claims`, snapshots | `append`, `replay`, `reclassifyEntity`, `archiveEventsOlderThan`, `extractToArchivePartition`, `verifyArchiveIntegrity`, `highWatermark`, `claimDispatch`, `snapshotProjections`, `replayFromSnapshot` | every process opens the same file |
| Archiver (`scripts/archive/check-and-archive.ts`) | none | works out a cutoff and calls `archiveEventsOlderThan` | event store |
| Partitioned store (`platform/event-store/partitioned-store.ts`) | open archive files | unified `replay` over cold and hot | event store |
| Event-trigger bus (`platform/event-trigger-bus/bus.ts`) | none of its own; claims and `BusDispatched` rows | `tick(fromSequence)` | store; worker runner; `scripts/bus-tick.ts` (cursor file); `runtime/run.ts` and `dashboard/server.ts` (a tick after each run) |
| Scheduler (`platform/scheduler/scheduler.ts`) | registry of schedule entries | `tick`, `inactivityCheck` | store; calendar; `scripts/scheduler-tick.ts`, `scripts/substrate-scheduler.ts` |
| Scheduled-trigger consumer (`platform/event-trigger-bus/scheduled-trigger-consumer.ts`) | none | `consume` | store, claims, runner |
| Postgres sync (`platform/event-store/postgres-sync.ts`) | the cloud's `events` table | `runSync` | the store of each host |
| V2 tee (`platform/event-store/v2-store-tee.ts`) and control-plane store | a second store; the types alerted about | `append`, `appendAll`, `backfillV2StoreTee`, the coverage gate | wraps the store in every process; archiver; sync |
| Snapshots, projection runtime (`platform/projections/`) | table `snapshots` | `snapshot`, `pruneSnapshots`, `loadSnapshot`, `replayFromSnapshot`, `projectFromSnapshot`, `maybeSnapshot`, `readWithOutputSnapshot` | store; the decisions register, backtests, the trial balance |
| Period close (`platform/accounting/period-close.ts`) | none of its own; opened, closed and balance events | `openPeriod`, `closePeriod`, `closePeriodV2`, `snapshotTrialBalance` | output cache; store; the scheduled handler `bea-period-close.ts` |
| Agent runtime (`runtime/run.ts`) | wrappers and nesting depth of the host process | `runAgent`, `restoreWorker`, `recordDeliverableFiled` | bus (a tick at the end of a run calls `runAgent`), store |
| Worker bus runner, Postgres mirror | in-flight set; a second store | spawn, time out; copy | used by tests only; the push half of the sync |
| Escalation channel, goal loop, agent registry | folds over the log | raise, decide, delegate, overdue | store |
| Cron expressions, calendar | holiday tables | parse, `nextFireAfter`, `shiftPastHolidays` | scheduler |
| Append-only recon | none | seven checks over the store | store |
| Business domains (onboarding, trade life cycle, KYC, accounting, credit, payments, risk, documents, dashboard) | projections | see `PROJECT.json` | append and replay |

What is hard in it:

* **Several processes, one file.** Agents' runs, the dashboard, `bus:tick`,
  `scheduler-tick`, the archiver and the sync hold the store open at the same
  time. SQLite makes statements and transactions atomic; calls of several
  statements are not.
* **Crashes and failing statements** between two statements of a call: a claim
  without its audit, a registered partition whose rows are still hot, half of a
  tick's triggers appended.
* **The hot table shrinks.** Archiving takes away rows that the bus, the
  scheduler and the sync use as their memory of what has happened, makes gaps
  in the sequence and lowers `highWatermark()`.
* **Every store numbers events for itself**, so that order has to survive a sync
  that pushes row by row and pulls in bulk, several times at once.
* **Counts that stand for sequences.** Snapshots, the output cache and the tee's
  coverage gate label or compare what they saw by a number of rows, taken at
  another moment than the rows, from a table that others shorten.
* **Shared host state.** Runs nest and overlap in one process and wrap its
  `fs` and working directory; each must put back what it took, whichever way it ends.
* **Retries by repetition.** Nothing is retried in place: what a tick or a sync
  missed is made good by the next one, or by none.

`PROJECT.json` lists each of these at its line under `hazards`, with the
properties that cover it.

What makes each component correct:

* store: no appended event is ever lost to a full replay, none appears twice, an
  archived row is kept as it last stood, the registry agrees with the files;
* bus: a handler is invoked at most once per event, audits are not duplicated,
  the cursor never passes work that was not done, due work is done in the end;
* scheduler: a fire time is fired once, run once, caught up after an outage, and
  dispatched in the end;
* sync: no store holds an effect ahead of its cause; every event gets everywhere;
* snapshots: a read through them shows nothing from after its as_of, and misses what
  a full replay finds in two known ways only;
* period close: a trial balance is complete, a period is closed once per opening, the
  frozen cursor covers the balance, and a close names the balance of its own attempt,
  not one that an attempt cut short has left behind;
* agent runs: the host process comes out as it went in, every run has its pair of
  life-cycle events, and a deliverable is filed once;
* tee: the mirror holds each event once and in order, a failure is alerted, the gate's
  verdict can be relied on, a backfill leaves nothing behind.

## 2. Modules

| Module | Models |
|---|---|
| `AppendOnlyLog` | abstract specification: a log that only grows, with growing sequences and unique ids |
| `EventStore` | hot table, archive files, registry; append, reclassify, archive, extract; throws and crashes |
| `PartitionedEventStore` | a reader of the unified replay, beside the calls of `EventStore` (which it extends) |
| `AtMostOnce` | abstract specification: a job is begun once and for good, and runs only after that, once |
| `EventTriggerBus` | the bus's `tick` in `bus:tick` processes and in agent-running processes |
| `Scheduler` | `LocalScheduler.tick` and `ScheduledTriggerConsumer.consume` |
| `PostgresSync` | `runSync` between several hosts and the cloud table |
| `SnapshotTable` | the SQL of the table `snapshots`, as operators |
| `ProjectionReads` | the decisions register and the backtest read, saved and pruned through snapshots (uses `SnapshotTable`) |
| `PeriodClose` | opening, closing and reopening a period, with the trial balance read through the output cache (uses `SnapshotTable`) |
| `AgentRun` | `runAgent` in command-line and server processes |
| `StoreTee` | the V2 tee, its backfill and its coverage gate |
| `EventStoreProofs`, `EventTriggerBusProofs`, `SchedulerProofs`, `PostgresSyncProofs`, `ProjectionReadsProofs`, `PeriodCloseProofs`, `AgentRunProofs`, `StoreTeeProofs` | theorems and their proofs; the inductive invariants stand at the end of the modules they are about |
| `MC*` | instances for TLC (`StoreTee` needs none) |

One step of a model is one SQL statement, one transaction or one file operation;
between two of them any other process may act, and the process may die. Handlers,
payloads and message texts are abstracted to ids.

### EventStore

`hot` is the table `events`, a row being its sequence, its id and one mutable
column (`tag`, standing for entity and provenance). `files` and `onDisk` are the
archive databases, `partitions` the registry, whose SHA-256 column is represented
by the content that was hashed. `job[p]` is the call a process is in and its
locals. `accepted` is a history variable: the appends that have returned.

`archiveEventsOlderThan` is five actions (`ArchiveOpen`, `ArchiveCopy`,
`ArchiveGate`, `ArchiveRegister`, `ArchiveDelete`), since its steps 6 and 7 are
separate transactions. `extractToArchivePartition` is two (`ExtractCopy`,
`ExtractCommit`), its last step being one immediate transaction. `Refuse` is the
calls' own refusals, `Fail` a statement that throws; both run the catch block,
which unlinks the file. `Crash` runs no catch block. `reclassifyEntity` reads and
writes in two statements.

Assumption: `existsSync` and the creation of the archive file are one step. The
paths carry a timestamp in seconds, and archive runs are hours apart.

`Replayable` is what a full replay finds; `Log` instantiates `AppendOnlyLog` with
it, and `ImplementsLog` is the refinement.

### PartitionedEventStore

`reader` is one unified replay: `ReplayList` reads the registry, `ReplayCold` one
archive file after the other in the order of their first sequence, `ReplayHot` the hot
table; the calls of other processes commit in between, and a file that is gone makes the
replay throw (`ReplayThrows`). A reader writes nothing (`ReadersOnlyRead`), so that one
stands for any number.

### EventTriggerBus

A *ticker* is `bus:tick` started over and over: open the store (which backfills
claims from audits), read the cursor file, fold the audits, take the watermark,
walk, and for each due pair claim, invoke, audit, alert; write the cursor file,
exit. A *runner* keeps the store open and ticks from the watermark its agent run
began at. An event's type is abstracted to the set of its subscribers
(`SubscribersOf`). `Publish` covers appends by the rest of the system, the sync
pulling an archived event back included; `Evict` covers the cold tier. `Init`
also starts from a store that holds an audit from before claims existed. `Dispatches`
maps claims and audits ever made to the jobs begun of `AtMostOnce`, and invocations to
their runs; `ImplementsAtMostOnce` is the refinement.

### Scheduler

Time is counted in days; a cron expression is the set of days it fires on;
`ShiftPastHolidays` is the calendar. A *ticker* (`scheduler-tick.ts`) boots, ticks,
consumes and exits; an *emitter* (`substrate-scheduler.ts`) boots once and ticks.
A deploy may remove a handler, after which its triggers are met by `consume` with
no handler (`SkipUnregistered`). SubstrateAlerts are left out: nothing in this
component reads them. So are the cap of 1000 fire times per entry and tick
(`scheduler.ts:321`; the window of seven days holds fewer unless an expression fires every
ten minutes or more often) and an expression on which `nextFireAfter` throws, which
ends the walk over its own entry. Here `AtMostOnce` is implemented by scheduler and consumer
together: a fire time is begun when its trigger is appended, and run by the consumer.

### PostgresSync

`hot[h]`, `cold[h]` and `last[h]` are a host's table, its archived ids and its
AUTOINCREMENT counter; `cloud` is the Postgres table. A sync is `ReadLocal`,
`ReadCloud`, one `PushEvent` per row and one `PullEvents` transaction. Both
`INSERT OR IGNORE` and `ON CONFLICT DO NOTHING` use up a number for a row they
ignore. `before` is a history variable: which events were known where an event
was appended.

### ProjectionReads

A *register* process is `buildRmsRegistersFold` of the dashboard: take `now()`, take
`count()` as the cursor, project, and `maybeSnapshot` with that cursor. A *backtest*
is the signal projection of `rohan-backtest-harness.ts`, which asks for times ahead
of the clock and saves the number of events folded as the cursor. Each SQL statement
is a step: `Load` and `Reload` are the two look-ups of one read, `Snapshot` and
`Insert` the look-up and the INSERT of `snapshot()`, then `Prune`. The state of a
projection is the set of events folded. `shouldSnapshot` may say yes at any time,
since it also goes by elapsed time. The backtest filters by entity and provenance,
which `reclassifyEntity` and `reclassifyProvenance` rewrite in place: `apart` holds the
signals tagged out of its stream, `Retag` moves one out or in, `Passed` is what a replay
passes over. The register reads every entity and, in mode "combined", every provenance.
`missed` is what a full replay at the moment of
the fold would have found and the read does not hold; `written` and `reloaded` are
history variables.

### PeriodClose

One period of one entity. `log` has postings (inside the period or not), openings,
balances and closes; `cache` and `ends` are two streams of snapshots: the output
cache of the trial balance and the end-of-period snapshot. A balance is read in the
steps of `readWithOutputSnapshot`: count, look up, fold, decide, look up and insert,
prune. A close is that read, then `AppendBalance`, `TakeWatermark`, `SnapshotEnd` and
`AppendClosed`, with `Crash` possible between any two. The handler takes the
period from the month of its own run (`bea-period-close.ts:61-66`), so that it closes a
period on the last calendar day only, `PeriodEnd`, and never looks at it again;
`OperatorCloses` covers calls by hand and `closePeriodV2`, whose guards differ. One
process writes (the handler's schedule and the operator's script do not overlap); any
number read interim balances.

Assumptions: the as_of of an opening and `closedAt` come from the callers
(`period-close.ts:142`, `:400`); the model takes both from one clock that never goes back,
which today's callers keep and nothing enforces. Postings keep their entity and
provenance: one retagged out of the ledger after a balance was cached is not modelled.

### AgentRun

A call's `pc` changes where the code awaits or calls the store. Within a process a
call goes on only while no other is between two awaits (`Scheduled`); a command-line
process begins its top-level calls one after the other, a server overlaps them, and a
bus tick nests event-driven calls. `depth`, `wrapped` and `cwd` are
`runnerWorkerDepth`, the wrapped functions and the working directory of a process;
`installed`, `outer` and `before` are the locals of `runAgent` that `restoreWorker`
closes over. `records` are the RecordFiled events of the store, of the documents register
and of another one, in which `handlerSelfFiled` (any register) and the look-up of prior
paths (documents only) search; `archived` are those that have left the hot table, which
neither sees. A process in `Relative` has a BANK_REPO_ROOT that is not absolute: its
outermost calls are `Refused`, `createRunnerWorker` throwing after the Started event.
Records that a sync pulls in from other hosts are left out.

### StoreTee

`log` has the V1 events of types with a tee, with who appended them; `hot` those that
are not archived; `mirror` the rows of the V2 store in order of insertion. `proc[p]`
is what a process has still to mirror after its V1 transaction, and the failure it is
about to alert. `Pull` is the sync, which inserts past the tee. The backfill
(`PreScan`, `ReplayV1`, `Copy`) and the coverage gate (`CountV1`, `CountV2`) go type by
type. `late`, `failed`, `alerts` and `muted` are history variables.

## 3. Runs

| Run | Checks | Bounds |
|---|---|---|
| `store_archive` | `TypeOK`, `ImplementsLog`, `ReplayMissesOnlyMoved` | 2 processes and a reader, 3 events, 2 files, archiving and extraction |
| `store_extract` | `ReplayedOnce`, `ArchiveIntegrity` | 2 processes and a reader, 2 events, 3 files, 2 tags, extraction and retagging |
| `bus_dispatch` | `TypeOK`, `ImplementsAtMostOnce`, `AuditedOnce`, `CursorSafe`, `EventuallyDispatched` | a ticker and a runner, 2 events, publishing up to sequence 2, 1 fault |
| `bus_audit_retry` | violation of `LostAuditRetried` | 1 ticker, 1 event, 1 fault |
| `sync_order` | `CausalOrder`, `EventuallyEverywhere` | 2 hosts, 3 syncs (2 on one host), 2 events, 2 faults, no archiving |
| `sync_archive` | `TypeOK`, `CloudOrder`, `HostOrder` | 2 hosts, a sync each, 3 events, archiving, 1 fault |
| `sched_once` | `FiredOnce`, `ImplementsAtMostOnce`, `FireTimesDispatched` | 1 ticker, 2 entries, 4 days, a holiday, 2 faults |
| `sched_window` | `TypeOK`, `CaughtUp`, `RunsPerTrigger` | a ticker and an emitter, 3 days, window of 2, a holiday, 1 fault, 1 archive call, a removed handler |
| `reads_snapshots` | `TypeOK`, `NothingFromTheFuture`, `MissesOnlyLaterDated` | 2 register readers, a backtest, 2 events, 2 times, retagging, 1 archived event, 3 reads, 1 snapshot kept |
| `close_period` | `TypeOK`, `BalanceComplete`, `OneClosePerOpen`, `CursorCoversBalance`, `ClosesOnWhatWasThere` | a closer and a reader, 3 times, the second the period's last day, 3 steps from outside (postings, archives, reopens, interim balances, crashes), 1 cached row kept |
| `agent_run` | `TypeOK`, `HostRestored`, `BoundaryHeld`, `Paired`, `DeliverableFiled`, `FiledOnce` | 2 command-line processes, one with a root that is not absolute, and a server, 3 calls, 2 active at once, 1 path, 1 record of a handler, and 1 fault or archived record |
| `tee_mirror` | `TypeOK`, `FoldOrder`, `FailureAlerted`, `VerdictSound`, `BackfillComplete` | a process, a backfill and the gate, 3 events of 2 types, 1 archived event, 2 faults |

Why the bounds are enough for the interesting cases:

* `store_archive`: two calls overlap on the same rows and files, and a call can meet
  what a crashed one left. With three events, one can lie in a file that the replay has
  read, one in a file registered since, and one be hot. Retagging changes no id and no
  sequence and is left to `store_extract`; the theorems are about all operations at
  once. Symmetry: processes, ids and paths are interchangeable.
* `store_extract`: two events and two tags let a row be retagged between copy and commit,
  and two extractions race for the same rows; the third file lets one be tried again.
* `bus_dispatch`: two sequences besides the audits allow an event to be archived and
  pulled back, and the watermark to go down; audits use further sequences and make
  gaps when they are archived. Theorems extend the safety results to any number of
  processes, events and faults. `AtMostOnceInvoked` and `RanOnce` need no run of their own:
  they follow from `ImplementsAtMostOnce`.
* `sync_order`: two events suffice for one cause and one effect, written on
  different hosts or on one; the third sync overlaps another on the same host.
  `sync_archive` has chains of three.
* `sched_once`: with day 1 a holiday, the daily entry's fire times of days 1 and 2
  fall on one day. `sched_window`: a window of two days inside three lets fire
  times leave it during an outage.
* `reads_snapshots`: two readers of one stream race to save the same triple and prune
  each other's row, a third read starts from what they left; two events and an
  archived one make the count differ from the sequences; two times let an event be
  dated before its sequence's neighbours and a backtest look ahead. Retagging is not
  bounded: a signal may go out of the stream and back between any two steps.
* `close_period`: three steps from outside make a posting, a close, a reopen and another close,
  or a posting, a crash and a retry on another balance, or a posting, an archive and a posting between a
  count and the read that uses it. The clock goes past the last day, so that an operator
  closes what the handler left open. One cached row is kept (the code keeps five), so
  that pruning bites.
* `agent_run`: three calls allow two to overlap while the third is nested or follows;
  an overlap needs no more than two at once to have an installer that ends first. One
  record of a handler, in either register, and one archived record are enough for a
  window that deceives, and for a path filed, archived and filed again. That takes no
  fault, so that both count against one bound; the theorems are about any number of each.
* `tee_mirror`: three events allow a batch and a single append, an event pulled past
  the tee, and an alert; two faults allow a failed mirror and the failure of its
  alert, or of a second type.

Deadlock is checked in the bus, sync and `sched_once` runs. It is off in the others,
where the bounded supply of events, files, reads, calls or fire times runs out and the
processes are idle: a state in which the program may rest.

### Fairness

* `EventTriggerBus!FairSpec`: weak fairness of the steps of tickers, none of
  runners. `dashboard/server.ts:1814` names the "standalone `bus:tick` cron"; a tick that is running is scheduled by the
  operating system. Crashes and throws are bounded (`MaxFaults`): a tick that
  always fails makes no progress in the code either.
* `Scheduler!FairSpec`: weak fairness of tickers: launchd starts
  `scheduler-tick` every 60 seconds, never two at a time. `sched_once` takes a
  look-back window longer than the run of the clock, that is, no outage exceeds
  the window; the code gives up on older fire times by design.
* `PostgresSync!FairSpec`: weak fairness of syncs, which are run before and after
  every workflow run. A failed sync is followed by others.

The other specifications state no fairness: nothing in them is promised to happen. In
particular, no one promises that a period is closed ("Met while modelling", below).

### What the violation shows

`bus_audit_retry`: a `BusDispatched` append that failed is never made good: the claim
stands, and every later tick loses it. It is quoted against the code's own comment in
`PROJECT.json`, `findings`.

Met while modelling, and not stated as runs.

Store, bus, scheduler and sync:

* When the delete of step 7 of `archiveEventsOlderThan` throws, the catch block unlinks
  a file whose registry row is committed (`store_extract` with `Operations` =
  {"archive"} violates `ArchiveIntegrity`); when it dies there, rows are in two tiers.
* A unified replay lists the partitions once and reads the hot table last: what a call
  archives or extracts in between is in neither, and the replay ends without it. This is
  the exception in `ReplayMissesOnlyMoved`. Where archive calls run, it may also yield an
  event twice (`store_archive` with `ReplayedOnce`): rows registered and not yet deleted.
* A row reclassified between copy and delete of an extraction is archived with its old
  envelope; `reclassifyEntity` reports success when its UPDATE changed nothing.
* `PartitionedEventStore.replay` goes back in sequence when partitions interleave; the
  archiver keeps fewer rows than its target when the sequence has gaps.
* The bus's walk is bounded by a number of rows and so passes its snapshot where there
  are gaps. Claims are not synced, so two hosts that tick each dispatch a synced event.
* `scheduler-tick` and `substrate-scheduler` that overlap both fire a fire time
  (`sched_once` with `Emitters` = {m1} violates `FiredOnce`); a trigger archived within
  the look-back window fires again; a trigger without a handler is alerted about by
  every consume.
* `runSync` pulls archived events back, without provenance, and does not push events
  archived since the last sync.

Snapshots and period close:

* A read through a snapshot misses an event appended before the snapshot's cursor was
  taken with an as_of later than the snapshot's. This is one exception in
  `MissesOnlyLaterDated`; the comment at `rms-view.ts:289` calls those events
  safe, being outside the as_of of that snapshot; a later read does not get them. The other is an
  event tagged into the backtest's entity or provenance after a snapshot had passed over
  it: later reads start behind it. (One tagged out of them stays in the snapshots that
  hold it; nothing is claimed about that.) Left out altogether are reads whose two
  look-ups find different rows (`reloaded`): such a read may miss anything.
* `store.snapshot` returns the existing row for a known triple, whatever the payload,
  while its comment says that UNIQUE rejects a different payload.
* The backtest's list of signals holds events twice once a snapshot was used, against
  the comment at `rohan-backtest-harness.ts:314`; its reader counts ids once.
* The output cache takes a balance for fresh when as many events were archived as
  appended since its count, which `output-snapshot-cache.ts:48` calls not reachable.
  This is the exception in `BalanceComplete`.
* The comment at `bea-period-close.ts:123` closes a period "on or past the last calendar
  day", but the handler derives the period from the current month, so that it is never
  past it. A run that is missed on that day, dies or meets `InsertThrows`, or a first
  posting after it, leaves the period open until an operator closes it; and a period that
  was reopened is never closed by the handler, which sees the earlier close.
* When the opening and the close of a period are archived, the handler opens the
  period again. A posting between the fold and the watermark lies under the frozen
  cursor and not in the balance.

Agent runs:

* Runs overlap in the dashboard, and the one that installed the boundary may end first:
  the others then run without it. `BoundaryHeld` is about the time before that.
* A store statement that throws after the handler leaves `runAgent` past
  `restoreWorker`: the depth never returns to 0 and no later run installs the boundary.
* With a BANK_REPO_ROOT that is not absolute, every outermost call leaves a Started event
  alone: `createRunnerWorker` (`run.ts:607`) stands before the try, and its constructor
  throws (`runner-worker.ts:216`). The comment at `run.ts:615` says that this case is
  caught and that the handler runs unwrapped. `Paired` says what the code does.
* The window of `handlerSelfFiled` holds the records of other processes too: a
  deliverable may go unfiled. So it may after a record of its path in another register,
  since `record-deliverable.ts:100` does not ask for the register; the comment above it
  says that such a record alone does not count. Two processes may both file a path, while
  `record-deliverable.ts:27` says that a `recordId` match short-circuits. The "store-wide
  check" of line 25 is of the hot table: a path whose record was archived is filed
  again. The exceptions in `DeliverableFiled` and `FiledOnce` are these.

Tee:

* An event whose own mirroring failed is put behind later ones by the backfill: the
  "Fold order is preserved" of `backfill-v2-store-tee.ts:30` is about one backfill into
  a store that has nothing later. Across types and processes there is no order.
* The gate compares counts: when a row of a type was archived, a missing mirror makes
  the counts equal and the type "ALL MIRRORED", and without a missing one the gate
  reports an excess for good.
* The comment at `v2-store-tee.ts:198` has SubstrateAlert without a tee, while the
  registry gives it one: the alert of a failed mirror is itself a gap until a backfill.

## 4. Proofs

All theorems hold for every number of processes, hosts, events, types, handlers, calls,
backfills, files, days and faults; `ASSUME`s only say that the sentinels are no proper
values, that bounds are natural numbers (the look-back window a positive one), where a
sync runs, and that no thirty-one days in a row are holidays (`shiftPastHolidays` gives
up after thirty). Ten theorems have a hypothesis besides, which holds in the run of the property, and without which the code breaks the property (section 3, "Met while
modelling"):

| Theorem | Hypothesis |
|---|---|
| `ExtractionsKeepIntegrity`, `ExtractionsStoreOnce`, `ReplayNeverRepeats` | files are written by extractions only (`"archive" \notin Operations`): a delete of the archiver that throws unlinks a registered file, and rows it has registered and not deleted yet are in two tiers |
| `ArchivesKeepIntegrity` | no delete of the archiver throws (`[][~ DeleteThrows]_vars`); everything else may, and processes die anywhere |
| `SchedulerFiredOnce`, `SchedulerRanOnce`, `SchedulerImplementsAtMostOnce` | the ticks of different processes do not overlap (`[]TicksApart`), and no trigger is archived within the look-back window (`[]WindowKept`): two ticks at once, or a tick that no longer finds the trigger, fire twice. Consumes may overlap, and older triggers be archived |
| `SyncCausalOrder` | no archiving (`MaxSeq = 0`): an archived cause is missing in the table of its effect |
| `SyncCloudOrder`, `SyncHostOrder` | one sync at a time on a host (`OneSyncPerHost`): of two, one has pushed the effect before the other pushes a cause that was archived since |

Every inductive invariant was model-checked before it was proved.

`EventStoreProofs`:

* `TypeCorrect`: `Spec => []TypeOK`.
* `StoreInvariant`: `Spec => []StoreInv`. That no event is lost is not inductive:
  an event that is only in a registered file is lost if a call still in progress
  throws and unlinks that file. `StoreInv` therefore says where the events are
  safe (`CoverInv`: hot, or in a registered file of no call in progress), that a
  call owns its file (`OwnerInv`), that what the archiver will delete is among
  what it copied, since its cutoff is behind every sequence to come (`CopyInv`),
  and that sequences are handed out once (`SequenceInv`).
* `StoreImplementsLog`: `Spec => ImplementsLog`, the refinement of
  `AppendOnlyLog`: an append maps to an append, every other step to a stutter.
* `ExtractionsKeepIntegrity`, `ExtractionsStoreOnce`, from `ExtractInv`: no call in
  progress holds a registered path, which is what keeps its catch block from unlinking
  the file, and no path is registered twice. That the loser of a race neither registers
  nor deletes rests on the count of deleted rows: it equals the count of copied rows
  only if all of them are hot still, so that no event gets into two tiers (`StoredOnce`).
* `ArchivesKeepIntegrity`, from `IntegrityInv`: of the calls in progress only an archive call
  past its registration holds a registered path, and what may still fail there is its
  delete.
* `ReadersOnlyRead`: `ReaderSpec => Spec`, which carries every theorem about `Spec` over to
  the specification with a reader.
* `ReplayComplete`: about a replay at its end, so not inductive. `ReplayInv` says where an
  event is that the replay has not yielded: hot, in a file it has still to read, or in
  one it does not know of, and there out of reach of a catch block; and that the rows a
  registered archive call is about to delete, where the reader is past their file, were
  yielded. The lemma `EveryStoreStep` says what any step of the store can
  do to a reader in progress, once for both proofs.
* `ReplayNeverRepeats`, from `YieldInv`: while a replay is reading archives, everything it has
  yielded is in a file it has read, so that by `StoredOnce` it is in no tier to come.

`EventTriggerBusProofs`:

* `BusTypeCorrect`: `Spec => []TypeOK`.
* `BusAtMostOnce`, `BusAuditedOnce`: from `DispatchInv`. What was dispatched is
  claimed, or at least audited in the hot table, from where the backfill claims it
  when a process opens the store; while a process has the store open, everything
  dispatched is claimed, and each pair is worked on by one process only.
* `BusImplementsAtMostOnce`, also from `DispatchInv`: a won claim maps to a `Begin`, since
  what an open process has not claimed was not audited either, an invocation to a `Run`,
  every other step, the backfill and crashes included, to a stutter.
* `BusCursorSafe`: from `CursorInv`. What a ticker has walked past is claimed or
  on its list, up to its snapshot; the pairs it skipped as audited are claimed.

`SchedulerProofs`:

* `SchedulerTypeCorrect`, `SchedulerCaughtUp`, `SchedulerRunsPerTrigger`, from
  `SchedulerInv`. `CaughtUp` speaks of processes past their tick; `CatchUpInv` follows one
  from its look at the log: each fire time of the window has a trigger or is on the
  process's list. The look-back arithmetic is a lemma: what `CaughtUp` asks about lies in
  the days the tick works out, holiday shifts included. That runs do not exceed
  triggers is not inductive, since a claimed trigger may still run; `RunsInv` counts the
  claimed triggers that no process is about to run (`Spent`), and `TaskInv` says that
  two processes never hold the same one.
* `SchedulerFiredOnce`, `SchedulerRanOnce`, from `OnceInv`: what the process has still to
  fire was not fired, which a tick that overlaps would break, or the archiving of a
  trigger that a tick in progress may still ask about. No tick asks about a day before its
  window, holiday shifts included (`DueDaysAfter`). The second then follows from the first
  and `RunsInv`.
* `SchedulerImplementsAtMostOnce`, from the same: a fire maps to a `Begin`, an invocation to a
  `Run`, since the one trigger of its fire time is not spent.

`PostgresSyncProofs`:

* `SyncTypeCorrect`, with `KnownInv`: sequences lie below the counters, and what a sync
  holds is of events its host and the cloud have. A lemma on cardinalities says that
  pulled rows are numbered in the cloud's order.
* `SyncCausalOrder`, from `CausalInv`. That the tables are in order is not inductive: a
  sync pushes what it read. Its locals are therefore in order too, up to what the
  destination has already (`InOrderFor`); since a push starts at the lowest sequence, an
  effect is pushed only when its causes are there.
* `SyncCloudOrder`, from `OriginInv` (an event not in the cloud is known at one host, and
  its causes there) and `OrderInv`. With archiving, a cause may be missing in the cloud
  for good; `OrderInv` says that it will then not come any more, because no hot table
  and no sync in progress holds it.
* `SyncHostOrder`: with archiving, a cause may be archived, or archived and pulled back behind
  its effect. That a pull breaks no order at the host needs that a pulled event has no
  effect there yet: `ClosedInv` says that where an event is known, or in a sync's hands to
  be pulled, so are its causes that the cloud has. A pull then brings an event behind its
  effect only if the event is in the archive, where it comes first.

`ProjectionReadsProofs`, all from `ReadsInv`:

* `ReadsTypeCorrect`, with the UNIQUE constraint; `ReadsNothingFromTheFuture`, from `Dated`
  of rows and of reads in progress.
* `ReadsMissOnlyLaterDated`: about reads that have folded, so not inductive. `RowOK` says of
  every row that its state holds all it accepts up to its cursor, but for later-dated
  events of some row and for those its own fold passed over as tagged out (`Complete`), and, of the backtest's rows, that a number of folds is
  never ahead of the sequences. Rows may be pruned while a read holds one, so a read in
  progress carries the same statement about its own copy (`ReadInv`).

`PeriodCloseProofs`, all from `PeriodInv`:

* `PeriodTypeCorrect`, with the UNIQUE constraint on both streams.
* `PeriodBalanceComplete`: a count is not a sequence. The hot table is the newest part of
  the log (`LogInv`), so a count and the number of events archived by then make the
  sequence up to which a balance is complete; `BalanceInv` says so of each cached row and
  each call, between any two of its steps.
* `PeriodOneClosePerOpen`, `PeriodCursorCoversBalance`, `PeriodClosesOnWhatWasThere`, from
  `CloseInv`: a close in progress
  has an opening that no close has followed, and is dated no earlier than any opening;
  this is what makes the guard on `as_of` as good as one on sequences. It names a balance
  that is in the log, which is of its own attempt and as complete as `BalanceInv` has it, and,
  once taken, a cursor that covers it.

`AgentRunProofs`, all from `RunInv`:

* No call of a process with a root that is not absolute ever becomes active
  (`RelativeInv`), so that the others are about calls past the worker's construction.
* `RunTypeCorrect`: the depth counter is the number of active calls (`DepthInv`; where a call
  threw past `restoreWorker` it is larger, and stays so).
* `RunHostRestored`, `RunBoundaryHeld`, from `BoundaryInv`: a process has one outermost call at
  a time, only that call installs, and what is wrapped or moved was so by an active call.
* `RunPaired`, from `LifeInv`, which says how far a call's events have come at each point,
  and that a call waits in its bus tick for those it made.
* `RunDeliverableFiled`, `RunFiledOnce`, from `FilingInv`: between two awaits one call of a
  process runs (`Busy`), so that from its look at the records to its own no other call of
  the process files. Archiving in between only takes records out of the hot table, which
  is where `FiledOnce` looks; the documents record of `DeliverableFiled` may be archived.

`StoreTeeProofs`, all from `TeeInv`:

* `TeeTypeCorrect`: `Spec => []TypeOK`, which includes that the V2 store holds V1
  events only, each once.
* `TeeFoldOrder`: `FoldOrder` only speaks of events that are mirrored, so it is not
  inductive. `OrderInv` also says of an event still missing in the mirror that no
  later one of its type and process is there yet. For the tee this rests on
  `AheadInv` (what a process appended is mirrored, lost to the tee or in its list,
  and the list ascends), for the backfill on `BackfillInv` (what precedes an event
  on its list is mirrored or on the list too).
* `TeeBackfillComplete`: also from `BackfillInv`; the ids of the pre-scan stay in the
  mirror, which only grows.
* `TeeFailureAlerted`: with `AlertInv`, since a type that a process has noted in
  `alertedFailureTypes` gets no second alert.
* `TeeVerdictSound`: with `ReconInv`, that an undisturbed count of V1 is that of all
  events of the type; what V2 holds of it is a subset, so equal numbers mean equal
  sets.

Every safety property of a passing run is a theorem. Only model-checked: liveness
(`EventuallyDispatched`, `EventuallyEverywhere`, `FireTimesDispatched`), which is out of the prover's reach.

## 5. Plan

Done: the modules and the theorems above. Next, in this order:

1. Sync and bus together, from `BusImplementsAtMostOnce` and `SyncHostOrder`: claims stay on
   their host, so that a synced event is dispatched once per host.
2. The escalation channel with racing writers (`platform/escalation/channel.ts:511`
   appends after a fold), and `inactivityCheck`, whose alert ids carry no time
   (`scheduler.ts:540`).
3. The append-only recon's checks against the store model (no false alarm, no missed
   loss).
4. A handler that subscribes to SubstrateAlert and fails, which feeds the next tick
   (`runtime/agents/metadata/atlas.ts:20`).
5. Cron expressions and calendar as operators, against a reference definition.
6. Settlement of FX legs, life cycles of onboarding and trades, credit limits.

## 6. Not modelled

Payload schemas and validation, the permission gate (a stateless filter before
`append`: a refusal is an append that throws), SQL text, logging, HTTP, language
models, message formats (SWIFT, confirmations), document storage (pure I/O) and
the floating-point calculators of risk, liquidity and capital, which are outside
what a model checker can reach. The worker bus runner is created by tests only: the
processes that tick give the bus an in-process runner. The legacy fan-out of `runAgent`
in active mode is turned off by `LEGACY_FANOUT_MODE`. `PROJECT.json`, `components`, has the full list.
