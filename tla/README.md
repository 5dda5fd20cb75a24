# Verification of the basket recovery EA and its Telegram integration

This directory holds the formal models of the *basket recovery* expert advisor
(EA) and of the Python programs that feed it signals from Telegram: TLA+ modules
translated from the source, TLC configurations that check them on small
instances, and theorems with proofs checked by TLAPS.  Paths below are relative
to the repository; `BR/` stands for `src/mt5/Include/BasketRecovery/`, `EA` for
`src/mt5/Experts/BasketRecovery/BasketRecoveryEA.mq5`, and `TG/` for
`src/integrations/telegram/`.

Contents: [1 Inventory](#1-inventory) · [2 Plan](#2-plan) ·
[3 Modules and code](#3-modules-and-code) · [4 Runs](#4-runs) ·
[5 Fairness](#5-fairness) · [6 Proofs](#6-proofs) ·
[7 Disagreements with the documents](#7-disagreements-with-the-documents) ·
[8 Not modelled](#8-not-modelled) · [9 Running the checks](#9-running-the-checks)

## 1 Inventory

The EA trades a *basket* of positions that belong to one signal.  It decides
(strategy, risk, recovery), asks a person or a gate for an authorization, sends a
request to the broker with `OrderSendAsync`, and learns what became of it from
trade transactions, from the broker's positions and history, or not at all.  It
must survive a restart at any moment.  An MQL5 program has one thread: `OnTick`,
`OnTimer` and `OnTradeTransaction` never overlap.  What does overlap is the EA
and the broker, and the EA and its own earlier life.

Beside it run two Python programs.  The *dashboard* is an HTTP server with a
thread for every request; it keeps channels, targets, routes and the Telegram
login in SQLite.  The *listener worker* is a process of its own that listens to
Telegram, joins the messages of a signal (a seed and its details) into a pair,
and writes the pair as two files the EA reads.  Nothing holds the two together
but the database, a lock file and those files.

### 1.1 Components

| Component | State | Operations | Talks to |
|---|---|---|---|
| Status rules (`BR/Domain/Execution/PendingExecution*Rules`, `*Gate`, `*Query`) | none | `CanTransition`, `StatusRank`, `IsTerminal`, `CanResolveFromBrokerRead` | everything that writes a status |
| Registry and correlation (`BR/Application/Execution/PendingExecutionRegistry`, `…CorrelationMatcher`, `TradeTransactionRouter`, `…TransactionApplicator`, `BR/Infrastructure/MT5/Mt5TradeTransactionNormalizer`) | entries in memory, keys of processed transactions | `Register`, `Upsert`, `TryCorrelate`, `TryTransition`, `Route` | store (save), fill notifier (callback) |
| Timeout monitor and reconciliation scheduler (`ExecutionTimeoutMonitor`, `ExecutionReconciliationScheduler`, `…Resolver`, `PendingExecutionLifecycleService`) | queue of ids, deadlines in the entries | `ScanDueTimeouts`, `Enqueue`, `ProcessBatch`, `Mark*` | broker position and history readers, registry, store, notifier |
| Startup reconciliation (`PendingExecutionStartupReconciliationService`, `…RestartService`, `…Hydrator`, `…PersistenceCodec`) | none of its own | `RestorePreparedEntries`, `ReconcilePersistedEntries`, recovery of false rejections | store, registry, history reader, notifier |
| Preparation and submission (`ExecutionSubmissionPreparer`, `PreparedSubmissionValidator`, `SubmitPreparedExecutionUseCase`, `Mt5AsyncSubmissionGateway`) | idempotency cache in memory, envelopes in the store | `Prepare`, `Validate`, `Execute`, `Submit` | registry, store, broker |
| Pending execution file (`FilePendingExecutionStore`, `InMemoryPendingExecutionStore`) | memory image; active, temp and backup file | `SavePreparedState`, `SaveEntryState`, `RestoreFromDisk` | file system, bootstrapper |
| Authorization and safety gates (`ExecutionAuthorizationRegistry`, `LiveSubmissionSafetyGate`, `DemoManualSubmission*`, `RecoveryPendingExecutionChecker`) | authorizations, one-shot triggers | `Authorize`, `Consume`, `Evaluate` | submission services |
| Manual recovery candidates (`ManualRecoveryCandidate*`, `RecoveryCandidateSubmissionValidator`, `RecoveryStepExecutionTracker`) | candidates, steps reserved, submitted or filled | `Register`, `Submit`, `MarkSubmitted`, `MarkFilled` | preparation, notifier |
| Manual profit close (`ManualProfitClose*`, `ProfitCloseFilledPendingCompletionService`, `ProfitLevelCloseExecutionTracker`) | candidates, levels, completions still due | `Submit`, `Complete`, `Retry` | preparation, position reader, basket |
| Kernel and commands (`BR/Application/Kernel/*`, `PersistentCommandQueue`, `InMemoryIdempotencyStore`, `InMemoryEventBus`) | command queue and its file, processed keys and their file, handlers, subscribers | `OnTimer`, `Enqueue`, `DequeueNext`, `MarkCompleted`, `MarkFailed`, `MarkProcessed`, `RecoverOnStartup`, `Publish` | REST ingestion, baskets, file system, event handlers |
| Basket persistence (`BR/Infrastructure/Persistence`) | save queue, basket files | `Save`, `Flush`, `Load` | kernel, file system |
| Basket state machine (`BR/Domain/Aggregates/BasketAggregate`, `TransitionEngine`) | a basket's state and its history | `Transition` | commands, position reconciler |
| Basket position reconciler (`BR/Application/Services/BasketPositionReconciler`) | positions of a basket | `Reconcile` | broker positions, basket |
| REST ingestion (`BR/Infrastructure/Rest`, `CommandIngestionService`) | circuit breaker, refused credentials, backoff, poll cursor | `PollAndEnqueue`, `FetchPending`, `Acknowledge` | command queue, HTTP server |
| Fast path (`BR/Application/FastPath`) | staging buffer, timers | `Stage`, `Evaluate`, timer fallback | kernel |
| Strategy and risk (`BR/Domain/Strategy`, `BR/Domain/Risk`) | plans, limits | pure evaluation | candidates |
| Pair publisher (`TG/fasttrack_file_bridge.py`: `AtomicPublisher`) | seed file, details file, staging and hold files, fingerprints | `publish_pair` and its rollback | the EA (`CFastTrackAuditFileSource` reads the two files) |
| Signal route and candidate-test arm (`TG/route_listener_service.py`, `…fasttrack_file_bridge.py`: `TelegramPairMatcher`, `TG/candidate_test_arm_service.py`, `TG/dashboard_store.py`) | per route: seen texts, pending seed, seeds by group; in the database: mode and arm of the route | `_process_message`, `arm…`, `disarm…`, `consume_candidate_test_publish`, `expire_…` | publisher, database, dashboard threads |
| Listener worker (`TG/listener_worker_client.py`, `TG/listener_worker_runtime.py`) | lock file, row of `listener_worker_state`, rows of `listener_worker_commands` | `start_worker`, `stop_worker`, `start_route`, `stop_route`; `_acquire_lock`, `_process_commands`, `_maybe_heartbeat`, `_shutdown` | dashboard threads on one side, route manager on the other |
| Telethon hook (`TG/route_listener_service.py`: `TelethonRouteListenerBridge`, `RouteListenerManager`) | thread, loop, client and two events of the bridge; active routes | `ensure_started`, `shutdown`, `_thread_main`, `_monitor_telethon_connection` | Telegram, the worker's loop, signal routes |
| Telegram login (`TG/dashboard_api.py`: `TelegramService`, `TG/telegram_adapter.py`, `TG/dashboard_vault.py`) | row of `telegram_connection`, `_auth_phone` in memory, the session file, stored credentials | `configure`, `request_code`, `verify_code`, `verify_password`, `sync_channels`, `disconnect` | Telegram; the worker uses the session |
| Target catalog and account probe (`TG/mt5_target_service.py`, `TG/mt5_terminal_discovery.py`, `TG/mt5_account_probe.py`) | rows of `mt5_targets`, discovery records, the process-wide connection of the MetaTrader5 library | register, add from discovery, patch, disable, delete, `verify_target`, `discover`, `refresh` | database, MT5 terminals |
| Dashboard API and pages (`TG/dashboard_api.py`, `TG/dashboard/`) | sessions, rate limit | request handlers | all of the Python parts |
| Test and validation scripts (`src/mt5/Scripts`) | — | — | read as a description of the code |

### 1.2 How they interact

```
 authorization ─▶ preparation ─▶ [file: QUEUED] ─▶ gateway ─▶ OrderSendAsync ─▶ broker
                                                      │                          │
                               [file: SUBMITTED/REJECTED]                        │
                                                                                 ▼
 fill notifier ◀── registry ◀── matcher ◀── normalizer ◀──────── OnTradeTransaction
      ▲               ▲  │
      │               │  └─▶ [file]
      │   OnTimer: timeout scan ─▶ queue ─▶ reconciliation batch ─▶ resolver ─▶ broker reads
      └── startup:  restore file ─▶ reconcile every persisted entry ──────────────┘

 REST server ◀─▶ poll, acknowledge ─▶ command queue ─▶ [commands/pending.json]
                                           │
                  OnTimer: processor ◀─────┘──▶ handler ─▶ [basket]
                                           └──▶ keys ─▶ [idempotency/processed.json]
```

Every arrow into the registry ends in a save of the whole snapshot.  The fill
notifier is a callback into the step tracker and the profit-close completion;
it is what lets the next recovery step happen.

### 1.3 What is hard here

* **The answer may be late, repeated, in another order, or absent.**  MetaTrader
  sends several transactions for one order, in no promised order, and none to an
  EA that is not running.
* **Four writers of one status**: transactions, timeout scan, reconciliation
  batch and startup each have their own rules, and two of them force partial
  fills around the rules.
* **Weak identification.**  Before the broker's order id is known, an entry is
  matched by symbol, by the absence of an id, or by the position it might have.
* **Crashes between two effects**: between the send and the save, between the
  saves of two entries, between the ten file operations of one save.
* **Two sides that must not both forget a command**: the server, once it is told
  it may, and the EA, which dies between a basket, a key and a queue.
* **Something must happen eventually**: an entry nobody hears of must be settled
  or handed on by the timer.

* **Two files for one pair.**  The publisher replaces a seed and its details one
  after the other, any operation may fail, and the EA reads at any moment.
* **Check, then act, in two transactions.**  Every request of the dashboard has a
  thread; it reads rows in one transaction and writes what it decided in another.
  The permission of a real publish, the arm of a route, the start of a worker and
  the registration of a target are all decided on rows that may have changed.
* **Two processes that share rows and a lock file**, each of which may die, be
  killed, or be slow enough to be taken for dead.
* **Waits that give up.**  The worker's loop waits for a client thread to start
  and to end, and goes on when the wait times out; the thread goes on as well.
* **Answers of Telegram in any order**, each written over the same row.
* **One connection per process** of the MetaTrader5 library, used by all threads.

The hazards that a property could catch are listed in `PROJECT.json`, each at
its line; more are named in section 7.

### 1.4 What makes each component correct

* Status rules: terminal is terminal; ranks do not fall.
* Registry and correlation: a transaction moves only the entry it belongs to; a
  filled entry was executed; a rejected one has no live order.
* Timeout and reconciliation: nothing stays in flight for ever; an answer of
  partial history is never a rejection; memory and file agree.
* Startup: what was terminal stays terminal; what was in flight is settled or
  kept; a crash on the way is repaired by the next start.
* Submission: a request is sent at most once.
* File: what was reported as saved is there after any crash.
* Commands: what was acknowledged is kept or settled; what was recorded does not
  run again; one item per request; the queue empties; commands of one basket in
  order.  REST: the breaker opens and eventually closes.
* Authorization: one authorization, one send.  Recovery candidates: a step is
  filled once and only by its own request.  Profit close: a level is completed
  exactly once, whatever the restart.  Basket persistence: as for the pending file.  Basket state
  machine: no way out of the final states.  Reconciler: idempotent.  (These are
  planned.)
* Pair publisher: the final files are of one attempt; details are never older than
  the seed read before them; the old pair survives until the new one is there; a
  reported outcome is true.
* Signal route: one real publish per word of the operator; one armed route; details
  are joined with the newest seed only.
* Listener worker: one worker works; its row is true; a stop is obeyed.
* Telethon hook: one client hears the messages; an active route is heard, and heard
  again after a failure.  Login: CONNECTED only over an authorized session; the code
  that is waited for is the code of the phone in memory.
* Target catalog: VERIFIED_OK was found in the target's own folder with its own
  account; enabled targets do not share folder or account; keys follow folders.

## 2 Plan

In order of importance; each module after the first two reuses their idiom (one
action per operation, named assumptions, invariants as conjunctions, no
RECURSIVE operators, so that they can be proved about).

1. **Done** — `ExecutionStatus`, `PendingExecution`, `ExecutionLedger`: life of a
   request, with proofs in `PendingExecutionProofs`.
2. **Done** — `PendingStoreFile`: the file under it, and `DurableStore`, what it
   promises, with proofs in `PendingStoreFileProofs`.
3. **Done** — `CommandPipeline`: REST poll and breaker, command queue, processor
   and idempotency keys, and `CommandDelivery`, what they promise, with proofs in
   `CommandPipelineProofs`.
4. **Done** — `PairPublisher`: the two files between Python and the EA, with proofs
   in `PairPublisherProofs`.
5. **Done** — `SignalRoute`: a message on its way to those files, and the arm it
   needs, with proofs in `SignalRouteProofs`.
6. **Done** — `ListenerWorker`: processes, lock, rows and commands, with proofs in
   `ListenerWorkerProofs`.
7. **Done** — `TelegramLogin`: the login and its overlapping calls.
8. **Done** — `TelethonHook`: the worker's client threads, composed with 7, with
   proofs of both in `TelethonHookProofs`.
9. **Done** — `TargetCatalog`: targets, discovery and probe, with proofs in
   `TargetCatalogProofs`.
10. Submission gates, authorizations and the recovery step tracker.  Abstract
    specification: a step is authorized, reserved, filled, once each.
11. Manual profit close and its completion after a fill or a restart.
12. Basket persistence (save queue, debounce) and event bus.
13. Basket state machine (a graph: reachability and finality, provable).
14. Basket position reconciler (idempotence, checked over bounded inputs).
15. Fast path scheduler and staging buffer.

Composition.  `TelethonHook` extends `TelegramLogin`: the status of the login lets
routes be started, the session it leaves behind decides whether a client connects.
`SignalRoute` takes a publication as one step that puts the pair in place or
raises, which is what `AttemptIsAllOrNothing` of `PairPublisher` delivers, and as
raising *with* the new pair in place, which that property's exception allows.
`ListenerWorker` takes starting and stopping a route as one step that may fail;
what happens inside is `TelethonHook`.  10 and 11 would extend `PendingExecution`
through the fill notifier and the statuses they read (`notified`, `reg`);
`PendingExecution` treats a save as atomic and durable, which is what
`LosslessWhileIntact` of `PendingStoreFile` delivers.

Theorems worth proving next: single use of authorizations, finality of the
basket's closed states, and abstract specifications for the worker (a lock) and the
publisher (an atomic pair) of the kind the EA's three stores have.

## 3 Modules and code

### 3.1 `ExecutionStatus`

The statuses of `TradeExecutionStatus.mqh`, `IsTerminal`, `StatusRank` and
`CanTransition` of `PendingExecutionTransitionRules.mqh`, and the wider gate for
what has been read from the broker (`CanResolveFromBrokerRead`).  Pure
definitions.

### 3.2 `PendingExecution`

| Variable | Code |
|---|---|
| `reg` | `CPendingExecutionRegistry`'s entries, with status, filled volume, order id, deal id and position ticket |
| `disk` | the same entries as the store keeps them (the codec drops the ticket) |
| `processed` | `m_processedKeys` of the router |
| `queue` | `m_queue` of the reconciliation scheduler |
| `notified` | entries `OnBrokerFillConfirmed` was called for in this session |
| `front` | entries registered first by `RestorePreparedEntries`: array order decides which entry a transaction matches |
| `phase` | between handlers, inside `OnTimer`, or not running |
| `age` | deadline and evidence window of an entry, passed or not |
| `sends` | how often an entry was sent |
| `ord`, `done`, `whole`, `inbox` | the broker: order states, executed units, orders executed by a single deal, transactions under way |

| Action | Code |
|---|---|
| `Prepare`, `PrepareFails` | `CExecutionSubmissionPreparer::Prepare`, `FailEntry` |
| `SubmitAccepted`, `SubmitRejected`, `SubmitCrash` | `CSubmitPreparedExecutionUseCase::Execute` |
| `Deliver` | `OnTradeTransaction` → `CApplicationContext::ApplyNormalizedTransaction` → `CTradeTransactionRouter::Route` |
| `ScanDueTimeouts`, `ProcessBatch` | the two halves of `OnTimer` |
| `Stop`, `Startup`, `StartupCrash` | `OnDeinit`, the composition root |
| `Expire` | time |
| `Broker*` | the trade server (external) |

Abstractions, and why they are sound for what is checked:

* Volumes are units; a deal executes one of them or, of an order not yet executed, all.
  Which it was matters to `FalseRejectEvidence`: the startup recovers a false rejection
  only from a single deal of the whole volume.  A close request and the position it
  closes share a number.  All entries trade one symbol: correlation by symbol is
  then as weak as it can get.
* A transaction is an action only when it changes something.  Duplicates,
  unmatched ones and ones the rules refuse leave the state as it is and are
  stuttering.  `HISTORY_ADD`, `ORDER_UPDATE` and `REQUEST` never change an entry.
* Entries are numbered in the order they are first saved, which makes the array
  order of the registry and of the file the order of the numbers, except for
  `front`.  `Prepare(e)` therefore waits for the entries before it.
* The two position-free correlation strategies by fingerprint and magic number
  cannot decide a match in the code as it is wired and are left out.
* `HistoryAnswers` gives every answer that `CorrelateExecutionHistory` can
  compute from the deals of the right order, including partial and unavailable
  history; it never invents one.
* `PrepareFails` is limited to entries that are new, failed before or queued and
  expired: the validators turn the others away before `FailEntry` is reached.
* A second send of a request (after a crash) is counted and not given a second
  order at the broker.
* A crash inside `ScanDueTimeouts` leaves what a shorter scan and `Stop` leave.
* `Mt5AsyncSubmissionGateway` answers accepted or rejected, never unknown.

What the store says of an entry is held against the broker's own books while the
entry is alone (`Alone(e)`): no close is under way and no other request has left.
Entries that are only prepared, orders of others, restarts and all reads and scans of
everything are still allowed.  With company the three invariants are false, because
positions are read and transactions matched by symbol (section 7).

### 3.3 `ExecutionLedger`

What the store promises in a few lines: an entry goes from absent to prepared to
in flight to filled or closed, its request leaves only when it is prepared, and a
closed entry is reopened only if it is a recoverable close.  Each time a request
leaves is counted; one whose sender dies before it takes note (`SendUnrecorded`, only
if `MayLose`) leaves the entry prepared, so it may leave again.  `PendingExecution`
implements it with `StageOf` as the refinement mapping, `Close` for the recoverable
entries and `MayCrash` for `MayLose`; the property is `IsLedger`.

### 3.4 `PendingStoreFile`

`CFilePendingExecutionStore::WriteSnapshotAtomic` is written out: one action per
file operation (write temp, delete and copy the backup, move or copy temp to
active, verify, restore the active file from the backup, refresh the backup),
each of which can fail or be cut short by the death of the EA; then the three
ways `RestoreFromDisk` can go.

* A snapshot is a function from entries to versions; a save writes a newer
  version of one entry.  An entry is kept when its line and its envelope are; a
  file cut within a line is unreadable or has kept the line.
* `FileMove` is atomic; a failed `FileCopy` leaves the destination as it was; a
  copy cut short leaves a prefix, possibly an empty one, that passes
  `TryValidateSnapshotContent`.
* `Faults` names what may go wrong: `"write"`, `"copy"`, `"move"`, `"garble"`
  (a file reads back other than it was written), `"restore"` (unreadable at the
  start).
* `acked` (what was reported as saved) and `intact` (no write of the active file
  itself was cut short or garbled) are history variables.

`DurableStore` is what the files promise: what a start finds (`kept`) lies at any
moment between what was promised and what was recorded.  The mapping takes `mem` for
the view, what a start would restore from the files as they are (`WouldRestore`) for
what is kept, `acked` for what is promised; a damaged disk is one that is not
`intact`.  Every file operation is then a step of the store or none, and the property
is `IsDurable`.  It says more than `LosslessWhileIntact`: nothing is restored that was
never recorded, a start changes nothing, and only the last operation of a save
promises anything.

### 3.5 `CommandPipeline`

| Variable | Code |
|---|---|
| `acked` | the server: commands it was told it may forget |
| `batch` | the rest of `commands[]` in `PollAndEnqueue` |
| `failures`, `open`, `cooled` | `CRestCircuitBreaker`; `cooled`: the last failure is a minute old |
| `authFailed` | `CRestClient::m_authFailed` |
| `queue`, `failed`, `completed` | `CPersistentCommandQueue`: pending and failed items, `m_completedKeys` |
| `keys` | `CInMemoryIdempotencyStore::m_keys` |
| `pendingFile`, `keyFile` | `commands/pending.json`, `idempotency/processed.json` |
| `stage` | where the timer event is, or `"down"` |
| `runs`, `refused` | history: what handlers did |
| `behind` | history: the recovery of this session left `pendingFile` short, and nothing was saved since |
| `intact` | history: no write was torn, no recovery was cut short, and no session ended with commands its recovery had not saved again |

| Action | Code |
|---|---|
| `FetchPending`, `FetchFails`, `SkipPoll` | the poll in `CApplicationTimerPipeline::OnTimer` |
| `IngestDuplicate`, `IngestNew`, `EndIngest` | the loop of `PollAndEnqueue`, `Acknowledge` included |
| `SkipProcessed`, `Refuse`, `Execute`, `ExecuteUnrecorded`, `EndCycle` | `CCommandProcessor::RunCycle` |
| `Stop`, `RecoverOnStartup` (`Resave`), `DiesInRecovery` | `OnDeinit`, `CPersistenceManager::RecoverOnStartup` with the saves of `RecoverFromPersistence` |
| `DiesBeforeAck`, `AbortsOnDeleted`, `DiesInCommand` | deaths between two effects; with `Stop` in mid-event, all of them |

* A poll returns any set of commands, in any order: the server goes by its
  cursor and may repeat itself, and the parser drops what it finds invalid.
* `GetWithRetry` and `PostWithRetry` are one step each; a failed one has counted
  up to so many failures.  After a success nothing depends on when the last
  failure was, so an answer after a retry is the same as an answer at once.
* A POST that failed may have reached the server.
* A cycle takes at most 8 × 16 commands in the code; here it empties the queue.
  The event handlers that are registered enqueue no commands, which makes the
  loop limit unreachable; the staging buffer of the fast path is not modelled.
* The recovery enqueues the loaded commands one by one; each `Enqueue` overwrites the
  file with those enqueued so far, and its result is ignored.  If the first saves
  succeed and a later one fails, the file holds some of the commands while the EA runs
  on with all of them (`Resave`, `behind`); the next save that succeeds repairs it.
* A torn write of the queue's file leaves no file.  A partly copied one makes
  `RecoverOnStartup` fail and the EA not start: here, it stays down.  A key file that
  is there and cannot be read is taken for a missing one
  (`FileIdempotencyPersistence.mqh:60`); that fault is not modelled.
* Whether a handler succeeds is open, except that an activation needs the basket
  that its creation saves (`Needs`).
* `Faults`: `"net"`, `"save"` (file stays as it was), `"torn"` (file gone), `"kill"`,
  `"boot"` (death in the recovery).

`CommandDelivery` is what the server may count on, in requests (commands with one
key; of those without a key only one that is alone is promised anything, `OwnKeys`):
it is told of a request only when that waits on disk or has been served; only
what waits is served; only what was served is given up; and unless the disk is damaged
there are no other steps.  The mapping takes the requests of `Waiting` (the file, and the
queue as long as the file is `behind`) for those that wait, of `acked` for those told,
and those whose handler ran or refused for those served; the property is `IsDelivery`.

### 3.6 `PairPublisher`

| Variable | Code |
|---|---|
| `seed`, `details` | the two final files, as the attempt that wrote them |
| `heldSeed`, `heldDetails` | `seed_hold`, `details_hold` of the running attempt |
| `strays` | hold files whose random names nobody knows any more |
| `pc`, `trouble` | the next file operation; the one the attempt failed at |
| `published` | `_published_fingerprints` |
| `outcome` | how the last attempt ended, as its caller sees it |
| `reader`, `seedRead` | the EA between its reads of the two files |
| `before`, `spoiled`, `faults` | history |

| Action | Code |
|---|---|
| `PublishDryRun`, `Publish` | `AtomicPublisher.publish_pair` up to its file operations |
| `HoldSeed`, `HoldDetails`, `PutDetails`, `PutSeed`, `DropSeed`, `DropDetails`, `Log` | its try clause, one file operation each, in the order of `Following` |
| `TryFails` | any of them raises |
| `UndoParts` … `UndoHolds` (`Rollback`), `UndoFails` | its except clause, one file operation each, any of which may raise as well |
| `Die` | the process ends; the next one knows no hold file and no fingerprint |
| `ReadSeed`, `ReadDetails` | `CFastTrackAuditFileSource::TryRead` (external) |

* A file is the number of its attempt.  What is in the two files beyond that, and
  their encoding, is data.
* Writing a staging file and renaming it is one step: nobody reads the staging file.
* An operation that has no file to touch cannot fail (`Touches`).

### 3.7 `SignalRoute`

| Variable | Code |
|---|---|
| `mode` | `routes.mode`; `OVERDUE` is an arm whose time has passed and that no sweep has seen, `GONE` a deleted row |
| `http` | an arm request between its transactions |
| `dry` | `DRY_RUN` of the worker |
| `rt` | `RouteRuntime` with its matcher: texts seen, pending seed, seeds by group |
| `job` | the message `_process_message` is in the middle of, with its own hold on the runtime |
| `sent`, `escaped`, `raced` | history: real publishes since the operator's last word, one that could not be recorded, a decision on an outdated reading |

| Action | Code |
|---|---|
| `ReadDetail`, `CountArms`, `Arm`, `ArmNothing` | `_arm_candidate_test_route`: three transactions |
| `Disarm`, `DeleteRoute`, `ListRoutes`, `ArmFallsDue` | the other handlers, and time |
| `StartRoute`, `StopRoute`, `Die` | `RouteListenerManager`, the worker's death |
| `ReceiveSeed`, `ReceiveDetails`, `AskPermission`, `MatchNothing`, `PublishPair`, `PublishRaises`, `Record`, `Consume`, `RecordFails` | `_process_message`, one transaction or one publication per step |
| `SeedAges` | the pair timeout |

* A message is a seed or details, with a text, a header (symbol and direction), a
  group and an answered message; parsing is data.  `MCSignalRoute` gives two seeds
  and two details such that one of the details answers one seed and is in the group
  of the other.
* Each route has its own channel, so the order of routes within a channel does not
  matter (section 7 tells what happens when it does).
* A published pair is in place or not (`PairPublisher`); a publication that raises may
  have left the new pair in place.

### 3.8 `ListenerWorker`

| Variable | Code |
|---|---|
| `lock` | the pid in the lock file |
| `row` | the row of `listener_worker_state`: state, pid, active routes |
| `cmds` | `listener_worker_commands` by id |
| `wk` | the processes: where each is, what it listens to, what it has claimed |
| `http` | requests of the dashboard between their steps |
| `raced`, `unsynced` | history |

| Action | Code |
|---|---|
| `StartWorker`, `ForRoute`, `Claim`, `Enqueue`, `EnqueueNothing` | `ListenerWorkerClient.start_worker`, `start_route`, `stop_route` |
| `StopWorker`, `Reset`, `Unlock` | `stop_worker` |
| `Boot`, `TakeLock`, `Register`, `Connect` | `_acquire_lock`, the head of `_run_loop` |
| `Fetch`, `RunCommand`, `Sync`, `CommandFails`, `RunStop`, `Heartbeat` | the loop |
| `Stopping`, `Drain`, `Release`, `Die` | `_shutdown`, `_release_lock`, death at any point |

* A pid is not given to a second process.  Without that nothing about the lock holds;
  the code assumes it as well (`is_process_running`).
* The eight seconds a request waits are kept only for what it does afterwards; the
  heartbeat's age changes what a page shows and nothing else.
* A claim takes 20 commands at most in the code and all that are pending here.
* Whether the hook connects, and whether a command fails half-way, is open.

### 3.9 `TelegramLogin` and `TelethonHook`

| Variable | Code |
|---|---|
| `credentials` | whether `load_telegram_config` finds api id and hash |
| `account` | the row of `telegram_connection`: status and code hash (named by its phone) |
| `phone` | `TelegramService._auth_phone` |
| `calls` | HTTP thread → the call to Telegram it waits for |
| `session` | what the session file is good for at Telegram |
| `requests`, `tangled`, `revoked` | history: calls, overlaps, a session ended from elsewhere |
| `loop`, `active`, `worker` | the worker's loop between its waits, `_active`, the published state |
| `bridge`, `set` | the fields of `TelethonRouteListenerBridge`, the shutdown events that are set |
| `listener` | the client threads, those nobody knows of included |
| `slow`, `faults` | history: waits that timed out, connects that failed |

| Action | Code |
|---|---|
| `Configure`, `Credentials`, `Disconnect`, `Restart` | requests without a call; a new dashboard process |
| `RequestCode`, `VerifyCode`, `VerifyPassword`, `SyncChannels` | requests up to their call |
| `CodeSent`, `CallRefused`, `SignedIn`, `PasswordWanted`, `DialogsListed`, `CallBreaks` | from Telegram's answer on |
| `EnsureFinds`, `EnsureRefuses`, `EnsureStarts`, `Started`, `StartLate` | `ensure_started` and its wait |
| `Joined`, `JoinLate` | `shutdown` and its join |
| `Boot`, `StartRoute`, `StopRoute`, `Monitor`, `Exit` | the loop of the worker |
| `Open`, `Connect`, `Announce`, `Unauthorized`, `Broken`, `Leave` | `_thread_main`, `_async_main` |

* Telegram is external: it accepts a code with the hash it sent for that phone, may
  want a password, may refuse anything.
* A thread whose bridge the manager has dropped writes to an object nobody reads
  (`ours`).
* `_connected` stays TRUE when the network is lost, because no code resets it; Telethon
  reconnects by itself.  What the monitor can repair, and the model has, is a thread
  that failed or whose fields another thread has cleared.

### 3.10 `TargetCatalog`

| Variable | Code |
|---|---|
| `rows` | `mt5_targets`: enabled, program, data folder, key, expected and found account, status |
| `discovered` | the records of `DiscoveryStore` |
| `req` | HTTP thread → its request between two transactions or two calls of the library |
| `conn` | the terminal the MetaTrader5 library is connected to: one per process |
| `holds` | the account each terminal is logged in to |
| `unvetted`, `outdated`, `miskeyed` | history, by row: last written without being held against the others as they then were; verified by what was read before another write; key computed from an older row |
| `overlapped`, `edited`, `seen` | history: two probes at once; rows whose folder or account changed since they were verified; the accounts each terminal has had |
| `inserted`, `requests`, `logins`, `gaps` | counters, for the bounds |

| Action | Code |
|---|---|
| `Register`, `Insert`; `AddTarget`, `Insert`, `Confirm` | `POST /api/mt5-targets`, `create_target_from_discovery` |
| `Patch`, `PatchWrite`, `Rekey` | `PATCH /api/mt5-targets` |
| `CreateUnchecked`, `PatchUnchecked` | `/api/targets` |
| `Disable`, `Delete` | the handlers of that name |
| `VerifyAmbiguous`; `Verify`, the probe, `Save`, `Rekey` | `verify_target` |
| `Scan`, `Refresh` (`Discover`), the probe, `Record` | `discover_terminal_paths`, `refresh_discovery_record` |
| `ProbeOffline`, `Initialize`, `TerminalInfo`, `AccountInfo`, `Shutdown` | `probe_terminal_account`, one library call each |
| `Login` | the user changes the account of a terminal (external) |

* A terminal stands for its program and its data folder, an account for login and
  server.  File names and magic numbers conflict but never block, and are left out.
* The instance key is the folder; the fallback key of a row without one is none here.
* A registration may say that the target is disabled: `find_target_conflicts` then finds
  none, and `create_target` inserts it enabled.  The body of a patch may carry the id of
  another row, which hides the row from the check.  Both writes go through, and the row
  is `unvetted` until a write of it that was checked.
* A patch changes one of `FieldSets` together, and may clear the folder.
* A terminal may name no folder; the probe then reports the configured one as found
  (`Stood`).  It may name no login or no server; then the account is compared with
  nothing.  `MaxGaps` bounds how often.

## 4 Runs

The MC modules name the values the configurations use and the constraints below.
`N` entries, `X` orders of others, `Vol` units each, `Close` the close requests,
`BatchSize` 1.

| Run | Constants | Properties | Shows |
|---|---|---|---|
| `single` | N=1 X=1 Vol=1 | `FilledMeansExecuted`, `RejectedIsOver`, `InFlightIsResolved` | the file tells the truth about the broker, timeouts settle what transactions do not |
| `close_crash` | N=1 X=1 Vol=2, entry 1 is a close, `MayCrash` | `FileAgrees`, `SessionNeverRegresses`, `TerminalIsFinal`, `IsLedger` | memory and file agree, no regress in a session, only a close executed by one deal and recorded as rejected is ever reopened, also when a crash comes between the two saves of its reopening; the store implements the ledger, with sends that go unrecorded |
| `pair` | N=2 X=0 Vol=1 | `SentOnce`, `InFlightWasSent` | one send each; a prepared entry does not move on before the other has left |
| `second_send` | N=1, `MayCrash` | `SentOnce`, violated | section 7 |
| `store` | N=2 MaxVersion=2, all faults of a save | `LosslessWhileIntact`, `DoneMeansTwoCopies`, `IsDurable` | crash safety of the file; the file operations implement the durable store |
| `commands` | `create`, `again` (same key), `activate` (no key), all faults, one attempt per request, `Threshold` 1, `MaxRuns` 1 | `AckedIsKeptWhileIntact`, `QueueIsOnDiskWhileIntact`, `OnePerKey`, `RecordedNeverRunsAgain`, `IsDelivery` | nothing acknowledged is lost, nothing recorded runs again, with failing saves in the recovery as well; the pipeline implements the delivery |
| `queue_empties` | `create`, `activate`, faults `net`, `save`, `kill`, two attempts, `Threshold` 2, `MaxRuns` 2 | `QueueEmpties` | no command blocks the queue |
| `publisher` | 2 pairs, 4 attempts, 2 faults, deaths | `FinalsMatch`, `DetailsNotOlder`, `OldPairSurvives`, `AttemptIsAllOrNothing` | what the final files hold, what a reader can have seen, whether the reported outcome is true |
| `routes` | 2 routes (messages for one), 2 threads, 2 seeds, 2 details | `OnePublishPerCommand`, `OneArmedRoute`, `NewestSeedOnly`, `SpentNeedsDisarm` | one publish per word of the operator, whatever the dashboard does meanwhile |
| `worker` | 2 threads, 2 routes, 2 processes, 2 commands; up to a race | `OneWorker`, `RowIsTrue`, `StopIsObeyed` | one worker, a true row, a stop that is obeyed |
| `session` | 2 threads, 2 phones, 3 calls, 2 routes, 4 client threads, 2 waits that time out, 1 failed connect | `ConnectedIsAuthorized`, `CodeIsForPhone`, `OneListener`, `RoutesAreHeard`, `ListensAgain` | the login beside the hook that depends on it |
| `targets` | 2 threads, 2 terminals, 2 accounts, 2 rows, 4 requests, 1 login or 1 name left out; patches of the enabling, of the account, of enabling and folder together | `VerifiedIsOwn`, `VerifiedWasTrue`, `FoldersDistinct`, `AccountsDistinct`, `KeyFollowsFolder` | what a verified target is worth, and that targets stay apart |

Distinct states: `single` 3,779, `close_crash` 166,283, `pair` 482,904, `store`
15,521, `commands` 1,712,017, `queue_empties` 350,147, `publisher` 245,540, `routes`
1,259,232, `worker` 1,574,347, `session` 796,394, `targets` 569,205.

Bounds, and why they are enough:

* `N`.  One entry is all the life of a request; two are the least with which a
  transaction or a broker read can reach the wrong one, and the least with which
  a file can be cut *between* entries.
* `X`.  One order of others closes a position of ours: the case in which what the
  EA opened is no longer there to be read.
* `Vol`.  One unit has no partial fill, two units have: the close of `close_crash`
  fills in two deals, or in one, which is what the startup can recover from a rejection.
* `MaxFill = Vol + 1`.  A deal counted twice reaches it; all larger volumes are
  treated alike by every comparison in the code (`>= Vol`).
* `MaxSends = 2`.  The first send too many.
* `BatchSize = 1` makes a queue of two entries longer than a batch.
* `MaxVersion = 2`.  A new and an old state of the same entry.  The bound only
  stops further saves; the proofs hold for every value of it.
* Commands.  Two of one request for duplicates, one without a key for the empty
  key; with `MaxRuns` 1 it is `again` that would run a second time for a recorded
  key.  A command that has run `MaxRuns` times can only be refused afterwards.
  A second command without a key is dropped by the queue (section 7).
* `Threshold`, attempts.  1 in the large run, where the breaker only decides
  whether there is a poll; 2 where it matters that failures are counted.
* `publisher`.  A failed operation and one in the rollback it causes; an old pair, a
  pair that fails, the retry and one more.  The same pair twice is the fingerprint.
* `routes`.  A second route is there to be armed beside the first; messages on it
  would only multiply the states, since routes share nothing but the arm.  A thread
  that is overtaken needs another one, not two.
* `worker`.  The second process is the one too many, or the one that follows; the
  second route is the one the row may still name.  Two commands are the least of
  which one is claimed together with a stop.  `InOrder` ends a behaviour at its
  first race: from there on no property says anything.
* `session`.  Four client threads are what two timed-out waits can leave behind
  beside a live one and its successor.  `Apart` looks at overlapping login calls
  while the worker is down only: the hook reads nothing of a login but its status
  and the session.
* `targets`.  Two rows to conflict, four requests to register, change, verify and
  overtake.  A login or a name left out is one event in a behaviour, and a login comes
  where it can matter, between two calls of a probe (`LateLogin`).  `Near` ends a
  behaviour with a row that is exempt (or about to be) where its third request begins;
  the fourth request of the others runs on beside requests that verify, or alone if it
  adds or patches.  The proofs need none of these bounds.

A run switches `MayCrash` on only when crashes are its subject: crashes between
handlers (`Stop`) are in all of them.  `routes` and `targets` use symmetry of values
no definition tells apart, and check no liveness.  Deadlock is checked in all runs but
`targets`: time, the broker, the operator or a restart can always move; there the
bound on the requests is what ends a behaviour.

## 5 Fairness

`FairSpec` adds weak fairness of `ScanDueTimeouts`, `ProcessBatch` and `Expire`.
MetaTrader calls `OnTimer` as long as the EA is attached, and both halves run on
each call; time passes.  Nothing is assumed of the broker, of transactions, of
preparation or of `Stop`/`Startup`: the EA may stay down, and a behaviour with
infinitely many restarts is allowed.  The assumption does not hold in one mode:
with `InpManualProfitCloseCandidateId` set, `OnTimer` returns at `EA:444` before
it reaches the monitor, so `InFlightIsResolved` says nothing about that mode.

`CommandPipeline` has weak fairness of `OnTimer` as a whole and of `CoolDown`
(time passes); within a timer event something always remains to be done, and
nothing is assumed of how requests, saves or handlers end.  `HealthySpec`, used for
`BreakerCloses` only (section 7), adds that `FetchPending` succeeds if it is possible
again and again (strong fairness): without it the server might simply never answer,
and a counterexample would show nothing about the breaker.

`ListenerWorker` has weak fairness of each process's own steps: a process that lives
goes round its loop.  Nothing is assumed of the dashboard, of a process's life, or of
how commands end.

`TelethonHook` has weak fairness of the loop's steps after a wait that ends and of
each client thread's steps, a failing connect (`Broken`) excepted: these are threads
that nothing stops.  `Monitor` has strong fairness: the loop comes to it between any
two commands, and commands disable it only while one of them is carried out.  Nothing
is assumed of the login, of commands, or of waits that time out.

## 6 Proofs

`PendingExecutionProofs` (for all `N`, `X`, `Vol`, `Close`, `BatchSize`):

* `TypeCorrect`: `TypeOK` is inductive, one lemma per action.
* `FileAgreesCorrect`: `TypeOK /\ FileAgrees` is inductive.  Both are needed
  together: what a scan saves is a record only if what it read was one.
* `TerminalIsFinalCorrect`: from the lemma `MoveStep`, which says of every step
  what it can do to one entry of the file (`Onward`): nothing, a legal move, or
  the recovery of a false rejection.  It rests on `FileAgrees`, because the
  guards test the registry while the property is about the file.
* `SentOnceCorrect`, under `~MayCrash`: strengthened by `UnsentIfPrepared` (an
  entry the file holds as absent or queued has never been sent).  With crashes it is false:
  that is the run `second_send`.
* `SessionNeverRegressesCorrect`: two ways lead round the rules that compare ranks,
  the gate for broker reads and forced partial fills.  The strengthening is
  `NeverUnknown`: `UNKNOWN` ranks above the targets of both and would let either
  lower a rank; `MarkUnknownReconciling` keeps it out of every record.
* `LedgerImplemented`: initial states map to initial states, and each step maps to a
  ledger step or stutters, from `MoveStep` and the lemma `OnlySubmissionSends`.
  It needs no assumption on crashes: a submission that dies maps to `SendUnrecorded`,
  which the ledger allows exactly when `MayCrash`.
* `RecordsBackedCorrect`: the invariant under the next three.  `BrokerOK` are the
  broker's books (no order before its send, no deal before its order is in the book,
  no foreign close without a position, no transaction of an order that was never
  there); `RecordsBacked` says of registry and file that a fill has a deal of the
  entry's own order behind it and a status past `QUEUED` a send.  Neither is inductive
  alone: what a scan, a batch, a startup or a transaction writes is backed only
  because what the broker shows is true.  That an entry is alone holds of the past
  once it holds (`AloneBefore`), and whatever an entry that is alone can read or match,
  the order and the position of others included, leads back to its own order
  (`OnlyOwn`, `OpenIsOwn`).
* `InFlightWasSentCorrect`, for all constants, with crashes.
* `FillWasExecutedCorrect`, for all constants: a fill, full or partial, is not
  invented.  `FilledMeansExecutedCorrect` adds `Vol = 1`; with more a deal can be
  counted twice, and `FILLED` is reached early (section 7).
* `RejectedIsOverCorrect`: strengthened by `RejectionsOver`, which adds the registry.
  It assumes `~MayCrash`: after a crash the file says `QUEUED` of a request that has
  left; it is submitted again, and when that is refused the entry is rejected while the
  first order lives.  And it assumes `Vol = 1 \/ X = 0`: a foreign order against the
  part of a position that is there may be cancelled while the rest of the entry's own
  order still works, and its `ORDER_DELETE` is matched to the entry.  TLC finds both
  (section 7).

`PendingStoreFileProofs`:

* `StoreTypeCorrect`.
* `DoneMeansTwoCopiesCorrect`: strengthened by `Progress`, which relates the
  point a save has reached to the contents of the three files.
* `LosslessCorrect`, under `"restore" \notin Faults`: strengthened by `Kept` —
  while intact, the active file holds everything reported as saved; during
  promotion and verification the backup holds it as well.
* `StoreIsDurable`, under the same assumption: every operation maps to a step of
  `DurableStore` or stutters.  Beside `Kept` it needs `Order`: while intact no backup is
  ahead of the active file and nothing on disk is ahead of memory; otherwise a start
  could bring back what was never recorded, or a death could change what is kept.

`CommandPipelineProofs` (for any commands, keys, priorities, limits and faults):

* `PipelineTypeCorrect`.
* `OnePerKeyCorrect`: strengthened by `Unique` — the file has no key twice either,
  which a restart relies on.
* `RecordedNeverRunsAgainCorrect`: strengthened by `KeysLoaded` — while the EA runs
  the store knows the keys of its file.
* `AckedIsKeptCorrect`, `QueueIsOnDiskCorrect`: both speak of what waits on disk or, after
  a recovery whose saves failed, in memory until the next save.  Strengthened by `Told`
  (a known key belongs to a command that ran, a failed item to one refused: otherwise
  a duplicate could be acknowledged for nothing) and `Kept` (what the file still
  holds and memory does not is settled: otherwise the next save would lose it).
  What is acknowledged is claimed of commands with a key, and of one without a key if
  it is the only one (`OwnKeys`): the queue drops the second.
* `PipelineDelivers`, from the same invariant and of the same commands: every step maps
  to a step of `CommandDelivery` or stutters.  `OneRequest` shows that sets of commands
  with one key can stand for requests; `UnservedStay` and `MarkedIsServed` that what a
  save leaves out has been served, in an earlier step or in this one.

`PairPublisherProofs` (for any pairs, attempts and faults, with or without deaths):

* `PublisherTypeOK`, `PublisherFinalsMatch`, `PublisherDetailsNotOlder`,
  `PublisherOldPairSurvives`, `PublisherAllOrNothing` rest on one invariant that says,
  for each operation that comes next, where the two files of the old pair and those of
  the new one are: `Running` and `Bounds` (numbers), `Placed` (on the way forth),
  `UndoingHold`, `UndoingPut`, `UndoingDrop` (on the way back, by the operation that
  failed) and `OldPair` (what the attempt found is itself a pair).  No property is
  inductive without them, because what a rollback restores depends on where the
  attempt stood.

`SignalRouteProofs` (for any routes, threads, messages, groups and headers):

* `RouteTypeOK`.
* `RouteOnePublish`: strengthened by `Commanded` — once a pair is out, an arm that is
  still set belongs to the job that is about to spend it, and no job is past its
  permission.
* `RouteOneArmed` and `RouteSpentNeedsDisarm`: strengthened by `Requested` — what an
  arm request has read is true until it is overtaken.
* `RouteNewestSeed`: strengthened by `Paired` — a runtime, also the one a job has kept
  of a stopped route, knows no seed but its last.

`ListenerWorkerProofs` (for any threads, routes, processes and commands):

* `WorkerAlone` and `WorkerRowIsTrue`: until a race the row names whoever works
  (`Named`) and its routes (`Told`), one process at a time is on its way into the row
  (`Lone`) and none works then (`Quiet`), and a request about to start a process or to
  reset the row has seen that none works (`Decided`).  `Shaped` stands for the types:
  only which fields there are is needed.

`TelethonHookProofs` (for any threads, phones, calls, routes and client threads):

* `HookConnectedIsAuthorized`, `HookCodeIsForPhone`: `LoginInv`, with `OneByOne` — while
  nothing is tangled there is one call at a time, and it carries the phone in memory.
* `HookOneListener`, `HookRoutesAreHeard`: `Calm`, which holds while no wait has timed
  out.  `Known`: the one thread that goes is the bridge's, and the bridge's fields say
  how far it is; `Told`: only a shutdown sets its event; `Heard`: the loop has a client
  or no route wherever it may rest.
* `HookTypeCorrect`: beside the types, `Reasons` tells why the loop is where it is;
  without it the case distinction on an answer of `ensure_started` is not complete.

`TargetCatalogProofs` (for any threads, terminals, accounts, rows, requests and fields):

* `CatalogTypeOK`.
* The other five rest on one invariant.  `Read`: a request has read what it says (`Shape`,
  `Current`), or a row was written since and it is known to be outdated.  `Apart`: an
  enabled row that is not exempt shares its folder with no other such row
  (`SharesFolder`), nor, once verified, its account (`SharesAccount`).  `Answered`: without
  overlap one thread probes, and what it or a discovery was told was true of a terminal.
* Of these `CatalogVerifiedIsOwn` needs `Read`, `CatalogVerifiedWasTrue` needs `Answered`.
  `CatalogFoldersDistinct` and `CatalogAccountsDistinct` are `Apart`, which holds after a
  write that was checked because `Read` says what the check has seen.
  `CatalogKeyFollowsFolder` takes from `Read` that a key is computed from the row as it is.

The assumptions are the named ASSUMEs of the modules, which TLC evaluates in
every run.

Only model-checked: the liveness properties `InFlightIsResolved`, `QueueEmpties`,
`StopIsObeyed` and `ListensAgain` (out of the prover's reach), and the type of the
worker's batch, which `SetToSortSeq` makes with a CHOOSE over a defined order.  Every
safety invariant and action property of a passing run is a theorem.  Type correctness
is proved and no longer part of the runs of `PendingExecution` and `CommandPipeline`.

## 7 Disagreements with the documents

The first is a run with a counterexample, whose lines `PROJECT.json` quotes; the others
can be seen by adding the line of the last column to a configuration.

| Property | The code | The document | Seen with |
|---|---|---|---|
| `SentOnce` | a crash between `OrderSendAsync` and the save leaves `QUEUED`, and the request is sent again | doc 49:119: the duplicate returns the original outcome | run `second_send` |
| `FillIsNotified` | a fill found by the timeout scan is not reported to the fill notifier | doc 59:143, 59:148: the step advances on `FILLED` | `single.cfg`, `PROPERTY FillIsNotified` |
| `ReconcilingIsResolved` | an entry the batch cannot resolve, or the startup leaves `RECONCILING`, is never queued again in the session | doc 59:134–135: processed periodically, resolves to a terminal status | `single.cfg`, `PROPERTY ReconcilingIsResolved` |
| `BreakerCloses` | the breaker closes in `AllowRequest` only, which a poll reaches only while it is closed: once open it stays open until a restart | doc 30:104, 14:111: open for 60 s, then half-open | `queue_empties.cfg`, `SPECIFICATION HealthySpec`, `PROPERTY BreakerCloses` |
| `SerialPerBasket` | `DequeueNext` goes by priority: an activation polled with its creation runs first, is refused, and has been acknowledged | doc 18:188: commands of one basket are FIFO | `queue_empties.cfg`, `PROPERTY SerialPerBasket` |

With `IsAvailable` asking `AllowRequest`, and with `DequeueNext` in order of arrival,
the last two properties hold.

More of the EA can be seen by changing a configuration:

* The position a close request aims at, still open, counts as its fill (`N=1`,
  `X=1`, `Vol=1`, entry 1 a close: `FilledMeansExecuted` without `\ Close`; doc 59:99).
* `ORDER_DELETE` of an executed order ahead of its deal is a rejection (`N=1`, `X=0`,
  `Vol=1`: `RejectedMeansNotExecuted`; doc 59:94).
* When the move fails, the active file is overwritten in place; a cut file passes
  validation and is preferred to complete ones (`Faults <- MoveFaults`: `Lossless`;
  doc 59:143).
* The bootstrapper drops the result of `RestoreFromDisk` and goes on empty
  (`Faults <- RestoreFaults`: `Lossless`; doc 13:214).
* Of two commands without a key the second is acknowledged and dropped (`activate`
  and `create` without keys: `AckedIsKeptWhileIntact` without `\cap OwnKeys`).
* A save that fails while the queue is recovered leaves a short file, which the EA runs on
  with; when it ends before the next save, acknowledged commands are lost
  (`PersistentCommandQueue.mqh:99`; `commands.cfg`, `Faults <- LossFaults`:
  `AckedIsKept`).
* A death while the queue is recovered loses commands, because every `Enqueue`
  overwrites the file with what was enqueued so far (`Faults` the set of
  `"boot"` and `"kill"`: `AckedIsKept`; doc 18:204).
* A neighbour's open position is read as a fill (`N=2`, `X=0`, `Vol=1`:
  `FilledMeansExecuted` without `Alone(e)`).
* The timeout scan forces `PARTIALLY_FILLED` on a request that was only queued
  (`N=2`, `X=0`, `Vol=2`: `InFlightWasSent` without `Alone(e)`; doc 49:114).
* A startup turns `RECONCILING` into `PARTIALLY_FILLED` on disk (`N=1`, `X=0`, `Vol=2`: ranks
  of doc 47:67 fall over a restart).
* A partial fill found by the startup is only in the file, and the registry's
  older record later overwrites it, down to a rejection with no fill (`N=1`,
  `X=1`, `Vol=2`; doc 59:123, 47:70).
* A request sent in a crash and refused when it is sent again is `REJECTED` while its
  first order lives (`N=1`, `X=0`, `Vol=1`, `MayCrash`: `RejectedIsOver`).
* The `ORDER_DELETE` of a foreign order against a position that is still being opened
  rejects the entry that opens it (`N=1`, `X=1`, `Vol=2`: `RejectedIsOver`).
* A deal already counted by a scan is added again when its transaction comes
  (`N=1`, `X=1`, `Vol=2`: `FilledMeansExecuted`).

Met while reading, outside the models: a failed command blocks its key for the
session, so that a repeated request is acknowledged as a duplicate and not retried
(doc 18:80); handlers for `UpdateSL` and `UpdateTP` are not registered, so those
commands always fail; `CCommandSerializer` drops `tp2` to `tp4` of a pending
activation; an `ORDER_DELETE` ahead of its deal ends an entry; partial fills are
forced over a restart; a failing `SaveEntryState` is ignored by its callers;
`TIMED_OUT` is terminal and still blocks the safety gate; a step that is submitted
again loses its fill; `OnTimer` returns early at `EA:444` and then nothing is timed
out; `JsonWriter.WriteAtomic` is not atomic on failure.

### 7.1 The Python programs

The properties hold with the exceptions their comments name, and each exception is a
state TLC reaches and the code allows:

Pair publisher (`spoiled` in `FinalsMatch` and `DetailsNotOlder`):

* The hold file of the old details cannot be deleted when both new files are final:
  the except clause puts the *old* details beside the *new* seed, and leaves them
  there (runbook 9B:98: no mismatched final pair).
* The rollback restores the old seed before it removes the new details, so a reader
  can meet a mixed pair during a rollback; one that reads the old seed, and then the
  details after they were replaced, always can (9B:95 says this is prevented).
* An old seed that cannot be put aside (the EA holds it open) makes the rollback
  delete it together with its details; old details that cannot be put aside are
  deleted too.
* A log that cannot be written makes a complete publication a reported failure.
* `validate_pair_payload` does not compare the headers of seed and details.

Signal route (`escaped` and `raced`):

* A pair that is out when the database raises is not recorded; the arm stays, and a
  second pair follows.
* Two requests that arm at once end with two armed routes, or revive a spent arm; a
  publish that ends late spends an arm set in between.
* The permission is skipped for a route deleted between the message's arrival and the
  question, and the pair is published for real.  Deleting a route does not stop its
  listener.
* A seed or details text is ignored for ever once its hash was seen, also when its
  publication was refused or failed: it cannot be tried again with the same text.
* With several routes on a channel an exception for one drops the message for those
  after it.  `block_candidate_test_route` is never called.

Listener worker (`raced`, `unsynced`):

* The lock file is looked at and written in two steps, and `stop_worker` removes the
  lock while the worker it names shuts down: two workers can run.
* A request that found no worker resets the row under a worker that has come since.
* `WORKER_STOP` drops what was claimed with it as `PROCESSING` for ever; one that its
  worker did not live to read stops the next worker; a start that timed out is
  carried out later.
* `ERROR` at the start stays, and no heartbeat repairs it; `RECONNECTING` stays once no
  route is active.

Login and hook (`tangled`, `slow`):

* `_auth_phone` is shared by all threads and written before the call: a code may be
  verified with another phone.  A refused call and `configure` keep the old hash;
  late answers overwrite newer statuses.
* A failing refresh of the channels sets `ERROR`, and no route can be started though
  the session is good.  `disconnect` neither logs out nor stops the worker.
* A client thread whose start timed out goes on, connects, and hears messages beside
  its successor; nobody can stop it.  Its last step clears the fields of the live
  thread, which the monitor then takes for a lost connection.

Target catalog (`unvetted`, `outdated`, `miskeyed`, `overlapped`, `edited`):

* `POST /api/mt5-targets` with `is_enabled: false` passes the check as a disabled target
  (`mt5_target_service.py:434`, `:147`) and is inserted enabled (`dashboard_store.py:602`):
  one request gives two enabled targets with one folder.
* A `PATCH` whose body carries the id of another row is not checked either
  (`mt5_target_service.py:445`, `:149`).
* Registration checks and inserts in two transactions; `/api/targets` checks nothing;
  rows without an expected account are never compared by account.
* A probe can read the account of another thread's terminal, and store it as found.
* Of a terminal that names no data folder the probe reports the configured one as
  detected (`mt5_account_probe.py:199`), so the row is `VERIFIED_OK`; an empty login or
  server is compared with nothing (`mt5_target_service.py:540`, `:544`).
* `verify_target` and a patch write the key of a row as they had read it.
* A patched folder leaves `VERIFIED_OK` standing until the next verification.

## 8 Not modelled

Section 1.1 lists all components; `PROJECT.json` gives the status of each.

* EA.  Of the modelled parts: the diagnostics and the separate correlation of profit
  closes that are already terminal, validation of prices, volumes and risk before a
  preparation, a store whose save fails inside `PendingExecution` (the file's own
  failures are in `PendingStoreFile`), and of the kernel the event bus, internal
  commands and the debounced save of baskets.  Items 10 to 15 of the plan are whole
  parts left to do.  The strategy and risk arithmetic and the user interface have no
  protocol to check.
* Publisher and routes.  Parsing and formatting of messages, the simulated modes,
  several routes on one channel, command-line use of the bridge.
* Worker and hook.  The inline mode without a process, a heartbeat's age, backoff
  delays, the delay of `call_soon` on a loop that closes, Telethon's own reconnection.
* Login.  The vault's encryption; a phone's validation.
* Targets.  The search of the disk for terminals, a second data folder of a program, the
  fallback key, file names and magic numbers (they conflict and never block), the number
  of a new discovery record, the rate limit of verifications, and the warnings about
  trade mode and symbol, which only ever take `VERIFIED_OK` away.
* Dashboard.  Pages, sessions, rate limit, editing of channels and routes, static
  files: requests of one transaction without state of their own.

## 9 Running the checks

`tlc -workers 2 -config C.cfg M` for

| Module | Configurations |
|---|---|
| `MCPendingExecution` | `single`, `close_crash`, `pair`, `second_send` |
| `MCPendingStoreFile` | `store` |
| `MCCommandPipeline` | `commands`, `queue_empties` |
| `MCPairPublisher` | `publisher` |
| `MCSignalRoute` | `routes` |
| `MCListenerWorker` | `worker` |
| `MCTelethonHook` | `session` |
| `MCTargetCatalog` | `targets` |

and `tlapm M.tla` for `PendingExecutionProofs`, `PendingStoreFileProofs`,
`CommandPipelineProofs`, `PairPublisherProofs`, `SignalRouteProofs`,
`ListenerWorkerProofs`, `TelethonHookProofs` and `TargetCatalogProofs`.

Operators a comment calls a mutant, or that say what a careless version of the code
would do (`SeedFirst`, `RecordOnly`, `VerdictAnywhere` …), are used by no
specification: put in the place of the definition they vary, each makes one
property fail, and so shows that the property depends on that piece of code.
