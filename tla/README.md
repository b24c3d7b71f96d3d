# Verification of the Hermes Crypto Lab

TLA+ models, TLC runs and TLAPS proofs for the crypto research and paper-trading
laboratory in this repository.  File names and line numbers refer to the sources
the project was written from; `PROJECT.json` ("map") names, for every
definition that models code, the lines it stands for.

Contents:

1. The system: components, state, operations, interactions, hard behaviours
2. The modules, and how they correspond to the code
3. The properties
4. The runs: questions, bounds, results
5. Fairness
6. The proofs
7. Where the repository disagrees with itself
8. What is not modelled, and why
9. The plan

## 1. The system

The repository does two things.  A *research* side downloads market data, checks
and publishes it, backtests strategies, and lets a gate decide which candidate may
be used.  A *forward* side runs the strategy that was chosen, once a week, against
a DuckDB database of simulated money ("paper"), under a governance record that
must not change while the experiment is running.  The forward side is the
stateful, unattended, interruptible part: it is run by a scheduler, it takes
minutes per run, it must survive being killed anywhere, and its whole value is
that what it records can be believed afterwards.  The models start there, and go on
to what it depends on: the data pipeline, the market data, the arithmetic of orders,
the launchers, the backups, and the gate and the ledger of the research side.

### Components

| Component | Where | State it keeps | Operations | Correct when |
|---|---|---|---|---|
| Weekly paper cycle | `run_paper.py`, `src/paper_broker.py`, `src/paper_forward.py`, `src/forward_operations.py` | rows of runs, windows, incidents, diagnostics, executions, baseline | admit, fetch, run, execute, finalise, recover, audit missed windows, commit a failure, reset | a week is traded at most once; tables agree; evidence is complete before the next trade; every closed window is accounted for |
| Weekly schedule | `src/schedule.py`, `src/forward_operations.py`, `src/paper_broker.py`, `run_paper.py` | none (arithmetic on instants) | key of an instant, deadline, latest key, list of closed windows | all of them mean the same windows; late is missed |
| Paper store | `src/paper_store.py` | the DuckDB file | one transaction per method | each method atomic, UNIQUE and append-only constraints |
| Kill switch | `src/paper_broker.py`, `src/paper_store.py` | `paper_accounts.status` | activate, refuse, reset after reconciliation | nothing trades while HALTED; latched before the failing run is terminal |
| Writer lock | `src/forward_operations.py` (`InterProcessLock`) | OS lock, owner file | enter, leave | one writer; the owner file names it or one that is on its way out |
| Notification outbox | `src/paper_notifications.py`, `src/paper_store.py` | outbox, attempts, audit events | register, send, resend, recover | never sent twice unattended |
| Order execution | `src/paper_broker.py` (`_execute`, quantity and price filters) | orders, fills, cash, positions | propose, round, fill or reject | cash stays non-negative, quantity on the exchange's grid |
| Ledger reconciliation | `src/paper_store.py` (`reconcile`) | none (reads) | replay both ledgers | accepts exactly the ledgers whose replay gives the balances |
| Public market data | `src/paper_market.py`, `src/binance_public_api.py` | rule cache, HTTP state | fetch with retries | a stale or invalid answer is never used as a fresh one |
| Weekly launcher | `scripts/paper_forward_weekly.py` | attempt counter, rate-limit marker | launch the child up to three times inside 00:05-00:20 UTC Monday, defer after a rate limit | retries only what may be retried, and never outside the window |
| Monthly dispatch and report | `scripts/paper_forward_monthly.py`, `src/forward_monthly.py` | completed marker, JSON + Markdown + completion marker | claim, build, link into place, send | one report per month, never rewritten with other bytes |
| Forward governance | `src/forward_governance.py`, `src/release_provenance.py` | experiment registration, locked files | bootstrap, verify, capture provenance | the active experiment cannot change silently |
| Backup and restore | `src/backup_restore.py` | staging directory, manifest | stage under the writer lock, verify, rename; restore to a temporary directory | a directory that exists is a complete backup of one moment, and says whose |
| Data pipeline | `run_data_pipeline.py`, `src/research_data.py` | generations, canonical pointer | stage, verify, publish, recover an interrupted publication | the canonical data is always one whole generation |
| Experiment manager and ledger | `run_experiments.py`, `src/experiment_manager.py`, `src/experiment_ledger.py`, `src/research_lifecycle.py` | hash-chained JSONL, seal | append, verify, seal; train, declare, validate, lock, test | the chain never forks, the seal agrees with it; one candidate sees the final test |
| Backtest engine | `src/backtest.py`, `src/portfolio.py`, `src/strategy.py` | positions, pending signals | day loop | a signal trades on a later bar than it was computed on |
| Statistics and reports | `src/statistical_diagnostics.py`, `src/metrics.py`, `src/*report.py` | none | compute, format | numeric |
| Scheduler deployment checks | `src/scheduler_deployment.py` | none | compare task exports with a manifest | comparison only |
| Configuration | `config/`, `src/config.py`, `src/config_validation.py` | none | parse, validate | rejects what it should |

### How they interact

```
 scheduler ──> weekly launcher ──(subprocess, exit code)──> run_paper.py
                                                             │  InterProcessLock
                                                             ▼
        recover_committed_forward_evidence ─> record_missed_windows ─> admission
                                                             │
             public market data  <──fetch (minutes)── fetch ─┤
                                                             ▼
        PaperTradingSystem.run ─> _execute (1 transaction) ─> reconcile ─> finish_run
                                │ not valid: activate_kill_switch first
                                ▼
        finalize_forward_run: details, baseline, window, incident, report, outbox row
                                                             │ lock released
                                                             ▼
        notify_paper_run.py ──(lock)──> outbox ──(subprocess)──> external sender

 monthly dispatch ──(lock)──> report files ──> outbox          backup ──(lock)──> snapshot
```

All commands that write the paper database share one lock file, so their sessions
are serial; they communicate through the tables they leave, and nothing else.
What is *not* serial: time (a window opens or closes while a fetch is going
on), the process's own death, the external sender (a child that outlives its
parent), the report files (anyone may edit them), and the removal of the lock's
owner file (after the lock was freed).

### What is hard

* **Crashes between transactions.** One weekly run is about ten transactions.  The
  state after each prefix of them is a state that the next session starts from.
* **Stale reads.** The window is looked up before a fetch of minutes and used after
  it; `run()` derives the schedule key a second time from a later instant.
* **Two writers of one fact.** A run, the recovery of an interrupted run, and the
  missed-window audit can all write the window row of a week.
* **Latch order.** The kill switch and the terminal status of the run that
  tripped it are two transactions.
* **At-most-once without idempotency.** The sender gives no receipt that can be
  asked for later; a timeout says nothing.
* **Liveness under repeated failure.** After any downtime every closed window
  must be accounted for.
* **Two stores without a common transaction.** The pipeline's run rows are in a
  database and its artifacts and pointer are files; a run may stop between the two,
  at any step, and the next one has to tell what happened.
* **Readers without a lock.** The pointer may move between a reader's two looks at it,
  and a checkout may change the governed files under a backup.
* **A judge that must agree with the judged.** The reconciliation replays from stored
  evidence what the broker decided, with an arithmetic of its own; if the two differ on
  one rounding, the account halts a week later.
* **A parent that may outlive or be outlived by its child.** The launchers kill by
  timeout and read exit codes; what the child left in the tables is another matter.

`PROJECT.json` ("hazards") lists these at their lines, with the properties that
would notice.

## 2. The modules

| Module | Models | Extends / instantiates |
|---|---|---|
| `PaperForward` | the weekly cycle of one lock holder at a time, with crashes, recovery, audit, dry runs and kill switch | `WeeklySchedule` (as refined specification) |
| `WeeklySchedule` | what the weekly schedule promises: a week is decided once | |
| `PaperForwardProofs` | proofs about the two | `PaperForward` |
| `NotificationOutbox` | outbox, attempts, sender processes, operator decisions | |
| `NotificationOutboxProofs` | proofs about it | `NotificationOutbox` |
| `WriterLock` | the lock that makes sessions serial, and its owner file | |
| `MonthlyReport` | the wrappers that claim a month, the command's publication of three files, the delivery | |
| `MonthlyReportProofs` | proofs about it | `MonthlyReport` |
| `DataPipeline` | runs of the data pipeline, their crashes, the recovery, the pointer, a reader without a lock | `CanonicalDataset` (as refined specification) |
| `CanonicalDataset` | what readers of the canonical data are promised | |
| `DataPipelineProofs` | proofs about the two | `DataPipeline` |
| `WeeklyLauncher` | the Monday gate, its attempts, and the child as it looks from outside | |
| `WeeklyLauncherProofs` | proofs about it | `WeeklyLauncher` |
| `OrderExecution` | one rebalance after the other: proposals, sells, scaled buys, commit, judgement | `Reconciliation` |
| `Reconciliation` | the replay of a database, as an operator | `ExchangeRules` |
| `ExchangeRules` | prices, price ranges, grids and limits of quantities, as operators | |
| `OrderExecutionProofs` | proofs about the three | `OrderExecution` |
| `MarketData` | one fetch: phases, retries, rate limits, evidence, its validation | |
| `BackupRestore` | backups among writers and checkouts, verification | |
| `BackupRestoreProofs` | proofs about it | `BackupRestore` |
| `ExperimentGate`, `ExperimentLedger` | the order of a research run; the chained file and its seal | |
| `ScheduleArithmetic` | the weekly window in half minutes | |
| `Operations` | the components that share no state with the weekly cycle, side by side | `WriterLock`; instances of `BackupRestore`, `MarketData`, `ExperimentGate`, `ExperimentLedger`, `ScheduleArithmetic` |
| `OperationsProofs` | proofs about all six | `Operations`; an instance of `BackupRestoreProofs` |
| `MCPaperForward`, `MCNotificationOutbox`, `MCMonthlyReport`, `MCDataPipeline`, `MCWeeklyLauncher`, `MCOrderExecution`, `MCOperations` | what TLC instantiates (values and symmetry) | the module of that name |

How they compose: `PaperForward` assumes one session at a time, which is
`WriterLock!OneWriter`.  Its action `RegisterNotification` (and `RecoverNotify`) is
`NotificationOutbox!RegisterPending`; its run becoming terminal is
`NotificationOutbox!RunEnds`.  The outbox also relies on the lock for one sender
or operator command at a time.  `MonthlyReport` relies on the lock for one command at a
time, and its `Register` to `NotDelivered` are the monthly row of `NotificationOutbox` in a
coarser form: attempts and sender processes are not told apart, a delivery that is
recorded as FAILED may have arrived.

The other way round, `PaperForward` leaves out what three modules fill in.  Its `Execute`
is the transaction that `OrderExecution` opens up, and its free variable `consistent` is
the verdict that `Reconciliation!Reconciles` computes there.  Its fetch, which returns
something or fails, is `MarketData`.  Its half weeks are justified by `ScheduleArithmetic`.
`WeeklyLauncher` sees `PaperForward` from outside: its child commits, refuses or misses a
week in the orders in which `PaperForward` does.  `BackupRestore` and the commands of all
others take the same `WriterLock`; `DataPipeline` takes one of its own.

In `Operations`, `parts` says which components are at work; each step is a step of one of
them.  They read none of each other's variables, so the theorems hold for any set of
components at work, and TLC takes one component at a time (`MCOperations`) while the
others rest in an initial state: their product would show nothing more and be too large
to explore.

### PaperForward

*State.* `claim[k]` is the `paper_runs` row that holds the schedule key of week `k`
together with the rows in other tables keyed by that run: execution outcome,
diagnostics, notification.  `window`, `incidents`, `baseline` and `account` are the
tables of those names.  `trades[k]` counts execution transactions and is what
"traded twice" is about.  `consistent` stands for the verdict `reconcile()` would
give if called now; the environment may damage or repair the ledgers between
steps.

*Session.* `pc` says where the process that holds the lock stands; `kind`, `now`,
`key`, `cur`, `fate`, `todo` are its local variables, all lost in `Crash`.  Each
action is one transaction of the store, or a group of reads with no transaction
in between, in the order of the code:

| Actions | Code |
|---|---|
| `OpenSession`, `RecoverDetails` ... `EndRecovery` | lock taken; `recover_committed_forward_evidence`, including the release of the keys of interrupted runs without an execution |
| `RecordMissedWindow`, `AuditEnds`, `DeriveKey` | `record_missed_windows`, the schedule key of `main()` |
| `LeaveUndecided`, `ProvenanceRetryable`, `ProvenanceFails`, `RefuseHalted`, `StartFetch` | the checks before the fetch |
| `FetchFails`, `FetchReturns` | the fetch, which takes time; `now` is captured again |
| `RunRefused`, `DataHalt`, `RunOutsideWindow`, `DryRunEnds`, `RunClaims`, `Execute`, `RunFinish`, `ActivateKillSwitch`, `HaltFinish` | `PaperTradingSystem.run` |
| `FinalizeDetails` ... `RegisterNotification` | `finalize_forward_run` and the registration that follows |
| `FailInsert` ... `FailIncident` | `commit_operational_failure` |
| `ResetKillSwitch` | `--reset-kill-switch`, after a reconciliation |

*Time.* The clock counts half weeks: `2k-1` is inside window `k`, `2k` after it
closed.  Nothing in these components depends on where inside the window an instant
lies: the key, the latest key and the list of closed windows are functions of which
windows contain or precede it (`ScheduleArithmetic` checks this).  The clock may tick between any two steps, so a
session may span a window's opening or closing, or several windows.

*Data.* The signal, the orders and the amounts are abstracted to an execution's
outcome, chosen freely.  `CASH_ONLY` and `NO_ELIGIBLE_ASSET` are reported as
`NO_REBALANCE`.  Rows without a schedule key (dry runs, retryable data failures) are
not kept, since no reader modelled here looks at one.

### NotificationOutbox

`status` and `attempts` are the two tables, `audits` counts the operator's
decisions, `inflight` counts sender processes still alive, and `delivered` counts
what the recipient got; the last two are invisible to the program, which is the
point.  A process that dies at `waiting` leaves its sender behind (`OrphanEnds`),
and the orphan may deliver after an operator has declared the message not
delivered.  The report file can be altered, removed or restored at any time; the
digest check is part of `ClaimAttempt`'s guard.  `Decodable` says whether the
output of a sender always decodes (section 7).

### WriterLock

Each process takes the lock once and then frees it.  The operating-system lock, the
replacement of the owner file, the release, the read of the owner file and its
removal are separate steps, and the process may die between them.  `busy` is
`AlreadyRunningError`.

### MonthlyReport

One month.  A *version* stands for the bytes that a state of the paper database gives
for the JSON file, the Markdown file and the hashes in the completion marker; these
bytes depend on nothing else (`Build` reads everything on one connection, and only
the marker carries the time of publication, which no reader compares).

| Actions | Code |
|---|---|
| `CheckCompleted`, `AcquireClaim`, `ClaimTaken`, `Recheck` | `claim_dispatch`: marker, lock without waiting, marker again |
| `Launch`, `LaunchFails`, `MarkCompleted`, `ReleaseClaim` | `main` of the wrapper and `DispatchClaim` |
| `RunDirectly` | the command started by an operator |
| `LoadCommitted`, `Build`, `PublishJson`, `PublishMarkdown`, `PublishMarker`, `PublicationRefused` | `generate_monthly_forward_report` and `_publish_monthly_report_pair` |
| `Confirm`, `Register`, `AlreadyDelivered`, `ClaimAttempt`, `DeliveryRefused`, `Delivered`, `NotDelivered` | the rest of the command's `main`, `send_committed_monthly`, `_attempt` |
| `WrapperDies`, `CommandDies` | death anywhere, and the wrapper's timeout; a command outlives its wrapper |
| `DataChanges`, `Edit`, `OperatorDecides` | the weekly cycle, the file system, `recover` |

`pc` is the command that holds the writer lock, `parent` the wrapper that waits for it.
`DataChanges` needs the writer lock, so it happens between commands; what the command
itself writes before it loads the report (the recovery, the missed windows) is covered
by a change just before it starts.  `Edit` may happen at any time but one: between the
check of the digest and the sender's own reading of the file, where the program has no
means to notice.  In particular the report may change after `Confirm`, which reads it as
committed, and before `Register`, which takes its digest from a reading of its own.  The
launch window of the wrapper and the fields of a marker that make
it well formed are left out (`Altered` is any content that is not a version).

### DataPipeline

A run is named by the second it starts in.  `rows` is `data_pipeline_runs` with its
publication state, `raw` and `parquet` are the artifact files, `manifest[r]` the manifest
linked into the run's directory, `pointer` the canonical pointer.  A file is the last day
its candles reach: that is what two downloads around midnight differ in.

| Actions | Code |
|---|---|
| `Begin`, `RecoverMatching`, `RecoverComplete`, `RecoverFailed`, `NoRecovery`, `EndRecovery` | `recover_interrupted_publications` |
| `StartRun`, `Validate`, `Download`, `EndDownloads`, `Store` | the run's row, the governed assets, download and checks, storage |
| `LinkManifest`, `MarkArtifactsReady`, `ReplacePointer`, `CheckPointer`, `MarkPublished`, `Complete` | the publication, one step for each write |
| `Raise`, `Handle`, `Crash` | an exception at any step and its handler, which looks at the pointer; death |
| `ReadFirst`, `ReadManifest`, `ReadFile`, `ReadSecond`, `Resolve`, `Leave` | `src/research_data.py`, which takes no lock |
| `NextSecond`, `NextDay`, `Regovern` | the clock, midnight, an edit of `config/assets.yaml` |

`ReadErrors` says whether reading a pointer that is there may fail while the recovery or
the handler looks at it; the code then treats it as one that does not match (section 7).

### WeeklyLauncher

`attempt`, `marker` and `code` are the launcher's locals; `child`, `lock`, `week`,
`trades` are what its child does, seen from outside.  `Launch`, `AfterChild`, `Wake`,
`Expired`, `GiveUp` are the loop in `scripts/paper_forward_weekly.py`; `Kill` is the
timeout.  `Acquire` to `Exit` are `run_paper.py` reduced to the codes it leaves with and
what it decides; 75, which the launcher would retry too, it never leaves with.  A killed
child leaves what it committed.  The clock counts units of which `GateEnd` is one later than `Close`:
the launcher admits minute 20 to its last second, the child's window ends with its first.

### OrderExecution, Reconciliation, ExchangeRules

Money and quantities are integers, and exact.  Cash is counted in `FeeDen`-ths, so that
a fee is whole; spread and slippage are amounts where the code has rates; a quantity that
is not on a grid yet is a fraction, so that both floors of the code (on LOT_SIZE, then on
MARKET_LOT_SIZE) happen as they do there.  `market[a]` is the evidence of an asset: quote,
reference price, range rule and filters.  `work` is the transaction, `db` the database.

| Actions | Code |
|---|---|
| `Begin`, `Refuse` | admission, with the reconciliation that precedes it |
| `Propose` | the proposals, in the order of the configuration |
| `Sell`, `Require`, `Buy` | `_execute`: sells first, the cash that the buys need, all buys scaled by one factor |
| `Commit`, `Verify` | COMMIT, then the reconciliation while the run is RUNNING |
| `Crash`, `Damage` | death before the commit or after it; one of the changes listed there, from outside |

`Reconciles(db)` is written from `PaperStore.reconcile` alone.  It shares the prices and
the comparisons of `ExchangeRules`, and has roundings of its own, as the code does.  The
broker cuts exact fractions (`Floor`); the store divides Decimals of 28 digits and cuts the
rounded quotient (`ReplayedFloor`, with `Digits`).  And the store does not have the quantity of
a FINAL rejection: it has the notional, a float product of quantity and price, and divides it
by the price (`ReplayedNum`).  Each FINAL rejection therefore carries an error `off`, chosen
freely from `Noise` when it is recorded: how far the quotient of the floats is from the
quantity, in `Ulp`-ths of `1 / den`.  A digest is the contents it was taken of: the rows of
market rules and of executionRules (`RuleEvidence`), not the quote, which is checked against
the execution context of an asset, where there is one.

### MarketData

One fetch for the assets in order, phase by phase: exchange metadata, candles, quotes,
reference prices, range rules, the snapshot.  Each request succeeds with a time stamp
from `Lags` or raises (`Fail`): a network failure, a 418 or 429 of the two direct
endpoints, which the code gives the same exception class, or something else.  The exception
is then on its way: `call_with_retry` tries again (`Retry`) or lets it pass (`Raised`), the
handler of the rules turns it into evidence of a failure or raises it again
(`RulesUnavailable`, `Escape`), `main()` chooses the exit (`FetchFails`).  `Tick` may happen
between any two requests, and `Midnight` is in reach.  `Verdict` is the validation of the evidence at the instant of admission.

### BackupRestore

`tree` is the checked-out `forward_experiment/`, which a checkout changes file by file and
`head` last, without the lock; `db` and `reports` change under it.  A backup reads the
authority before it waits (`Request`), takes the lock, reads provenance (`ReadCommit`,
`ReadStatus`, `VerifyHardening`), reads the authority again, copies file by file, writes
the manifest (`Seal`), verifies and renames (`Publish`).  `Abandon` is any exception or
death; its staging directory is never looked at again.  `Damage` is what `verify_backup`
is for.

### ExperimentGate and ExperimentLedger

The gate's five methods may be called in any order; one that raises changes nothing.
The ledger's lines have a shape: `whole`, `unended` (no newline), `torn`, `garbled` (torn,
and written after).  `AppendFails` leaves any of the first three, or nothing, since
`write`, `flush` and `fsync` may each fail; the process then keeps what it remembered,
and is over.  `Open` verifies the file, and a seal or a historical manifest beside it.

### ScheduleArithmetic

`plan` is a `PaperConfig` schedule that its validation accepts, `start` the registration
of the experiment, `key` and `deadline` what `main()` derived before the fetch, `now` the
clock in half minutes.  The five routines are operators over an instant.

### WeeklySchedule

The abstract specification: a week is open until it is traded, refused or declared
missed, and is never decided again.  No sessions, crashes or tables.  `PaperForward`
implements it under a refinement mapping that computes the decision of a week from
its run row and its window row (`PaperForward!ImplementsSchedule`).

## 3. The properties

`PaperForward`

* `ExecutedAtMostOnce` - a week is traded by at most one transaction.  At stake: the
  recovery releases the key of a run that was interrupted, and must not do so
  if the execution transaction was committed.
* `WindowsAgreeWithRuns` - a week recorded as missed was never traded and has no
  run; any other recorded week has a run that is over; a traded week keeps its run.
* `KillSwitchHolds` - nothing trades on a halted account, and a run ends as
  KILL_SWITCH only on an account that is already halted.
* `EvidenceBeforeNextTrade` - at the moment a week trades, every execution
  committed before it has diagnostics, a window row that agrees with them, and a
  registered notification (or an incident saying that it could not be built).
* `BaselineGoverned` - the baseline, chosen once and perhaps by a recovery weeks
  later, is a reconciled official run with provenance and a trading outcome.
* `ImplementsSchedule` - refinement of `WeeklySchedule`.
* `ClosedWindowsAreRecorded`, `ExecutionsAreFinalized` - liveness: a closed window
  gets its row, a committed execution its evidence.

`NotificationOutbox`

* `NoUnattendedDuplicate` - a message is delivered once, plus at most once for each
  operator decision that it was not.
* `RetryableMeansUndelivered` - from a retryable status nothing was delivered and no
  sender is alive, beyond what an operator asserted.
* `OutboxAgreesWithAttempts` - the row carries the status of its latest attempt, and
  every earlier attempt failed: three paths write the two tables.
* `DoubtNeedsOperator` - no restart, retry or other command settles a delivery in
  doubt.

`WriterLock`

* `OneWriter` - one holder, whoever died with the file still there.
* `SidecarNamesOwnerOrLeaver` - from the write of the owner file to the unlock, the file
  names the holder or nobody; and whoever it names is working, on its way out, or dead: never
  a process that has not held the lock or one that is done.  It does not name the holder
  always (section 7).

`MonthlyReport`

* `OneReportDelivered` - the recipient never gets two different reports of a month, even
  if the files are altered, or removed and built again from other data; and as long as
  nobody touches them, the one report is the committed one.  At stake: the outbox keeps the
  digest of what was registered first.  That report may be an altered one (section 7).
* `NoMixedPublication` - after any number of interrupted attempts, with the data changing
  between them, the files that are there are of one version.
* `NeverRewritten` - the program itself never replaces or removes a published file.
* `PublicationCompletes` - liveness: what an interrupted attempt left is completed.

`DataPipeline`

* `PointerIsWhole` - what the pointer shows has its manifest and every raw and Parquet
  file, and all end on one day, though midnight may pass between two downloads.
* `OthersAreSettled` - a run that does its own work has found every run before it
  completed or failed, and the published one completed.
* `ResolvedIsWhole` - a reader is given one whole generation of exactly the assets it
  expected, though the pointer moves between its reads.
* `DataNeverGoesBack` - a later generation reaches at least as far.
* `ImplementsCanonical` - refinement of `CanonicalDataset`: a generation is replaced
  only after its run is on record as completed, and only by a later one.

`WeeklyLauncher`

* `TradedOnce` - two launchers, killed children and orphans trade a week once.
* `SuccessIsDecided` - exit 0 stands for a decided week; for a refused one only after
  the window closed.
* `DeferralEndsAttempts` - nothing is launched after a rate-limit marker, also one in
  the output of a child that was killed.
* `LauncherEnds` - liveness: a launcher that started a child comes to an end.

`OrderExecution`

* `Solvent` - cash and positions are never negative, inside the transaction included.
* `AnsweredOnce` - at the commit each proposal has one order or one final rejection,
  and one decision.
* `AcceptsItsOwnRuns` - the reconciliation accepts every history of the broker, and does
  not halt the account for it, as long as `CellsKept`: the roundings of broker and store
  leave each refused quantity in the same cell of the grid.  Where a quantity lies on a multiple
  of the step they need not, and the property fails (section 7).
* `FindsDamage` - none of the changes in `Damage` passes it: an amount of an account, an
  order, a fill or a ledger, a removed row, a reason, a quantity of a rejection, a decision, a
  rule, a reference, the quote or the spread of an execution context.  Section 8 lists the
  columns that are not among them.

`MarketData`, `BackupRestore`, `ExperimentGate`, `ExperimentLedger`, `ScheduleArithmetic`

* `SilentAfterRateLimit` - after 418 or 429 no request follows, the answer does not become
  evidence, and the fetch ends by a deferral or not at all.  At stake: the answer is an
  exception of the class that the retry loop and the handler of the rules are there for, and
  has to pass both.
* `AdmittedIsCurrent` - what is admitted is complete for every asset, of the day and of
  the age of the *admission*, however long retries took.
* `ArchiveIsACut` - database and reports of a backup existed together.
* `IdentityIsArchived` - a backup names the authority that its own database carries and
  the hardening manifest that it archives, whatever changed while it waited and copied.
* `FinalTestIsEarned` - the final test is opened for one candidate, trained among
  exactly the expected trials and validated.
* `SealAgrees`, `ChainNeverForks` - a complete seal agrees with a file that verifies; no
  two readable records carry one number, whatever failed half-way.
* `OneSchedule` - the routines agree at every edge of a day or window, and the key that
  `main()` admitted is the one that `run()` derives as long as the deadline has not
  passed; afterwards the audit lists it as missed.

Each of them has a mutant in `PROJECT.json`: a plausible bug in one definition under
which TLC finds the property violated.  The mutants are kept next to the
definitions they mutate.

The modules state more than the runs list, mostly weaker facts that are kept because
a proof or a reader wants them: `DeliveredMeansDelivered`, `CompletedMeansDelivered`,
`NoLaunchAfterCompletion`, `StaleOwnerIsGone`, `FailedIsNotCurrent`, `CompletedIsBacked`,
`NoTrainingAfterValidation`, `SealedNeverChanges`, `MemoryContinuesFile`,
`NoValueFromTrading`, `ScaledBuysFit`, `GivesUpForAReason`, `VerificationTells`,
`NeverOverwritten`, and the type invariants that no run lists.  No run has them, and all
of them are proved.

## 4. The runs

| Run | Question | Bounds | Result |
|---|---|---|---|
| `forward_safety` | Is every safety property of the weekly cycle kept, and does it implement `WeeklySchedule`? | 2 weeks, 2 execution outcomes, 1 verdict | holds; 1,151,248 distinct states |
| `forward_liveness` | Are closed windows recorded and executions finalised in spite of crashes? | 1 week, 1 outcome, 1 verdict, `FairSpec` | holds; 14,022 distinct states |
| `outbox_safety` | Is a message sent twice unattended, is a doubt settled unattended? | 1 weekly and 1 monthly notification, 3 attempts, 2 operator decisions each | holds; 1,054,259 distinct states |
| `monthly_safety` | Is one report of a month published and delivered, whatever is interrupted, edited or recomputed? | 2 wrappers, 2 versions, 3 edits, symmetric | holds; 223,203 distinct states |
| `monthly_liveness` | Is an interrupted publication completed? | 1 wrapper, 1 version, no edits, `FairSpec` | holds; 367 distinct states |
| `pipeline_safety` | Is the canonical data one whole generation, replaced in order, wherever runs stop? | 2 assets, a universe that grows, 3 runs, 1 midnight, 1 reader | holds; 1,983,644 distinct states |
| `launcher_retries` | Is the week traded once and does a launcher end, for the right reason? | 2 launchers, 3 attempts, a window of 4 units, timeout 2 | holds; 658,562 distinct states |
| `orders_rules` | Is the account solvent, and do broker and reconciliation agree? | 2 assets, 2 rebalances, 6 kinds of market each, 2 targets; errors of one `Ulp` either way, quotients of 4 digits | holds; 3,153,791 distinct states |
| `operations_safety` | Do lock, backups, market data, gate, ledger and schedule keep what they promise? | 4 processes; 2 backups of one name, 2 writes, 1 checkout; 2 assets, 1 retry, 1 midnight; 4 candidates, 3 trials; 7 ledger writes; 4 schedules, 2 weeks of edges | holds; 1,849,119 distinct states |
| `forward_dry_run`, `outbox_undecodable`, `orders_unranged` | Does the code do what a document or a test name says? | as above | violated; section 7 |

Why the bounds are enough to be of interest:

* *Two weeks* are needed for one week's leftovers to meet the next week's session
  (recovery, baseline by a later recovery, an audit of an older window, a
  session that spans two windows).  The code keeps no state that counts weeks, and
  the audit takes the unrecorded windows one by one, so a third adds only another
  pair.  What the proofs cover holds for any number.
* *Two execution outcomes* are one that trades and one that does not; the others
  follow the same path with another name.  *One verdict*: `Verdicts` chooses among
  names; each is treated alike by every reader.
* *Three attempts* allow a failure, a doubt resolved by an operator, and a success;
  *two decisions* allow an operator to say "unknown" and then something else, or
  to be wrong once and right afterwards.
* *Four processes* allow a holder, a successor, a process that has left and one
  that gave up.
* *Two wrappers* are one that looks at the marker while the other writes it; *two
  versions* are before and after a change of the data; *three edits* remove a whole
  publication so that it is built again, or put together a pair by hand.
  `monthly_liveness` keeps the data fixed: if they change while a publication is
  incomplete, the code refuses to complete it, on purpose.

* *Three runs* of the pipeline are one that is canonical, one that is interrupted on
  top of it and one that recovers; the universe grows once, so that a reader's assets
  may differ from the pointer's.
* *Two launchers* and a timeout of half the window let a killed child, a retry, a
  second launcher and an orphan meet before the window closes.
* *Two rebalances* are needed for positions to sell, prices that moved and a run that
  is replayed by a later reconciliation.  The six markets have a second grid that does
  not divide the first, limits between the two floors, notional limits, ranges that
  only one side meets, no reference price, and one under which a scaled buy lies exactly on
  a multiple of the step.  The cash, 1980, is chosen for that last case, in which the two
  roundings disagree.  In the code both errors are some 1e-16 of a quantity; here they
  are one part of its denominator and one in 10,000 of a step, which is the same to everything
  but a quantity next to a multiple.
* In `operations_safety` the lock has a holder, a successor, a process that has left and
  one that gave up; the ledger's seven writes allow a failed append between the records
  of two processes and a seal; four candidates and three trials allow a trial too many
  and a second declaration.  The schedules reach over a full hour, to the last minute
  of a day and from midnight on, and one has a target after its window, so that the
  configuration refuses it; the instants are every edge of day and window, each with
  the half minute before and after, on the days around the schedule's.

Deadlock is checked in every passing run but three.  In `launcher_retries` the launchers
end and the clock stops at `Horizon`; in `orders_rules` the last week may be over; in
`operations_safety` each process of the lock leaves once, the fetch ends with its
verdict, the clock stops at the last edge.  `PaperForward`, `NotificationOutbox`, `MonthlyReport`
and `DataPipeline` never stop: another session, command or run can always be started or
the environment can always move.

## 5. Fairness

Only `forward_liveness`, `monthly_liveness` and `launcher_retries` assume any.  `PaperForward!FairSpec` is
`Spec` with

* `WF(SessionStep)` - a process that holds the lock makes progress or dies;
* `SF(OpenSession("paper"))` - the scheduler starts the weekly job again and again,
  so it gets the lock now and then although other commands take it as well;
* `SF` of each step of the recovery and of `RecordMissedWindow` within the weekly
  job - a step is not killed *every* time that it is attempted.  Each of them is a
  single short transaction, and each one that succeeds is not undone, so this is
  what it takes for a finite recovery to end.

`Crash` has no fairness: any number of sessions may die at any step.  The clock has
none either, so the properties say "if a window has closed", never "it will close".
The fetch, the execution and the finalisation get weak fairness only: a week
whose every attempt crashes is missed, not traded, and that is what the property
says.

`MonthlyReport!FairSpec` has `WF` of the command's steps together (it goes on or dies),
`SF(RunDirectly)` (the command is started again and again; `docs/operations.md` has it
rerun after an interruption) and `SF` of each step of the publication, as above.
`CommandDies` and the wrappers have none.

`WeeklyLauncher!Spec` has `WF` of `Tick` (time passes, up to the bound) and of each
launcher's own steps (a process that sleeps is woken, one whose child has outlived its
time kills it).  The child has none: it may hang for ever, and the launcher must end
all the same.

## 6. The proofs

TLAPS checks the following for all values of the constants that satisfy the named
assumptions.

| Theorem | Module | States |
|---|---|---|
| `Invariance` | `PaperForwardProofs` | `Spec => []IInv` |
| `TypeCorrect`, `AtMostOneExecution`, `TablesAgree` | `PaperForwardProofs` | `TypeOK`, `ExecutedAtMostOnce`, `WindowsAgreeWithRuns` |
| `KillSwitch` | `PaperForwardProofs` | `KillSwitchHolds` |
| `GovernedBaseline`, `EvidenceFirst` | `PaperForwardProofs` | `BaselineGoverned`, `EvidenceBeforeNextTrade` |
| `Refinement` | `PaperForwardProofs` | `Spec => ImplementsSchedule` |
| `Invariance`, `NoDuplicate`, `SafeRetry`, `TrueDelivery`, `DoubtSettled`, `RowsAgree` | `NotificationOutboxProofs` | the invariant and `NoUnattendedDuplicate`, `RetryableMeansUndelivered`, `DeliveredMeansDelivered`, `DoubtNeedsOperator`, `OutboxAgreesWithAttempts` |
| `Invariance`, `OneReport`, `NotMixed`, `Immutable`, `NoLaunch`, `CompletedDelivered` | `MonthlyReportProofs` | the invariant and the five safety properties of the monthly report |
| `Invariance`, `TypeCorrect`, `Whole`, `NotFailed`, `OthersSettled`, `Backed`, `Resolved`, `NeverBack`, `Refinement` | `DataPipelineProofs` | the invariant, `TypeOK`, `PointerIsWhole`, `FailedIsNotCurrent`, `OthersAreSettled`, `CompletedIsBacked`, `ResolvedIsWhole`, `DataNeverGoesBack`, `ImplementsCanonical` |
| `Invariance`, `TypeCorrect`, `OneTrade`, `Success`, `Deferral`, `EndsForAReason` | `WeeklyLauncherProofs` | the invariant, `TypeOK`, `TradedOnce`, `SuccessIsDecided`, `DeferralEndsAttempts`, `GivesUpForAReason` |
| `Invariance`, `TypeCorrect`, `Cut`, `Identity`, `OneBackup`, `Verification`, `NotOverwritten` | `BackupRestoreProofs` | the invariant, `TypeOK`, `ArchiveIsACut`, `IdentityIsArchived`, one holder of the lock, `VerificationTells`, `NeverOverwritten` |
| `LockInvariance`, `MutualExclusion`, `SidecarSound`, `StaleSound` | `OperationsProofs` | the lock's invariant, `OneWriter`, `SidecarNamesOwnerOrLeaver`, `StaleOwnerIsGone` |
| `MarketInvariance`, `RateLimitSilences`, `Current` | `OperationsProofs` | the invariant of a fetch, `SilentAfterRateLimit`, `AdmittedIsCurrent` |
| `GateInvariance`, `EarnedTest`, `NoLateTraining` | `OperationsProofs` | the gate's invariant, `FinalTestIsEarned`, `NoTrainingAfterValidation` |
| `LedgerInvariance`, `SealSound`, `NoFork`, `SealedForGood` | `OperationsProofs` | the ledger's invariant (`MemoryContinuesFile` is a part of it), `SealAgrees`, `ChainNeverForks`, `SealedNeverChanges` |
| `ScheduleInvariance`, `OneWeek` | `OperationsProofs` | the schedule's invariant, `OneSchedule` |
| `BackupCut`, `BackupIdentity`, `TypesCorrect` | `OperationsProofs` | `ArchiveIsACut`, `IdentityIsArchived`, `TypesOK` of the composition |
| `BasicInvariance`, `TypeCorrect`, `Solvency` | `OrderExecutionProofs` | types and signs, `TypeOK`, `Solvent` |
| `RowsInvariance`, `EveryProposalAnswered` | `OrderExecutionProofs` | the invariant of the rows, `AnsweredOnce` |
| `BooksInvariance`, `OwnRunsAccepted`, `ChangesAreFound` | `OrderExecutionProofs` | the invariant of the books, `AcceptsItsOwnRuns`, `FindsDamage` |
| `NoGain`, `BuysFit` | `OrderExecutionProofs` | `NoValueFromTrading`, `ScaledBuysFit` |

Every safety property of a passing run, invariant or action property, is stated by one of
these theorems; only the four liveness properties are not.

### The weekly cycle

`ExecutedAtMostOnce` is not inductive: from an arbitrary state with `trades[k] = 1`, a
session could stand at `execute` for week `k`.  The invariant

    IInv == TypeOK /\ TimeInv /\ RowInv /\ CurInv /\ WindowInv

says what excludes it:

* `RowInv` - `trades[k]` is 1 exactly if the row of week `k` is committed, a row
  exists only once its window opened, and while a session is active the only row
  that may be RUNNING is that session's own.  The last part is why the recovery
  may treat *every* RUNNING row as a dead process's: a session starts with the
  recovery, and inserts its row after it.
* `CurInv` - `pc` tells the state of the session's own row: at `execute` it is
  RUNNING and not committed; at the finalisation it is terminal.
* `TimeInv` - a session's instant is not in the future, and a window it may claim
  was open then, so it is not recorded as missed.
* `WindowInv` - missed weeks are past and have no run, other recorded weeks have a
  terminal one.

The induction goes action by action.  Actions that only annotate a row (diagnostics,
notification) share the lemmas `RowsAnnotated` and `RowsKept`, insertions and terminal
statuses `RowInserted` and `RowFinished`, so that each case deals with what its
action changes.  `KillSwitchHolds` needs
`HaltInv` besides: a session at `execute` runs on an active account and one at
`haltFinish` on a halted one (`HaltStep`).  It holds because the account changes only
in `RunRefused`, `ActivateKillSwitch` and `ResetKillSwitch`, none of which another
process can take in between.  Only `Execute` trades (`OnlyExecute`) and only
`HaltFinish` writes KILL_SWITCH (`OnlyHaltFinish`).

The last two theorems need fields of the rows that `IInv` does not mention.
`EachRowSteps` lists once what a step can do to one row (nothing, recover, insert, trade,
end, diagnose, register, each with the place of the session it happens at), and the
invariants below are proved from that list, row by row.

* `FreshInv` - a run that is not over has neither diagnostics nor a notification, and a
  session that is about to write diagnostics finds none.  It is why nothing can
  diagnose a run a second time with another outcome.
* `GovernedInv` (for `BaselineGoverned`) - an official run that trades has provenance
  from its insertion on, and the row of the baseline stays eligible: its outcome is set,
  so no step but the registration of its notification touches it.
* `EvidenceInv` (for `EvidenceBeforeNextTrade`) - in three parts.  `ReportInv`: a notification
  is registered or reported missing only when the window row already repeats the
  diagnostics; this carries the argument over a crash, because the recovery selects runs by
  what is missing and not by whether the window row agrees.  `StageInv`: how far the
  session has come with its own run.  `RecoveryInv`: during the recovery, an
  execution that is not in `todo` has its evidence; after it, every execution has.

`Refinement` maps each step to a stutter (`NothingDecided`) or to the decision of one
week (`OneDecided`): `Execute` is `Trade`, the terminal failure of an uncommitted run is
`Refuse`, `RecordMissedWindow` is `Miss`, `Tick` is `PassTime`.

### The outbox

    IInv == TypeOK /\ AccountInv /\ SessionInv /\ DeliveredMeansDelivered

`AccountInv` bounds, for each message, deliveries plus live senders by the number
of "not delivered" decisions plus one, and without the plus one while the status is
one that may be retried.  `SessionInv` ties `pc`, `msg` and `answer` to the row that is
being sent: between the claim and the mark it is SENDING, no sender of this attempt
exists before the launch, and an answer FAILED is given only if this attempt
delivered nothing.  The theorems assume
`Decodable`; section 7 shows that they are false without it.  `RowsAgree` has an invariant of
its own (`AgreeInv`): the row's status is that of the last attempt and all attempts before
it are FAILED.  It is about appending to a sequence and replacing its last element, so
two lemmas (`AppendAgrees`, `SetLastAgrees`) carry it, and every action is one of the two
or leaves the message alone.

### The composition

`OperationsProofs` is about `Operations`, where any set of its components is at work.
`Composed` says it once: a step of the whole is, for each component, a step of that
component or one that leaves its variables alone.  So an invariant of a component is one of
the whole, and each of the following sections proves it for the component.  The backups are
proved about in a module of their own; `SameSpecification` shows that the whole implements
the specification that `BackupRestoreProofs`, as an instance, speaks of.

### The lock

The three properties together are inductive: who is named in the owner file is the one that
works, or is past its unlock, or dead, so the next holder's write is the only step that can
name another process, and it names the writer itself.

### The data pipeline

    IInv == TypeOK /\ RowsInv /\ FilesInv /\ ManifestInv /\ PointerInv
                   /\ RunInv /\ PhaseInv /\ RecoveryInv /\ ReaderInv

`RowsInv` ties a row's status to its publication state and to its manifest; `ManifestInv`
says that a manifest lists Parquet files of one run and one day, `FilesInv` that no candle
is of a day to come.  `PointerInv` is the heart: the pointer is the manifest of a run that
is completed *or that the next recovery looks at*, and no older.  `RunInv` and `PhaseInv`
say what the process that works has done so far, `RecoveryInv` what a recovery has settled:
every run older than the one it looks at.  `ReaderInv` keeps what a reader has seen so far
true, since manifests and artifacts are never removed.  The theorems assume
`NoReadErrors`; section 7 shows what fails without it.  `Refinement` maps `ReplacePointer` to
`Publish`, the completion of the current run (by itself or by a recovery) to `Complete`,
everything else to a stutter.

### The launcher

    IInv == TypeOK /\ LockInv /\ WeekInv /\ CodeInv /\ AttemptInv

`LockInv`: a child past its start is the one that holds the lock.  `WeekInv`: what the
holder has learnt of the week is still true, so the one that is about to execute does so
in an open week.  `CodeInv`: a code 0, given or about to be, stands for a decided week.
`AttemptInv`: who will launch again has attempts left and has seen no marker.
`GivesUpForAReason` needs `ReasonInv` besides: who has started a child has seen the window
open, so that a later look from outside it means that it has closed; who has not started
any has no code to retry.

### The backups

    IInv == TypeOK /\ LocalsInv /\ (\A b \in Backups : BackupInv(b)) /\ ShelfInv

`BackupInv`: a backup past its wait holds the lock (`HolderInv`), so what it has copied of
the locked files is what is still there (`StagedInv`), and what is about to be renamed has
been verified as it is (`SealedInv`).  Identity does not follow from the lock, since
checkouts ignore it: it follows from the verification, which compares the archived
manifest and the archived database with the document.

`Verification` and `NotOverwritten` rest on `PlaceInv`: what is on the shelf is what was
renamed there, `Pristine`, or that with one damage, and one damage always fails the
verification (`HurtFails`: a file no longer is what the manifest lists, or the manifest no
longer is what its digest was taken of).  That a name is free when the *damaged* backup
is looked for, and not the original one, needs the same.  `IntactInv` says that a backup on
its way holds nothing damaged.

### The market data

`MarketInv`: of the quotes and of the price rules a fetch has nothing before their phase,
those of the assets it has been through in it, and those of all assets afterwards (`Had`);
and a request for rules that failed has left evidence that says so.  `InFlight`: a rate limit,
once met, is the exception on its way until the fetch is over, so no step is open but those
that pass it on.  The phases and the position in the list are
the program counter of nested loops with retries, so `AdvanceFacts` says once what going on
to the next request can mean.  `AdmittedIsCurrent` follows from what `End` checks at the
admission, on the clock of the admission, and not from when the answers came.

### The gate and the ledger

`GateInv` is the chain of what was established before: declared finalists are among
exactly the expected trials, validated ones among the declared, the locked one among the
validated, the opened one is the locked one.

`LedgerInv`: a process that may write numbers its next record after every record in the
file that can be read, and remembers the end of a file that verifies; unless it knows the
ledger to be finalized, there is no seal.  The file may end in a record that was cut off or one without an end of
line, on which the next one is put; `PutShape` says what a write makes of the file in each
of these cases.  `SealAgrees` holds because what a process that finalizes remembers *is*
the end of the file.

### The schedule

`KeyInv`: the key that `main()` admitted is the opening of the window of some day `n`, on
the plan's weekday, not before the day of the registration.  `OneSchedule` compares four
routines that compute with `\div` and `%` in four ways; `HalfMinutes`, `WeeksAndDay`,
`SameDay`, `DaysBack` and their neighbours reduce each of them to days and to an offset
within the day, one fact about division at a time.

### Order execution

The prices, grids and rule checks of `ExchangeRules` come first, for any market: a floor on
a grid is on it and not above its argument (`FloorFacts`, `GridFacts`), the store's two
roundings give what the broker's give as long as the quantity keeps its cell
(`ReplayedAre`), a quantity that passed the broker's checks passes those of the replay
(`PassedObeys`), and one that failed a check is explained by the replay with the same
reason (`FailedExplained`).  The sums of
the ledgers are folds over sets.  An induction theorem cannot be cited for them, so what is
needed, that one element more adds its amount, is derived from the definition of the fold
by taking a smallest set for which it fails (`SmallestSet`, `SumsMore`).

* `Basic` - types, signs, and the week of the session, whatever was damaged.  A sale is at
  most what is held and a buy at most what the cash pays for; hence `Solvent`.
* `RowsInv` - of each proposal, by `pc` and `todo`: it is silent (no answer, no decision),
  cleared (decided, not answered) or answered.  At the commit nothing is left in `todo`.
* `BookInv` - until a stored value is changed: cash and positions are the sums of their
  ledgers (`Ledger`), and every week that was run is `Settled`: each row is the one that
  the stored evidence gives, the digests are those of the contents, and answers and
  decisions come in pairs.
* `Calm` and `Found` - the two sides of the reconciliation.  A settled week is replayed
  without objection (`SettledReplays`), so nothing halts the account until there is damage or
  a quantity that left its cell (`CellsKept` is inside the property, since rejections stay:
  it can only be lost); a table with one of the changes of `Damage` is not accepted, by one
  case for each kind of row and field (`DamageFound`).  The first needs `Regular(Markets)`:
  limits that do not contradict each other, and no reference price without a PRICE_RANGE
  rule.  Section 7 shows that it is false without either condition; the markets of
  `orders_rules` are regular (`RegularMarkets` in `MCOrderExecution`).  It also needs that
  steps are coarser than the digits of a quotient and that the tolerance covers the error
  of a float (`PrecisionAssumption`).  The second needs no hypothesis but the one inside the
  property: that every run was judged.
* `WorthInv` - `equity` counts every position at its midpoint, each fill is at a price no
  better than the midpoint and pays a fee (`PricesAdverse`, `FillLoses`): the account never
  gains by trading.
* `FitInv` - while the requirements are summed up, `required` is their sum so far; while the
  buys are made, the cash covers the common share of all buys to come.  `BuyLeaves` is the
  step: what a buy rounds down to costs no more than its share.  So the rejection "not
  enough cash after rounding" is there for the rounding of floats only.

### The monthly report

    IInv == TypeOK /\ DispatchInv /\ FilesInv /\ MailInv

`DispatchInv`: the claim is held by exactly the wrapper that is past it, the command's
parent is exactly the wrapper that waits, a wrapper that has `succeeded` saw a delivered
row, and once the month is completed no wrapper is about to launch or waiting.
`FilesInv`: while nobody edits, a file that is there equals the one published before
it, and the step that comes next finds the draft in those already published.  `MailInv`:
the digest is written once with the row, only what has it is delivered, and from the
claim of the attempt on the file has it.  While nobody edits, what is about to be registered
is committed, and what is registered stays so.  Actions that end the command
share the lemma `ExitKeeps`, those that deliver share `ReceivedRegistered`.

### Assumptions

`WeeksAssumption`, `ExecutionsAssumption`, `VerdictsAssumption` (`PaperForward`);
`KindsAssumption`, `BoundsAssumption`, `DecodableAssumption` (`NotificationOutbox`);
`NoneAssumption` (`WriterLock`); `NobodyAssumption`, `ContentsAssumption`,
`MaxEditsAssumption` (`MonthlyReport`); `PipelineAssumption` (`DataPipeline`);
`TimesAssumption` (`WeeklyLauncher`); `CostsAssumption` (`ExchangeRules`);
`ReplayAssumption` (`Reconciliation`); `MarketsAssumption`, `PrecisionAssumption`,
`AccountAssumption` (`OrderExecution`); and in `Operations`

* `BackupAssumption`, `LedgerAssumption`, `GateAssumption` - the holders of the lock are
  told apart, bounds are numbers, `None` is no candidate;
* `MarketAssumption` - the list of assets is not empty and names none twice, which
  `load_assets` enforces (`src/src/config.py:115`);
* `ScheduleAssumption` - plans are made of numbers, and their windows end on the day on
  which they open.  `PaperConfig` does not enforce that; section 7 says what happens
  otherwise.  The governed schedule, which the launcher repeats as constants, is Monday
  00:05 for fifteen minutes.

TLC evaluates each of them in the runs.  Hypotheses of theorems, instead, are `Decodable`
and `NoReadErrors`, without which the theorems are false (section 7); `Regular(Markets)`, as
above; `Distinct` in `BackupRestoreProofs`, which `Operations` derives from its
assumption (`HoldersDistinct`); and `Visible` for `Verification` and `NotOverwritten`: what
damage leaves equals no content that a backup writes, and a backup is not `None`.

### Only model-checked

* `ClosedWindowsAreRecorded`, `ExecutionsAreFinalized`, `PublicationCompletes`,
  `LauncherEnds`: liveness under fairness (and ENABLED) is out of the installed provers'
  reach.
* The properties that section 7 finds violated, of course, are not theorems; that they fail
  is shown by runs.

No module uses a RECURSIVE operator; sums are folds of the community modules.

## 7. Where the repository disagrees with itself

Found while modelling; `PROJECT.json` ("findings") has the quotations.

With a run of its own:

1. `forward_dry_run`.  A dry run started inside the window on a halted account
   goes through `commit_operational_failure`, which inserts a row *with the schedule key* and a
   window row.  The week is then decided, although a test is named
   `test_scheduled_dry_run_does_not_consume_real_paper_window`.
2. `outbox_undecodable`.  A sender that delivers and prints bytes that do not decode
   makes `subprocess.run(text=True)` raise after the delivery; the notification is recorded
   as FAILED, from which it may be sent again.  So is one whose sender ends with any other
   exit code, which is not looked at before the output is decoded.
3. `orders_unranged`.  A symbol with a reference price and no PRICE_RANGE rule is
   recorded with that price, and the reconciliation expects none there: the next check
   halts the account, although the execution model calls this case a recorded
   non-enforcement.

Stated in the modules; each can be reproduced by giving TLC a configuration with the
property and the constants named:

* `PaperForward!ScheduledExecutionHasProvenance` (constants of `forward_safety`).  `run()`
  computes the key from the instant after the fetch, while provenance is captured only
  if the instant before it lay in the window.  A run launched before the experiment's
  first window whose fetch returns inside it trades the week without provenance.
* `PaperForward!DataFailureHalts` (the same).  Governance says that a data failure
  activates the kill switch; the code ends the run as DATA_HALT and leaves the account
  active, as the execution-model document says.
* `WriterLock!SidecarNamesWriter` (four processes).  `__exit__` frees the lock first and
  then compares and removes the owner file: it may remove the successor's.  And a successor
  that holds the lock and has not written yet is refused to others in the name of the one
  that left, alive and no longer inside.
* `MonthlyReport!OnlyReportsDelivered` (as in `monthly_safety`).  `run_monthly_report.py`
  checks that the report is committed (line 64) and then registers it with a digest of what
  the file holds by then: a file altered in between is registered and delivered.
* `OrderExecution!AcceptsRoundedRuns` (as in `orders_rules`).  A buy, scaled to the cash, that
  is a multiple of the step and is refused there: the store gets the quantity back from
  `float(notional) / price`, may find it one step lower, and there another limit may be
  missed first.  The reason recorded is then "inconsistent" and the next check halts the
  account.  In Python, `(q * price) / price` is below `q` for about one in twenty random
  prices and multiples of 0.001: `1.58 * 52398.398753951595 / 52398.398753951595` is
  1.5799999999999998, which is cut to 1.579.  Both must meet, a refusal after the scaling and
  a second limit within one step of the first, so this is rare.
* `DataPipeline!NoPublicationForgotten` (`ReadErrors = TRUE`, otherwise as `pipeline_safety`).
  If reading the pointer fails in a recovery or in the exception handler, a canonical
  generation is taken for one that was never published and its run is recorded as failed;
  the next run replaces it without completing it.
* `ExperimentGate!NoValidationAfterLock` (as in `operations_safety`).  `set_finalists` does not
  ask whether finalists were declared or a candidate is locked: others may be declared and
  validated after the lock.  The final test stays closed to them.
* `BackupRestore!CommitIsTheArchivedOne` (as in `operations_safety`).  HEAD and the hash of
  the hardening manifest are read one after the other, and a checkout in between makes a
  backup name a commit that its archived manifest does not belong to.
* `OrderExecution!InvalidRulesReconcile` (`Markets <- MCInverted`).  Limits that contradict
  each other reject the order, as a test expects, and the next reconciliation raises
  its own objection to them and halts the account.

Seen on the way, outside what is stated:

* A schedule whose window crosses midnight is accepted by `PaperConfig`, and
  `tests/test_schedule.py` expects its target on the next day; but `_scheduled_key` and
  `_current_schedule_window_closed` ask for the weekday of *now*, so after midnight the
  window has no key.  The governed schedule (Monday 00:05) is not of this kind.
* `_scheduled_mondays` starts at the midnight before the registration: a window that
  closed on the day of the registration, before it, is recorded as missed.

## 8. What is not modelled, and why

In the modelled components:

* `run()`'s own branches for missing provenance and for a duplicate key, and its
  account check's second evaluation: `main()` has decided them within the same session,
  under the lock.  The guard on the account is kept (`Refused`), the UNIQUE
  constraint is `RunClaims`' guard.
* `commit_operational_failure` calling `activate_kill_switch` itself: for the
  outcomes that reach it in a keyed run the account is halted already or is not to be.
* `RECOVERED_COMMITTED_INCOMPLETE_EVIDENCE`: rows from before the evidence tables existed,
  and a run whose key was derived only after the fetch (`main()` then hands it no diagnostics,
  `run_paper.py:743-752`) and which dies before its end.  `AUDIT_ONLY` rows, rows without a key.
* The transaction that stores market-rule evidence: no reader modelled depends on it.
* In the outbox: rows without a digest and a missing target (both refused before any
  state changes), `--resend` of a monthly notification (refused, it has no paper run),
  parsing of arguments.
* In the lock: the in-process `_held` guard, the temporary file's name, differences
  between operating systems.

* In the pipeline: the rows of a candle and their quality checks beyond "passes or does
  not", legacy manifests, the report at the end.  A pointer whose text is damaged counts
  as one that cannot be read.
* In order execution: the signal (targets are chosen freely), floating-point noise other
  than that of a notional divided by its price (`off`): cash, quantities and fees are exact.
  Market evidence that makes the code raise: a sell price that is not positive, inverted
  range bounds (`MarketFit`).  MIN_NOTIONAL and the minimum of NOTIONAL have a limit each,
  but one flag for both says whether they are meant for an average price.
* In the reconciliation: the digest of the strategy configuration, schema checks,
  benchmark and diagnostics rows, and the objection to a filter without limits
  (`paper_store.py:1200-1205`).  Of the stored values, those that it does not compare with
  another one (average cost, balances after each ledger row, the midpoints of market
  observations, flags of the evidence), and those that it does compare and the tables here
  do not have: midpoint, spread, slippage and fee of a fill, the bounds of a decision, time
  stamps.
  `FindsDamage` says nothing of any of them.
* `quantity_tolerance` covers an error of one ulp, as `PrecisionAssumption` has it, for
  quantities up to 8192 only; above, a cut quantity may be taken for more than was asked for.
* In the market data: the parsing of the exchange's filters, the checks on prices and
  volumes (they pass or do not), connection pooling.
* In the backups: links and reparse points, legacy manifests, the copy to a temporary
  directory that `verify_restore_to_temporary` opens and compares.
* In the schedule: windows that cross midnight (section 7), time zones (every instant is
  converted to UTC first).
* In the gate and the ledger: the run that drives them.  `run_experiments.py` refuses to
  start in this repository (the experiment is sealed), so the classes are modelled with
  their calls in any order.

Not modelled at all:

* *Forward governance* (`src/forward_governance.py`): a comparison of file hashes with
  anchors, and one idempotent INSERT.  What it decides is a constant or a free choice in
  the models that depend on it.  It reads `governance.json` again after its hash was taken;
  both reads are of a file under version control.
* *Backtest engine*: one process, nothing stored between two days, and a day that is
  floating-point arithmetic on indicators.  Positions are scaled by ratios of real
  numbers; integers in their place would be a different program.
* *Statistics and reports, scheduler deployment checks, configuration*: functions of
  their input without state or interleavings.

## 9. The plan

What is left, in order of what is lost if it goes wrong.

1. That the incident of a refused or failed run is recorded although the process dies
   between the run row and the incident.  No document promises it yet; the model has
   the states.
2. Governance: the payload that is read again after its hash, together with the
   registration of an experiment and its re-verification by every session.
3. The outbox and the monthly report as one: that the monthly row of `NotificationOutbox`
   implements the delivery of `MonthlyReport`, step by step.
