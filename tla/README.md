# pv-api: a verification project

pv-api stores portfolios, each of which runs a strategy program over market
history (a *backtest*), and serves what the latest run found. This directory
models the server in TLA+, checks it with TLC on small instances and proves its
safety properties with TLAPS for instances of any size.

    tlc -workers 2 -config MCBacktestRuns_safety.cfg MCBacktestRuns
    tlapm BacktestRunsProofs.tla

`PROJECT.json` lists the components, the runs, the source lines behind every
definition, the hazards, the findings and the theorems.

## 1. Inventory

| Component | State | Operations | Hard behaviour |
|---|---|---|---|
| Run lifecycle: `backtest/dispatcher.go`, `run.go`, `sweep.go`, `portfolio/db.go`, `runs.go` | tables `portfolios` and `backtest_runs`, the task channel, the workers, snapshot files | Submit, the steps of `orchestrator.Run`, prune, startup sweep | every transaction may fail or commit unacknowledged; crash between any two steps; full queue; several submitters |
| Orphan collection: `backtest/orphan_sweep.go` | the candidate list | walk, two queries, removals | no lock against the workers |
| Scheduler: `scheduler/scheduler.go`, `ClaimDue` | timer, the current batch | fire, claim, submit, retry, catch up | clock, full queue, manual runs, errors, restart |
| Progress hub: `progress/hub.go`, `portfolio/progress_handler.go` | ring of messages, subscriber channels | publish, subscribe, unsubscribe, complete, clean up | slow readers, subscribing while the run ends |
| Portfolio handlers and upgrades: `portfolio/handler.go`, `upgrade*.go`, `auto_upgrade.go`, `validate.go` | version, describe, parameters, preset, status of a portfolio | create (with rollback), run now, recompute on read, patch, upgrade, delete | check and write are apart; requests, upgraders and runs interleave |
| Strategy registry: `strategy/` | table `strategies`, clone directories, binaries and images | sync tick, install, ephemeral build, statistics | concurrent installs, two keys per repository, change of runner mode |
| Alerts: `alert/` | table `portfolio_alerts`, last_sent_at | notify, due test, send, mark, edit, unsubscribe | send and record are apart; edits write back what they read |
| Snapshot readers: `snapshot/` | none (read-only SQLite) | about twenty queries | replay of transactions, accounting identities |
| Server, API, configuration, migrations | wiring | | order at start and stop |

How they meet: handlers, the scheduler and the upgraders all call
`Dispatcher.Submit`; Submit inserts a row and sends a task on a bounded channel;
workers take tasks, ask the registry for an artifact, write both tables and files,
tell the hub and, for scheduled runs, the alert checker; the sweep at start and the
periodic collection repair what crashes and errors leave. An install starts a
statistics job and the automatic upgrader. The tables are the only thing that
survives a restart besides the files.

What makes it correct, in one line per component: a portfolio has at most one run
in flight and it always ends; what the tables say about a snapshot is true of the
disk; the collection removes only what nobody can need again; every portfolio has
its scheduled run on every trading day and only one; a stream shows all progress
in order, tells the truth about the end, and ends; a portfolio's columns agree and
keep what the user gave; a backtest executes the version it is pinned at; a
recipient gets one mail a day and none after unsubscribing; what the readers derive
from a snapshot is what the backtest did.

## 2. Modules

Operators whose name has an underscore (`ClaimDue_AnyDay`) are mutants: plausible
mistakes in the code that each property is shown to catch.

### BacktestRuns (with MCBacktestRuns, BacktestRunsProofs)

One action is one SQL transaction, one channel operation or one group of file
calls. The *clients* are request handlers, upgraders and the scheduler; `client[c].pc`
is a place in a handler, `worker[w].pc` one in `orchestrator.Run`.

| Variable | Code |
|---|---|
| `status`, `retention`, `active` | `portfolios.status`, `run_retention`, `snapshot_path` (as the run that wrote the file) |
| `run`, `owner`, `hasPath`, `last` | `backtest_runs.status`, `portfolio_id`, rows with a `snapshot_path`, the newest id |
| `dirs`, `tmp`, `snap` | `<dir>/<portfolio>/`, `<run>.sqlite.tmp`, `<run>.sqlite` |
| `server`, `tasks`, `worker`, `client` | the process, `Dispatcher.tasks`, the goroutines |

`DBOutcomes` says what may happen to a transaction: `ok`, `error` (no effect) or
`lost_ack` (committed, the caller sees an error). Errors the code drops or only
logs are followed as the code follows them. Run ids are numbers in the order of
insertion, as UUIDv7 are. `Crash` also stands for a graceful shutdown, whose
cancelled contexts look like `error` outcomes before it. `os.RemoveAll` is atomic
or stops at an error with any part of the files gone. The cap on automatic
recomputation after failures is left to Portfolios: `MayRecompute` allows more runs
than the code does.

### RunService and RunRefinement (proved in BacktestRunsProofs)

RunService is what the service promises, without queue, workers, files or
transactions: a run is accepted for a live portfolio with nothing in flight, ends
once, a success becomes what the portfolio shows, ended runs are forgotten only
while a newer one is left. Two steps are there because the code needs them:
`Interrupt` (a restart fails what is in flight) and `Retract` (after a lost
acknowledgement of MarkReadyTx the server records a failure over a success).
RunRefinement maps BacktestRuns to it by looking only at the two tables;
`runs_safety` checks the abstract specification as a property and BacktestRunsProofs
proves it.

### OrphanGC (with MCOrphanGC, OrphanGCProofs)

Extends BacktestRuns with the sweep's own state `gc`. Its directory walk reads one
directory per step, each query is a step of its own, candidates are removed one at
a time in any order (the code's order is the walk's). Everything in BacktestRuns
interleaves.

### Scheduler (with MCScheduler, SchedulerProofs)

Instants are half days, split at 8 PM; the market calendar is the set
`TradingDays`, `NextFire` stands for the library's `TradeCron.Next`. Submit is one step
here and a run two (`StartRun`, `EndRun`), since BacktestRuns takes them apart; the rows
keep trigger, day of `started_at` and status, which is what `ClaimDue` reads. `FailRun`
is the worker's exit before `started_at` is set (run.go:94-106): the row ends without a
start and its portfolio is due again. The UPDATEs that record an end, or a rejection by
the full queue, may fail and leave the row in flight; these errors and crashes together
are bounded by `MaxFaults`. The order of
`last_run_at` is left open. Rows rejected by the full queue are collapsed beyond
`Retention` of them in a row. `HardErrors` lets the claim fail, and Submit for other
reasons than a full queue. The clock waits for nobody. `left` records whom a pass, or a
run that failed before its start, left out and `served` who started a scheduled run on
which day.

### ProgressHub (with MCProgressHub, ProgressHubProofs)

One run and its broadcaster, with the ring's head, count and modular indices as in
the code, and streams that read the row, subscribe, receive and return. `MarkReady` and
`MarkFailed` are two transactions with every other step in between: where `RowFails`, the
first may commit unacknowledged, which sends the worker to the second, and the second may
fail. A stream answered from the row is "told"; `cut` marks
a stream that publish dropped or whose client left.

### StrategyRegistry (with MCStrategyRegistry, StrategyRegistryProofs)

`rows` is table `strategies` by short code; a success writes the row of the short
code the binary reports, a failure the row of the repository name, and both may
exist. `dirs` are the clone directories, `built` the binaries and images. One action
is one exec of git, go or Docker, or one SQL statement; each may fail, as often as
`MaxFaults`, and a statement may commit unacknowledged. `job` is a backtest from
the resolver to its deferred cleanup, or a describe request; `stats` are the jobs of
statistics, started by an install or by the daily refresh. `HostInstall`,
`DockerInstall` and `Record` group an install's steps by what bounds them in time. `Restart` may change
`runner.mode`. `GetByCloneURL` and `LookupArtifact` have LIMIT 1 without an order:
any row may come.

### Alerts (with MCAlerts, AlertsProofs)

`NotifyRunComplete` statement by statement (list, load, per alert: one send per
recipient, mark) for several workers, against create, update (read and write apart),
delete, cascade and the unsubscribe link (update and purge apart). Times are New York
days. `recipients` is a `text[]` from which nobody removes repetitions: the model keeps
how often each address occurs, and sends that many mails. `mails`, `out` and `excused` are
history: the runs whose notification mailed an address, by the day of sending; who
unsubscribed; and the days on which a mark was lost, two notifications overlapped or one
was still mailing after midnight.

### Portfolios (with MCPortfolios, PortfoliosProofs)

One portfolio row, its run rows and the registry row of its strategy. A request is a
sequence of its reads and writes: `LoadUpgradePortfolio`, `LoadUpgradeStrategy`,
`ApplyUpgrade`, `Submit`, `Send` for an upgrade; `ReadSnapshot`, `RespondRecalculating`,
`Submit`, `Send` for a read; the automatic upgrader has its own. Parameters are functions,
and difference, compatibility, merge and preset match are operators over the
describes of the versions.

`Submit` is the INSERT and `Send` or `Refuse` what follows, the task or the UpdateRunFailed
of a full queue; other requests come in between and meet the row, which is *loose*: in
flight, with no task and no worker. Any statement may fail: `SubmitFails` (with or without
the INSERT done), `GiveUp` (a handler or upgrader returns with an error, also of an INSERT
or UPDATE that has committed), `RollbackFails`, `Refuse` without its record, `FailRun`
(GetByID or MarkRunningTx; the row ends without `started_at`) and `Abandon` (MarkFailedTx
fails as well, and the row stays in flight). `Restart` loses requests, upgraders, tasks and
workers and runs the startup sweep, which leaves a pending portfolio pending. The worker is
otherwise BacktestRuns' reduced to what it reads and writes of the row: MarkReadyTx or
MarkFailedTx and the prune after it are one step here, and an unacknowledged MarkReadyTx and
a prune that comes late or fails stay with BacktestRuns. `dropped` and `streak` are
history: whether something was lost since a run was last queued, and how many runs that had
started failed in a row.

### Snapshot (with MCSnapshot, SnapshotProofs)

The writer (pvbt, external) deposits and withdraws, trades, splits, pays dividends,
fees and interest, and closes days, with amounts from the sets `Deposits`, `Lots`,
`Prices`, `Ratios` and `Payments`; the readers are operators on the tables it leaves,
their loops over rows and days written with `Loop`, a function of the number of steps.
Numbers are integers, the average cost a fraction. The replay follows `applyTxToLedger`, the
history `holdingsHistoryBatch`, the contributions `computePeriod` and `applyTxFlow`,
the drawdowns one pass over the series.

## 3. Runs

Bounds are in the `.cfg` files. They are the smallest in which the cases named
happen.

| Run | Result | Shows |
|---|---|---|
| `runs_safety` | holds | one portfolio, two clients, two workers, three runs, transactions that fail or commit unacknowledged, crashes: the safety properties, and the refinement of RunService |
| `run_ends` | holds | under fairness every queued or running row ends |
| `orphan_gc` | holds | two portfolios on a channel of one task (rejections, creation rollbacks): the sweep is safe under every interleaving |
| `orphans_collected` | holds | under fairness, while retention changes between 1 and 2, a file without a row is removed |
| `scheduler` | holds | two portfolios, a queue of one, two trading days, failing claims and submissions, a manual run, and one of: a run that fails before its start, a record that fails, a restart at any moment: who gets a run, who does not and why, and that passes end |
| `streams` | holds | two streams, ring of 2, channels of 3, five messages, transactions at the end that fail or commit unacknowledged: the ring wraps, readers are dropped, and the streams of an orderly run end |
| `registry` | holds | one repository whose name is, or is not, its short code, two releases, one error, one restart or change of mode, one backtest or describe at a time; what must eventually happen does if no call without a timeout hangs |
| `alerts` | holds | one alert, two recipients or one listed twice, two notifications at once, on two days or across midnight, one edit, one error or restart |
| `portfolios` | holds | three requests, two at a time, and an upgrader over four versions (a patch that adds a parameter, a minor release that retypes one), three runs, retention 2 or 3, a full queue at any Submit, and one fault: a failing or unacknowledged statement, a failed install, a restart or a lost snapshot (2.0 million states); versions of portfolios only advance |
| `snapshot` | holds | every snapshot of up to four days and four transactions of one ticker at prices 19 to 21, where a fall of one is a drawdown of at least five percent and of less, by turns |
| `active_snapshot` | **violated** | a run queued between MarkReadyTx and PruneRuns makes prune delete the active snapshot at retention 1 |
| `mode_switch` | **violated** | after a change to docker the installed version is never rebuilt as an image: its directory exists and git clone refuses it |

The violated runs are findings; `PROJECT.json` quotes the text each contradicts.

Three rows are enough for a run that is pruned, one that is active and one that is
in flight; two workers and two clients for every pairwise race; a queue of one task
for a full queue next to an accepted task; two requests and an upgrader for an upgrade
to be overtaken by another; five messages for a ring of two to wrap more than twice; two
releases and one error for a failure between two installs; two failed runs and a third
for the cap on recomputation, with one that failed before its start among them; one fault for
each thing that can leave a portfolio pending, a row loose or a mark lost, while two scheduled
runs and two days suffice for a second mail. More faults (two with two requests, three with one
client) were tried in Portfolios with the inductive invariant and show nothing new; four transactions for buy, sale, re-entry and a split. Symmetry is used only for safety. Deadlock is not checked
where bounds on the clock, the run or the number of requests bring a model to an end.

### Fairness

* BacktestRuns: weak fairness of every worker and of every client inside a request
  (goroutines run, SQL calls return, the runner has a timeout), of `Boot` (a
  supervisor restarts the server), strong fairness of `StartupSweep`, which a crash
  loop disables again and again. `run_ends` assumes `DBOutcomes = {"ok"}`: a failed
  or unacknowledged UPDATE does leave a row in flight until the next start.
* OrphanGC: in addition the ticker and the sweep go on, removals succeed, and the
  server eventually stays up (a hypothesis of the property). The interval is taken
  to be positive.
* Scheduler: the scheduler, the workers, restart and the clock go on. `PassEnds` is about
  finitely many runs that fail before their start (`MaxFaults`), since `ClaimDue` returns
  such a portfolio again at once.
* ProgressHub: the run goes on and streams that can read do. `StreamEnds` is about an
  orderly run: accepted by the queue, its row written, and no handler that needs more
  than the ten-second drain window between reading the row and subscribing.
* StrategyRegistry: `FairSpec` has only what the code guarantees by itself: days pass,
  goroutines that wait for nothing but each other and the database go on, and InstallDocker
  ends within `build_timeout`. There is no timeout on the discovery search of a tick, on the
  `git ls-remote` of `ResolveVerWithGit` (sync.go:323), on git, go build and describe of a host
  install (install.go:69-96) and on the statistics run of `hostStatRunner`
  (api/server.go:172-178); a hung one stops the sync loop, or the refresher, until a restart.
  That these return is `CallsReturn`, an explicit hypothesis of `VersionDecided`,
  `StatsConverge` and `RebuiltAfterSwitch`. Releases, requests, errors and restarts need not
  happen.

Everywhere a SQL statement is supposed to return, with or without success.

### What the properties leave room for

The following is what the code does; the properties are stated around it, and the
hazards in `PROJECT.json` say where.

* Runs. `orchestrator.fail` drops an error of MarkFailedTx; the run then stays in
  flight until a restart, though run.go:90 says that any failure marks both rows.
  Cutting the message at byte 2048 can cause it by itself, if it splits a character.
* Scheduler. A pass that waits for the queue past midnight claims by the new day, on a
  closed day too (scheduler.go:33-35 says it never happens then). A manual run in
  flight at the last claim costs the portfolio its scheduled run (db.go:522-524 says
  it must not). The other reasons `DailyRunServed` names are a failed claim or a batch of
  failed submissions, the next fire, and a run that failed before its start after the last
  claim of the pass. As many manual runs as run_retention prune the scheduled row, and
  the portfolio is claimed again the same day.
* Streams. A row rejected by the full queue ends without `hub.Complete`, so a stream
  opened on it stays open (progress_handler.go:45-46 says it closes). `complete` drops
  the terminal event of a full channel. A stream opened between a MarkReadyTx that commits
  unacknowledged and the MarkFailedTx that follows is told of a success that is then withdrawn.
* Portfolios. ApplyUpgrade sets `pending` without looking at the status, and the scheduler
  never claims a pending portfolio; it stays pending with nobody at work on it when its
  Submit is refused by the full queue, fails, or meets the row of another Submit that is then
  refused; when the UPDATE or the INSERT of the portfolio commits unacknowledged, or its
  rollback fails; when MarkFailedTx fails after GetByID or MarkRunningTx; and after a restart,
  whose sweep fails the queued row and resets running portfolios only. `PendingServed` names
  these. Two
  upgrades computed from the same row lose one's parameters, and the one written last
  decides the version, be it the older. The automatic upgrader
  tests the version it was called with and applies the one it reads. The cap of
  `respondRecalculating` counts rows, so with run_retention 1 it never bites; a run that
  failed before `started_at` was set is listed behind the last success and not counted, so
  `NoThirdRun` is about runs that had started. `submitFreshRun` swallows an error and answers 202
  with a nil run id.
* Registry. A version that failed is not tried again before the next tag; MarkFailure
  on the row of a working version hides it from LookupArtifact, though its comment
  says it stays live; LookupArtifact does not look at artifact_kind; an image that
  could not be described, and a container that could not be started, stay behind;
  statistics are not computed for images. `ResolveVerWithGit` returns an error where
  its comment promises a fallback to HEAD.
* Alerts. MarkSent is written even if every send failed; a run that ends after
  midnight is judged by the new day; an update writes back recipients that have
  unsubscribed since it read them; overlapping notifications mail twice, and so does one
  that is still mailing after midnight before one of the new day; an address listed twice is
  mailed twice.
* Snapshot. A split's ratio becomes the last price of the ledger until the next trade;
  deposits, withdrawals, dividends after the sale of a ticker, fees without a ticker and
  round trips within a day make the residual check fail and the response an error; two
  batches of one day both show its close; the days of an open drawdown count one more.

## 4. Proofs

Eight proof modules are checked by tlapm without any unproved step. Every safety
property of a passing run, invariant or action property, is a theorem; `PROJECT.json`
pairs theorems and properties. In each module the property is not inductive; the
specification defines the inductive invariant `IInv` (`GCInv` in OrphanGC) as a
conjunction of named parts, TLC has checked it on the instance of the module's run, and
the proof has one lemma per action.

The theorems hold for every value of the constants under the assumption that the
module states by name:

| Assumption | Beyond types and positive sizes |
|---|---|
| `RunsAssumption` | `run_retention >= 1` (the table's CHECK); outcomes are among the three |
| `GCAssumption` | none |
| `SchedulerAssumption` | none: one retention for all portfolios |
| `HubAssumption` | the ring fits into a subscriber's channel (hub.go:59-60: 20 and 32) |
| `AlertsAssumption` | week ends, month ends and fires are trading days |
| `RegistryAssumption` | two repositories share no name or short code |
| `PortfoliosAssumption` | handlers and upgraders are different goroutines; a default belongs to a declared parameter and is a value of it; `run_retention >= 1` |
| `SnapshotAssumption` | finitely many tickers, none of them the cash sleeve; prices, quantities, ratios and amounts are positive |

**BacktestRunsProofs** proves `Spec => []IInv` (`Invariance`) and from it `TypeOK`,
`OneInflight`, `RunningIsBacked`, `ExclusiveExecution`, `ReadyOrSuperseded`,
`SnapshotOnDisk` and the action properties `PruneKeepsInflight` and `EndedStaysEnded`.
`OneInflight` holds because of the unique index, but that `MarkRunningTx` and
`MarkReadyTx`, which do not look at the old status, never bring a row back needs to know
that nobody else has written the row meanwhile. The invariant says so by *holding*: a
run id is held by a client between the INSERT and the send, then by the channel, then by
one worker (`HeldOnce`), and while it is held its row has the status the holder believes
and is the newest of its portfolio, unless the portfolio was deleted (`HeldStatus`).
From "the newest" follows that prune, which keeps the newest rows without looking at
their status, cannot touch it (`NewestKept`, `InflightNewest`). `QuietUnlessUp` says that
the sweep runs while nothing is held, and `RemovalsAreSafe` that files are removed only
for rows that are gone, which are never inserted again. The proof splits a step into
what it does to the tables (`Frame`, `RowStep`: which rows changed and how), to the
holders (`WorkerMoves`, `ClientMoves`, ...) and to the files; one lemma per action
combines the three.

Its last section proves `Refinement`, `Spec => RunServiceKept`: the initial
state maps to the initial state, and from `IInv` every action to one step of RunService
or to a stutter. The invariant is needed where the code does not look: MarkReadyTx is a
`Succeed` only because the row it writes is in flight, and prune a `Forget` only because
the rows it drops have ended and a newer one stays.

**OrphanGCProofs** reuses the lemmas of the first: `GCInvariance` proves that `IInv`,
what the sweep knows of its candidates and `WorkInProgressKept` hold together. From it
follow `CandidatesAreOrphans`, `WorkInProgressKept` and `SweepIsSafe`: `SnapshotOnDisk`
with the sweep at work. The added fact is `FilesHaveHistory`: a file or directory that
exists belongs to something that was inserted, so what has no row when the query runs,
after the walk, has lost it for good.

**SchedulerProofs** proves `TypeOK`, `DailyRunServed` and the action property
`OncePerDay`. A task of the channel is the queued row of one portfolio (`QueueInv`), and
only the newest row is in flight (`RowsInv`); what a worker runs is marked as running
(`WorkInv`), also while records fail. `ClaimDue` avoids a second run by looking
for today's row, which PruneRuns may delete: `Remembered` bounds the number of rows
behind it by the number of manual runs, so with fewer of those than `Retention` the row
is still there when the claim looks (`OnceInv`), and what is claimed or queued has not
run today. `SleepInv` says that a scheduler that sleeps has missed no fire and that its
pass of the evening is done; that `NextFire` is the first fire to come is a lemma by
well-foundedness of the instants.

**ProgressHubProofs** proves `TypeOK`, `NoGaps`, `ClosedExactlyOnce` and
`SuccessIsRecorded`. `RingInv` says which message each slot of the ring holds, by the
modular indices of the code, and that the newest is the last one sent; `StreamOK`
that a subscribed stream, with what is still in its channel, has every message since the
first of its replay; `HubInv` that nobody is subscribed in the drain window. Where the
ring replays into a new channel the proof needs that it fits. `SuccessInv` says what
justifies a reported success: the worker's result is a success, or the stream was told from
the row, which still has it or whose run has since ended as failed.

**StrategyRegistryProofs** proves `TypeOK`, `InstalledIsBuilt`, `ResolvedIsPinned` and
the action property `InstalledAdvances`.
`InstallOK` says what an install has on disk before each of its steps and that the row
MarkSuccess updates is its repository's; `RowInv` that a row never changes repository,
for which two repositories must not share a key; `ModeInv` and `JobInv` give the kind
and the version of what a backtest looks up. `OrderInv`, for `InstalledAdvances`, says
that no row is ahead of the install queued or in progress for its repository, and that
an install is in progress only after the listings of its tick, so that nothing older is
queued behind it.

**AlertsProofs** proves `TypeOK`, `MailedOncePerDay` and `UnsubscribedStaysOut`. What
was mailed today is about to be marked by the one notification that mails it, or is
marked in the row *and in every copy of it that some worker has loaded and will test*
(`MarkedInv`); two workers that both mail it are excused (`AloneInv`), and what is still
to be mailed has not been (`AheadInv`). All are stated for lists with repetitions, by the run
that mails, and by the day of sending. `EditInv` says what an update between its read
and its write may put back.

**PortfoliosProofs** proves `TypeOK`, `RowCoherent`, `UserParamsKept`, `SnapshotOfRow`,
`PendingServed`, `NoThirdRun` and the action property `VersionAdvances`. `CallInv`
records what a handler or an upgrader carries from the rows it has read: its parameters
fit the describe it will write with them, and a compatible upgrade keeps what the user gave, by the lemma `MergeCompatible` about
`mergeKeptAndDefaults`. `RunsInv` says that the rows are a contiguous suffix of the runs
submitted and that only the newest is in flight. `PendingServed` needs to know who has the
row that refuses a Submit: `LooseInv` says that a row without task or worker is about to be
sent, or goes with its portfolio, or its loss is on record; `SendInv` that only one Submit is
between its two halves. `StreakInv` relates the runs that had started and
failed in a row to the rows the cap of `respondRecalculating` counts: after one failure an
ended row is counted and after two at least two rows, since prune keeps the newest rows and,
with a retention of two or more, two of them (lemma `Pruned`), and a row that failed before
its start, listed last, cannot push them out of the count. `VersionInv` orders the
versions a process has read: a handler reads the row and then the registry, which only
moves on (`InstalledAdvances` is the registry's side of it); an upgrader reads the
registry, then the row, and is saved by the patch test against the version whose install
started it.

**SnapshotProofs** proves `LedgerReplayed`, `HistoryAddsUp`, `ImpactComplete` and
`DrawdownsExact`, for any number of tickers, days and transactions. The readers are
loops, so each argument is an induction over rows, tickers or days. The library's
induction theorems have an operator as parameter, which the provers cannot instantiate;
the lemmas of the first section take sets in its place: a set of numbers has a least
element (`LeastOf`), a set that has 0 and is closed under successor up to `n` has every
number up to `n` (`UpTo`), and a set of finite sets closed under adding an element has
them all (`SubsetInduction`). From them follow that a loop has the value of its last step
(`RunExists`, `SameRun`), and that the sum of a function over a finite set takes its
elements in whatever order (`SumAdds`), is zero where all terms are, or where all but two
opposite ones are (`SumNull`, `SumPair`).

* `LedgerReplayed` is inductive only together with the same statement about the day under
  way (`LedgerInv`) and with the dates of the rows (`TxInv`: none is from the future), by
  which a row written today leaves the replay of every closed day alone (`ReplayLater`).
  A row appended is one more step of the replay (`ReplayAppend`). That a buy keeps the
  average cost between the lowest and the highest price paid, that a sale scales cost and
  quantity alike, and that a split can only lower the cost per share are inequalities
  between products (`MeanBelow`, `MeanAbove`, `Scaled`).
* `HistoryAddsUp` uses `DayInv` (a closed day has a row for every position and the cash,
  and is worth their sum) and that the ledger's positions are the ones of the day.
* `ImpactComplete` turns the sum over the tickers of a flow over the transactions round:
  each transaction of a closed window moves as much into one bucket as out of another, so
  it adds nothing to the sum over the buckets.
* `DrawdownsExact` is the loop invariant of `detectDrawdowns`: after day `i` the peak is
  the last running maximum up to `i`, the trough the first lowest day since, and the
  output the cycles that ended by `i`.

Only model-checked: the liveness properties (`RunEnds`, `OrphansCollected`,
`PassEnds`, `StreamEnds`, `VersionDecided`, `StatsConverge`), since temporal reasoning
under fairness is out of the prover's reach; and the two violated properties.

## 5. Not modelled

HTTP responses and the wording of errors; names, dates and slugs of portfolios (PATCH
of one date is not compared with the stored other one, and the slug's hash ignores the
end date); KPI values and durations; the Docker runner's container names, which come
from 44 bits of a run id; a graceful shutdown's panic of a late Submit; mail contents
and the summary on request; the snapshot queries that only copy columns or compute
floating-point statistics; GitHub search; authentication, generated types and
configuration. `PROJECT.json` gives the reason for each.

## 6. Plan

Modelled, checked and proved as sections 2 to 4 say. What is left: the remaining
snapshot queries that compute rather than copy (returns, yearly tables), a graceful
shutdown in which handlers outlive the channel, and the Docker runner.
