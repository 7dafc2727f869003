---------------------------- MODULE BacktestRuns ----------------------------
(***************************************************************************)
(* The life of a backtest run: the HTTP handlers, upgraders and scheduler   *)
(* that submit runs (the clients), the dispatcher's bounded task channel,   *)
(* its pool of workers stepping through orchestrator.Run, the two Postgres  *)
(* tables they share (portfolios and backtest_runs), the snapshot files on  *)
(* disk, and the server process that may stop at any point and is restarted *)
(* with a sweep of what the dead process left behind.                       *)
(*                                                                         *)
(* One action is one SQL transaction, one channel operation or one group of *)
(* file-system calls; everything between two of them is local to a          *)
(* goroutine.  Run ids are numbered in creation order, the order of uuidv7. *)
(***************************************************************************)
EXTENDS Integers, Sequences, FiniteSets

CONSTANTS
    Portfolios,    \* portfolio ids
    Clients,       \* concurrent callers of the dispatcher and of the handlers
    Workers,       \* goroutines started by Dispatcher.Start
    MaxRuns,       \* bound: backtest_runs rows ever inserted
    QueueCap,      \* capacity of Dispatcher.tasks (MaxConcurrency * 4)
    Retentions,    \* values run_retention may take
    DBOutcomes,    \* outcomes a SQL transaction may have
    NoPortfolio    \* the owner of a run id that is not in use

(***************************************************************************)
(* run_retention has CHECK (run_retention >= 1).  A transaction succeeds,   *)
(* fails without effect, or commits while its acknowledgement is lost: the  *)
(* caller then sees an error although the rows changed.                     *)
(***************************************************************************)
ASSUME RunsAssumption ==
    /\ MaxRuns \in Nat \ {0}
    /\ QueueCap \in Nat \ {0}
    /\ Retentions # {} /\ Retentions \subseteq Nat \ {0}
    /\ "ok" \in DBOutcomes /\ DBOutcomes \subseteq {"ok", "error", "lost_ack"}
    /\ NoPortfolio \notin Portfolios

RunIds == 1..MaxRuns

VARIABLES
    \* table portfolios
    status,        \* status column; "none" before INSERT, "deleted" after DELETE
    retention,     \* run_retention column
    active,        \* snapshot_path column, as the run that wrote the file; 0 is NULL
    \* table backtest_runs
    run,           \* status column; "none" before INSERT, "gone" after DELETE
    owner,         \* portfolio_id column
    hasPath,       \* the rows whose snapshot_path column is not NULL
    last,          \* the newest run id handed out
    \* file system
    dirs,          \* the per-portfolio directories that exist
    tmp,           \* runs with a <run>.sqlite.tmp file
    snap,          \* runs with a <run>.sqlite file
    \* the server process
    server,        \* "down", "boot" (before StartupSweep has returned) or "up"
    tasks,         \* Dispatcher.tasks, as the sequence of run ids
    worker,        \* the workers, each somewhere in orchestrator.Run
    client         \* the clients, each somewhere in a handler

tables == <<status, retention, active, run, owner, hasPath, last>>
files  == <<dirs, tmp, snap>>
procs  == <<server, tasks, worker, client>>
vars   == <<status, retention, active, run, owner, hasPath, last,
            dirs, tmp, snap, server, tasks, worker, client>>

PortfolioStatus == {"none", "pending", "running", "ready", "failed", "deleted"}
RunStatus       == {"none", "queued", "running", "success", "failed", "gone"}

WorkerPC == {"idle", "load", "mark", "prepare", "exec", "publish", "ready",
             "fail", "prune", "remove", "complete"}
ClientPC == {"idle", "apply", "insert", "enqueue", "reject", "rollback", "rmdir"}

IdleWorker == [pc |-> "idle", run |-> 0, ok |-> FALSE, paths |-> {}]
IdleClient == [pc |-> "idle", op |-> "none", p |-> NoPortfolio, run |-> 0]

WorkerState == [pc : WorkerPC, run : 0..MaxRuns, ok : BOOLEAN, paths : SUBSET RunIds]
ClientState == [pc : ClientPC, op : {"none", "create", "run", "upgrade", "delete"},
                p : Portfolios \cup {NoPortfolio}, run : 0..MaxRuns]

TablesOK ==
    /\ status \in [Portfolios -> PortfolioStatus]
    /\ retention \in [Portfolios -> Retentions]
    /\ active \in [Portfolios -> 0..MaxRuns]
    /\ run \in [RunIds -> RunStatus]
    /\ owner \in [RunIds -> Portfolios \cup {NoPortfolio}]
    /\ hasPath \subseteq RunIds
    /\ last \in 0..MaxRuns

FilesOK ==
    /\ dirs \subseteq Portfolios
    /\ tmp \subseteq RunIds
    /\ snap \subseteq RunIds

ProcsOK ==
    /\ server \in {"down", "boot", "up"}
    /\ tasks \in Seq(RunIds)
    /\ worker \in [Workers -> WorkerState]
    /\ client \in [Clients -> ClientState]

TypeOK == TablesOK /\ FilesOK /\ ProcsOK

-----------------------------------------------------------------------------
(* The tables. *)

Live(p)     == status[p] \in {"pending", "running", "ready", "failed"}
Exists(r)   == run[r] \in {"queued", "running", "success", "failed"}
Inflight(r) == run[r] \in {"queued", "running"}
RunsOf(p)   == {r \in RunIds : Exists(r) /\ owner[r] = p}
NoneInflight(p) == \A r \in RunsOf(p) : ~Inflight(r)

\* UPDATE ... WHERE id = $1 changes nothing, and reports no error, without a row.
SetStatus(p, s) == IF Live(p) THEN [status EXCEPT ![p] = s] ELSE status
SetRun(r, s)    == IF Exists(r) THEN [run EXCEPT ![r] = s] ELSE run

\* The effect of a transaction, unless it failed.
Apply(outcome, Effect) == IF outcome = "error" THEN UNCHANGED tables ELSE Effect

\* Mutant: the table without its partial unique index.
CanCreateRun_NoIndex(p) == Live(p)

\* An INSERT is refused without the portfolio row (foreign key) and while the
\* portfolio has another queued or running row (partial unique index).
CanCreateRun(p) == Live(p) /\ NoneInflight(p)

\* Mutant: the row is inserted with a portfolio's status.
CreateRun_Pending(p) ==
    /\ last < MaxRuns
    /\ last' = last + 1
    /\ run' = [run EXCEPT ![last + 1] = "pending"]
    /\ owner' = [owner EXCEPT ![last + 1] = p]
    /\ UNCHANGED <<status, retention, active, hasPath>>

CreateRun(p) ==
    /\ last < MaxRuns
    /\ last' = last + 1
    /\ run' = [run EXCEPT ![last + 1] = "queued"]
    /\ owner' = [owner EXCEPT ![last + 1] = p]
    /\ UNCHANGED <<status, retention, active, hasPath>>

UpdateRunFailed(r) ==
    /\ run' = SetRun(r, "failed")
    /\ UNCHANGED <<status, retention, active, owner, hasPath, last>>

MarkRunningTx(p, r) ==
    /\ status' = SetStatus(p, "running")
    /\ run' = SetRun(r, "running")
    /\ UNCHANGED <<retention, active, owner, hasPath, last>>

\* Mutant: the run succeeds, the portfolio keeps its old snapshot_path.
MarkReadyTx_NoPath(p, r) ==
    /\ status' = SetStatus(p, "ready")
    /\ run' = SetRun(r, "success")
    /\ hasPath' = IF Exists(r) THEN hasPath \cup {r} ELSE hasPath
    /\ UNCHANGED <<active, retention, owner, last>>

MarkReadyTx(p, r) ==
    /\ status' = SetStatus(p, "ready")
    /\ active' = IF Live(p) THEN [active EXCEPT ![p] = r] ELSE active
    /\ run' = SetRun(r, "success")
    /\ hasPath' = IF Exists(r) THEN hasPath \cup {r} ELSE hasPath
    /\ UNCHANGED <<retention, owner, last>>

\* Mutant: only the run's half of the transaction.
MarkFailedTx_RunOnly(p, r) == UpdateRunFailed(r)

MarkFailedTx(p, r) ==
    /\ status' = SetStatus(p, "failed")
    /\ run' = SetRun(r, "failed")
    /\ UNCHANGED <<retention, active, owner, hasPath, last>>

\* Mutant: an off-by-one keeps one row less than run_retention.
PruneVictims_OffByOne(p) ==
    {r \in RunsOf(p) : Cardinality({q \in RunsOf(p) : q >= r}) >= retention[p]}

\* Mutant: the oldest rows are kept, not the newest.
PruneVictims_Oldest(p) ==
    {r \in RunsOf(p) : Cardinality({q \in RunsOf(p) : q <= r}) > retention[p]}

\* Rows ranked by id, newest first; the ones ranked past run_retention go,
\* whatever their status.
PruneVictims(p) ==
    {r \in RunsOf(p) : Cardinality({q \in RunsOf(p) : q >= r}) > retention[p]}

DeleteRuns(R) ==
    /\ run' = [r \in RunIds |-> IF r \in R THEN "gone" ELSE run[r]]
    /\ hasPath' = hasPath \ R

PruneRuns(p) ==
    /\ DeleteRuns(PruneVictims(p))
    /\ UNCHANGED <<status, retention, active, owner, last>>

MarkAllRunningAsFailed ==
    /\ status' = [p \in Portfolios |->
                    IF status[p] = "running" THEN "failed" ELSE status[p]]
    /\ run' = [r \in RunIds |-> IF Inflight(r) THEN "failed" ELSE run[r]]
    /\ UNCHANGED <<retention, active, owner, hasPath, last>>

\* DELETE FROM portfolios; its backtest_runs go with it (ON DELETE CASCADE).
DeletePortfolio(p) ==
    /\ status' = [status EXCEPT ![p] = "deleted"]
    /\ DeleteRuns(RunsOf(p))
    /\ UNCHANGED <<retention, active, owner, last>>

-----------------------------------------------------------------------------
(* The clients: handlers, upgraders and the scheduler. *)

Serving(c, pc) == server = "up" /\ client[c].pc = pc

Goto(c, pc) == client' = [client EXCEPT ![c].pc = pc]
Leave(c)    == client' = [client EXCEPT ![c] = IdleClient]
Enter(c, pc, op, p) ==
    client' = [client EXCEPT ![c] = [pc |-> pc, op |-> op, p |-> p, run |-> 0]]

\* Handler.insertAndDispatch, up to the row's INSERT.
Create(c, p) ==
    /\ Serving(c, "idle")
    /\ status[p] = "none"
    /\ \E o \in DBOutcomes :
         /\ Apply(o, /\ status' = [status EXCEPT ![p] = "pending"]
                     /\ \E n \in Retentions : retention' = [retention EXCEPT ![p] = n]
                     /\ UNCHANGED <<active, run, owner, hasPath, last>>)
         /\ IF o = "ok" THEN Enter(c, "insert", "create", p) ELSE UNCHANGED client
    /\ UNCHANGED <<files, server, tasks, worker>>

\* Handler.CreateRun refuses a portfolio that is running.
MayCreateRun(p) == status[p] # "running"

\* Handler.readSnapshot and respondRecalculating: the snapshot cannot be read
\* and no run is in flight.  The cap on consecutive failures is left out.
MayRecompute(p) == (status[p] # "ready" \/ active[p] \notin snap) /\ NoneInflight(p)

\* ClaimDue, whatever the day.
MayClaim(p) == status[p] \in {"ready", "failed"} /\ NoneInflight(p)

\* Handler.CreateRun, Handler.submitFreshRun and Scheduler.dispatchDue: the
\* portfolio has been read, Dispatcher.Submit is about to be called.
RequestRun(c, p) ==
    /\ Serving(c, "idle")
    /\ Live(p)
    /\ MayCreateRun(p) \/ MayRecompute(p) \/ MayClaim(p)
    /\ Enter(c, "insert", "run", p)
    /\ UNCHANGED <<tables, files, server, tasks, worker>>

\* Handler.loadUpgradeTargets and AutoUpgrader.tryUpgradeOne read the
\* portfolio and go on only if it is not running at that moment.
LoadUpgradeTargets(c, p) ==
    /\ Serving(c, "idle")
    /\ Live(p) /\ status[p] # "running"
    /\ Enter(c, "apply", "upgrade", p)
    /\ UNCHANGED <<tables, files, server, tasks, worker>>

ApplyUpgrade(c) ==
    LET p == client[c].p IN
    /\ Serving(c, "apply")
    /\ \E o \in DBOutcomes :
         /\ Apply(o, /\ status' = SetStatus(p, "pending")
                     /\ UNCHANGED <<retention, active, run, owner, hasPath, last>>)
         /\ IF o = "ok" /\ Live(p) THEN Goto(c, "insert") ELSE Leave(c)
    /\ UNCHANGED <<files, server, tasks, worker>>

\* A failed Submit undoes the creation of a portfolio and nothing else.
SubmitFailed(c) == IF client[c].op = "create" THEN Goto(c, "rollback") ELSE Leave(c)

\* Dispatcher.Submit, first half: INSERT the row as queued.
SubmitInsert(c) ==
    LET p == client[c].p IN
    /\ Serving(c, "insert")
    /\ \E o \in DBOutcomes :
         IF CanCreateRun(p)
         THEN /\ Apply(o, CreateRun(p))
              /\ IF o = "ok"
                 THEN client' = [client EXCEPT ![c].pc = "enqueue", ![c].run = last + 1]
                 ELSE SubmitFailed(c)
         ELSE UNCHANGED tables /\ SubmitFailed(c)
    /\ UNCHANGED <<files, server, tasks, worker>>

\* Dispatcher.Submit, second half: the non-blocking send on the channel.
SubmitEnqueue(c) ==
    /\ Serving(c, "enqueue")
    /\ IF Len(tasks) < QueueCap
       THEN tasks' = Append(tasks, client[c].run) /\ Leave(c)
       ELSE UNCHANGED tasks /\ Goto(c, "reject")
    /\ UNCHANGED <<tables, files, server, worker>>

\* Mutant: a full queue leaves the row queued.
SubmitReject_LeavesRow(c) ==
    /\ Serving(c, "reject")
    /\ SubmitFailed(c)
    /\ UNCHANGED <<tables, files, server, tasks, worker>>

\* Dispatcher.Submit on a full queue; an error of the UPDATE is only logged.
SubmitReject(c) ==
    /\ Serving(c, "reject")
    /\ \E o \in DBOutcomes : Apply(o, UpdateRunFailed(client[c].run))
    /\ SubmitFailed(c)
    /\ UNCHANGED <<files, server, tasks, worker>>

\* Handler.insertAndDispatch, rollback of the new portfolio; an error is only logged.
Rollback(c) ==
    LET p == client[c].p IN
    /\ Serving(c, "rollback")
    /\ \E o \in DBOutcomes :
         IF Live(p) THEN Apply(o, DeletePortfolio(p)) ELSE UNCHANGED tables
    /\ Leave(c)
    /\ UNCHANGED <<files, server, tasks, worker>>

\* Handler.Delete, the row; RemoveDir then purges the snapshot directory, an
\* error of which is only logged.
Delete(c, p) ==
    /\ Serving(c, "idle")
    /\ Live(p)
    /\ \E o \in DBOutcomes :
         /\ Apply(o, DeletePortfolio(p))
         /\ IF o = "ok" THEN Enter(c, "rmdir", "delete", p) ELSE UNCHANGED client
    /\ UNCHANGED <<files, server, tasks, worker>>

FilesOf(p) == {r \in RunIds : owner[r] = p}

RemoveAll(p) ==
    /\ dirs' = dirs \ {p}
    /\ tmp' = tmp \ FilesOf(p)
    /\ snap' = snap \ FilesOf(p)

\* os.RemoveAll stops at its first error, with some of the files gone.
RemovePart(p) ==
    /\ \E R \in SUBSET FilesOf(p) : tmp' = tmp \ R /\ snap' = snap \ R
    /\ UNCHANGED dirs

RemoveDir(c) ==
    /\ Serving(c, "rmdir")
    /\ RemoveAll(client[c].p) \/ RemovePart(client[c].p)
    /\ Leave(c)
    /\ UNCHANGED <<tables, server, tasks, worker>>

\* Handler.Patch with runRetention.
UpdateRunRetention(c, p) ==
    /\ Serving(c, "idle")
    /\ Live(p)
    /\ \E n \in Retentions : retention' = [retention EXCEPT ![p] = n]
    /\ UNCHANGED <<status, active, run, owner, hasPath, last, files, procs>>

-----------------------------------------------------------------------------
(* The workers: orchestrator.Run. *)

At(w, pc) == server # "down" /\ worker[w].pc = pc
Step(w, pc) == worker' = [worker EXCEPT ![w].pc = pc]

\* range over Dispatcher.tasks
TakeTask(w) ==
    /\ At(w, "idle")
    /\ tasks # <<>>
    /\ tasks' = Tail(tasks)
    /\ worker' = [worker EXCEPT
                    ![w] = [pc |-> "load", run |-> Head(tasks), ok |-> FALSE, paths |-> {}]]
    /\ UNCHANGED <<tables, files, server, client>>

\* GetByID, and the guard against a portfolio that is already running.
Load(w) ==
    LET r == worker[w].run
        p == owner[r]
    IN
    /\ At(w, "load")
    /\ \E o \in DBOutcomes :
         IF o # "ok" \/ ~Live(p)
         THEN UNCHANGED tables /\ Step(w, "fail")
         ELSE IF status[p] = "running"
         THEN /\ \E u \in DBOutcomes : Apply(u, UpdateRunFailed(r))
              /\ worker' = [worker EXCEPT ![w] = IdleWorker]
         ELSE UNCHANGED tables /\ Step(w, "mark")
    /\ UNCHANGED <<files, server, tasks, client>>

MarkRunning(w) ==
    LET r == worker[w].run IN
    /\ At(w, "mark")
    /\ \E o \in DBOutcomes :
         /\ Apply(o, MarkRunningTx(owner[r], r))
         /\ Step(w, IF o = "ok" THEN "prepare" ELSE "fail")
    /\ UNCHANGED <<files, server, tasks, client>>

\* Resolve the artifact, make the portfolio's directory, drop an old tmp file.
Prepare(w) ==
    LET r == worker[w].run IN
    /\ At(w, "prepare")
    /\ \/ UNCHANGED files /\ Step(w, "fail")
       \/ /\ dirs' = dirs \cup {owner[r]}
          /\ tmp' = tmp \ {r}
          /\ snap' = snap
          /\ Step(w, "exec")
    /\ UNCHANGED <<tables, server, tasks, client>>

\* runner.Run: the strategy writes the tmp file, or fails or times out with or
\* without having written part of it.
RunBacktest(w) ==
    LET r == worker[w].run IN
    /\ At(w, "exec")
    /\ \/ /\ owner[r] \in dirs
          /\ tmp' = tmp \cup {r}
          /\ \E pc \in {"publish", "fail"} : Step(w, pc)
       \/ tmp' = tmp /\ Step(w, "fail")
    /\ UNCHANGED <<tables, dirs, snap, server, tasks, client>>

\* fsyncAndRename, then readKpisFromSnapshot, which may reject the file.
Publish(w) ==
    LET r == worker[w].run IN
    /\ At(w, "publish")
    /\ \/ /\ r \in tmp
          /\ tmp' = tmp \ {r}
          /\ snap' = snap \cup {r}
          /\ \E pc \in {"ready", "fail"} : Step(w, pc)
       \/ UNCHANGED <<tmp, snap>> /\ Step(w, "fail")
    /\ UNCHANGED <<tables, dirs, server, tasks, client>>

MarkReady(w) ==
    LET r == worker[w].run IN
    /\ At(w, "ready")
    /\ \E o \in DBOutcomes :
         /\ Apply(o, MarkReadyTx(owner[r], r))
         /\ IF o = "ok"
            THEN worker' = [worker EXCEPT ![w].pc = "prune", ![w].ok = TRUE]
            ELSE Step(w, "fail")
    /\ UNCHANGED <<files, server, tasks, client>>

\* orchestrator.fail; an error of MarkFailedTx is dropped.
Fail(w) ==
    LET r == worker[w].run IN
    /\ At(w, "fail")
    /\ \E o \in DBOutcomes : Apply(o, MarkFailedTx(owner[r], r))
    /\ Step(w, "prune")
    /\ UNCHANGED <<files, server, tasks, client>>

\* Mutant: the files of every row of the portfolio are removed.
Prune_AllFiles(w) ==
    LET p == owner[worker[w].run]
        paths == RunsOf(p) \cap hasPath
    IN
    /\ At(w, "prune")
    /\ \E o \in DBOutcomes :
         /\ IF Live(p) THEN Apply(o, PruneRuns(p)) ELSE UNCHANGED tables
         /\ IF o = "ok" /\ Live(p) /\ paths # {}
            THEN worker' = [worker EXCEPT ![w].pc = "remove", ![w].paths = paths]
            ELSE Step(w, "complete")
    /\ UNCHANGED <<files, server, tasks, client>>

\* orchestrator.prune, the rows; without a portfolio row PruneRuns returns an error.
Prune(w) ==
    LET p == owner[worker[w].run]
        paths == PruneVictims(p) \cap hasPath
    IN
    /\ At(w, "prune")
    /\ \E o \in DBOutcomes :
         /\ IF Live(p) THEN Apply(o, PruneRuns(p)) ELSE UNCHANGED tables
         /\ IF o = "ok" /\ Live(p) /\ paths # {}
            THEN worker' = [worker EXCEPT ![w].pc = "remove", ![w].paths = paths]
            ELSE Step(w, "complete")
    /\ UNCHANGED <<files, server, tasks, client>>

\* orchestrator.prune, one file of a pruned row; an error is only logged.
RemoveSnapshot(w) ==
    /\ At(w, "remove")
    /\ \E r \in worker[w].paths :
         /\ worker' = [worker EXCEPT
                         ![w].paths = @ \ {r},
                         ![w].pc = IF worker[w].paths = {r} THEN "complete" ELSE "remove"]
         /\ \/ snap' = snap \ {r}
            \/ snap' = snap
    /\ UNCHANGED <<tables, dirs, tmp, server, tasks, client>>

\* hub.Complete and the notifier, then back to the channel.
Complete(w) ==
    /\ At(w, "complete")
    /\ worker' = [worker EXCEPT ![w] = IdleWorker]
    /\ UNCHANGED <<tables, files, server, tasks, client>>

-----------------------------------------------------------------------------
(* The server process. *)

\* The process dies, or its context is cancelled and it exits: the channel, the
\* workers and the clients are gone, the tables and the files stay.
Crash ==
    /\ server # "down"
    /\ server' = "down"
    /\ tasks' = <<>>
    /\ worker' = [w \in Workers |-> IdleWorker]
    /\ client' = [c \in Clients |-> IdleClient]
    /\ UNCHANGED <<tables, files>>

\* Dispatcher.Start comes before the sweep; nothing can be submitted yet.
Boot ==
    /\ server = "down"
    /\ server' = "boot"
    /\ UNCHANGED <<tables, files, tasks, worker, client>>

\* Mutant: the sweep runs again while the server is serving.
StartupSweep_Serving ==
    /\ server # "down"
    /\ tmp' \in SUBSET tmp
    /\ \E o \in DBOutcomes : Apply(o, MarkAllRunningAsFailed)
    /\ server' = "up"
    /\ UNCHANGED <<dirs, snap, tasks, worker, client>>

\* StartupSweep removes tmp files that are older than an hour, then fails what
\* the previous process left in flight; the server goes on if it errors.
StartupSweep ==
    /\ server = "boot"
    /\ \E stale \in SUBSET tmp : tmp' = tmp \ stale
    /\ \E o \in DBOutcomes : Apply(o, MarkAllRunningAsFailed)
    /\ server' = "up"
    /\ UNCHANGED <<dirs, snap, tasks, worker, client>>

-----------------------------------------------------------------------------

Init ==
    /\ status = [p \in Portfolios |-> "none"]
    /\ retention = [p \in Portfolios |-> CHOOSE n \in Retentions : TRUE]
    /\ active = [p \in Portfolios |-> 0]
    /\ run = [r \in RunIds |-> "none"]
    /\ owner = [r \in RunIds |-> NoPortfolio]
    /\ hasPath = {} /\ last = 0
    /\ dirs = {} /\ tmp = {} /\ snap = {}
    /\ server = "down"
    /\ tasks = <<>>
    /\ worker = [w \in Workers |-> IdleWorker]
    /\ client = [c \in Clients |-> IdleClient]

ClientStep(c) ==
    \/ ApplyUpgrade(c) \/ SubmitInsert(c) \/ SubmitEnqueue(c)
    \/ SubmitReject(c) \/ Rollback(c) \/ RemoveDir(c)

ClientStart(c) ==
    \E p \in Portfolios :
        \/ Create(c, p) \/ RequestRun(c, p) \/ LoadUpgradeTargets(c, p)
        \/ Delete(c, p) \/ UpdateRunRetention(c, p)

WorkerStep(w) ==
    \/ TakeTask(w) \/ Load(w) \/ MarkRunning(w) \/ Prepare(w) \/ RunBacktest(w)
    \/ Publish(w) \/ MarkReady(w) \/ Fail(w) \/ Prune(w) \/ RemoveSnapshot(w)
    \/ Complete(w)

Next ==
    \/ \E c \in Clients : ClientStart(c) \/ ClientStep(c)
    \/ \E w \in Workers : WorkerStep(w)
    \/ Crash \/ Boot \/ StartupSweep

Spec == Init /\ [][Next]_vars

(***************************************************************************)
(* Every goroutine that is not waiting for anyone goes on: the Go scheduler *)
(* runs it, SQL calls return, the runner is bounded by Config.Timeout, and  *)
(* a stopped server is restarted by its supervisor.  A restart loop lets    *)
(* the sweep through once in a while: hence SF for StartupSweep, which      *)
(* every crash disables.  No client is obliged to start a request.          *)
(***************************************************************************)
Fairness ==
    /\ \A c \in Clients : WF_vars(ClientStep(c))
    /\ \A w \in Workers : WF_vars(WorkerStep(w))
    /\ WF_vars(Boot)
    /\ SF_vars(StartupSweep)

FairSpec == Spec /\ Fairness

-----------------------------------------------------------------------------
(* Correctness. *)

\* At most one run of a portfolio is queued or running: what Submit promises
\* through the partial unique index, for every interleaving of Submit, the
\* workers, the sweep and lost acknowledgements.
OneInflight ==
    \A r, q \in RunIds :
        Inflight(r) /\ Inflight(q) /\ owner[r] = owner[q] => r = q

\* A portfolio shown as running has a run row that is running, so that it is
\* never stuck at 409 / 202 answers without a run to wait for.
RunningIsBacked ==
    \A p \in Portfolios :
        status[p] = "running" => \E r \in RunsOf(p) : run[r] = "running"

Executing(w) == worker[w].pc \in {"mark", "prepare", "exec", "publish", "ready"}

\* No two workers execute runs of one portfolio, and a worker that loads a
\* portfolio never finds it running: the guard of orchestrator.Run and its
\* ErrAlreadyRunning are unreachable behind the unique index.
ExclusiveExecution ==
    /\ \A v, w \in Workers :
         Executing(v) /\ Executing(w) /\ v # w
            => owner[worker[v].run] # owner[worker[w].run]
    /\ \A w \in Workers :
         worker[w].pc = "load" => status[owner[worker[w].run]] # "running"

\* A row whose snapshot_path is set has its file on disk: neither the pruning
\* of other runs nor the deletion of another portfolio removes it.
SnapshotOnDisk == hasPath \subseteq snap

\* A ready portfolio has written a snapshot, and if the row of that snapshot
\* has been pruned a newer run of the portfolio is recorded: pruning never
\* leaves a portfolio without any row to show or to wait for.
ReadyOrSuperseded ==
    \A p \in Portfolios :
        status[p] = "ready" =>
            /\ active[p] # 0
            /\ active[p] \in RunsOf(p) \/ \E r \in RunsOf(p) : r > active[p]

\* A queued or running row is never pruned, although PruneRuns does not look
\* at the status: it only goes when its portfolio is deleted.
PruneKeepsInflight ==
    [][\A r \in RunIds :
         Inflight(r) /\ run'[r] = "gone" => status'[owner[r]] = "deleted"]_vars

\* A run that has ended does not start again, and a deleted row does not
\* come back: late writes of a worker cannot resurrect a row.
EndedStaysEnded ==
    [][\A r \in RunIds :
         /\ run[r] \in {"success", "failed"} => run'[r] \notin {"queued", "running"}
         /\ run[r] = "gone" => run'[r] = "gone"]_vars

\* Every queued or running row ends: it is executed, rejected by the full
\* queue, deleted, or failed by the sweep after a restart.
RunEnds == \A r \in RunIds : Inflight(r) ~> ~Inflight(r)

\* orchestrator.Run documents that prune deletes old artifacts without
\* clobbering the active snapshot: the file a ready portfolio points to exists.
ActiveSnapshotKept ==
    \A p \in Portfolios : status[p] = "ready" => active[p] \in snap

-----------------------------------------------------------------------------
(***************************************************************************)
(* The inductive invariant behind the properties above.  A run id is held   *)
(* by a client between the INSERT and the send, by the channel, or by a     *)
(* worker; while it is held nobody else writes its row, which is why the    *)
(* status the holder assumes is the status in the table.                    *)
(***************************************************************************)
HoldsClient(c) == client[c].pc \in {"enqueue", "reject"}
HoldsWorker(w) == worker[w].pc # "idle"

\* Ids are handed out in order, to portfolios that have been created.
IdsInOrder ==
    \A r \in RunIds : /\ run[r] = "none" <=> r > last
                      /\ r <= last <=> owner[r] \in Portfolios
                      /\ r <= last => status[owner[r]] # "none"

ClientsHaveTarget == \A c \in Clients : client[c].pc # "idle" => client[c].p \in Portfolios

HeldIdsUsed ==
    /\ \A c \in Clients : HoldsClient(c) => client[c].run \in 1..last
    /\ \A w \in Workers : HoldsWorker(w) => worker[w].run \in 1..last
    /\ \A i \in 1..Len(tasks) : tasks[i] \in 1..last

\* No run id is held twice.
HeldOnce ==
    /\ \A c, d \in Clients : HoldsClient(c) /\ HoldsClient(d)
                               /\ client[c].run = client[d].run => c = d
    /\ \A v, w \in Workers : HoldsWorker(v) /\ HoldsWorker(w)
                               /\ worker[v].run = worker[w].run => v = w
    /\ \A i, j \in 1..Len(tasks) : tasks[i] = tasks[j] => i = j
    /\ \A c \in Clients, w \in Workers :
         HoldsClient(c) /\ HoldsWorker(w) => client[c].run # worker[w].run
    /\ \A c \in Clients, i \in 1..Len(tasks) : HoldsClient(c) => client[c].run # tasks[i]
    /\ \A w \in Workers, i \in 1..Len(tasks) : HoldsWorker(w) => worker[w].run # tasks[i]

Newest(r) == \A q \in RunIds : q <= last /\ owner[q] = owner[r] => q <= r

\* The newest row of its portfolio, with status s unless the portfolio is deleted.
RowIs(r, s) ==
    /\ Newest(r)
    /\ run[r] = s \/ (run[r] = "gone" /\ status[owner[r]] = "deleted")

HeldStatus ==
    /\ \A c \in Clients : HoldsClient(c) => RowIs(client[c].run, "queued")
    /\ \A i \in 1..Len(tasks) : RowIs(tasks[i], "queued")
    /\ \A w \in Workers :
         /\ worker[w].pc \in {"load", "mark"} => RowIs(worker[w].run, "queued")
         /\ worker[w].pc \in {"prepare", "exec", "publish", "ready"}
              => RowIs(worker[w].run, "running")

\* Runs are created one at a time, so an unfinished one is the newest.
InflightNewest ==
    \A r, q \in RunIds :
        Inflight(r) /\ r < q /\ q <= last => owner[q] # owner[r]

\* The foreign key: a row's portfolio exists.
RowsHavePortfolio == \A r \in RunIds : Exists(r) => Live(owner[r])

PathsHaveRows == \A r \in hasPath : Exists(r)

\* A stopped or booting process holds nothing.
QuietUnlessUp ==
    server # "up" => /\ tasks = <<>>
                     /\ \A w \in Workers : worker[w] = IdleWorker
                     /\ \A c \in Clients : client[c] = IdleClient

\* Files are removed only for rows and portfolios that are gone.
RemovalsAreSafe ==
    /\ \A w \in Workers : \A r \in worker[w].paths : run[r] = "gone"
    /\ \A c \in Clients : client[c].pc = "rmdir" => status[client[c].p] = "deleted"
    /\ \A w \in Workers : worker[w].pc = "ready" /\ Live(owner[worker[w].run])
                             => worker[w].run \in snap

\* The newest run of a portfolio is never pruned.
NewestKept ==
    \A r \in RunIds : r <= last /\ Live(owner[r]) /\ Newest(r) => Exists(r)

ActiveIsOwn ==
    \A p \in Portfolios : status[p] = "ready" =>
        active[p] \in 1..last /\ owner[active[p]] = p

TableInv ==
    /\ TablesOK /\ IdsInOrder /\ InflightNewest /\ RowsHavePortfolio
    /\ PathsHaveRows /\ RunningIsBacked /\ NewestKept /\ ActiveIsOwn

HolderInv ==
    /\ ProcsOK /\ ClientsHaveTarget /\ HeldIdsUsed /\ HeldOnce /\ QuietUnlessUp

FileInv ==
    /\ FilesOK /\ RemovalsAreSafe /\ SnapshotOnDisk

IInv == TableInv /\ HolderInv /\ HeldStatus /\ FileInv
=============================================================================
