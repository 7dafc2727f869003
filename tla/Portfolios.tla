----------------------------- MODULE Portfolios -----------------------------
(***************************************************************************)
(* One portfolio row, its rows of backtest_runs and the registry row of    *)
(* its strategy, shared by HTTP handlers (portfolio/handler.go,            *)
(* portfolio/upgrade.go), by the goroutines of the automatic upgrader      *)
(* (portfolio/auto_upgrade.go) and by the worker that executes its runs    *)
(* (backtest/run.go).  BacktestRuns has the life of a run in detail; here  *)
(* a run is what the handlers see of it, with the version and the          *)
(* parameters it was computed from.  Statements may fail, or commit and    *)
(* answer with an error, and the server may restart.                       *)
(*                                                                         *)
(* A strategy version is a number; version 0 stands for "no version"       *)
(* (strategy_ver IS NULL) and for the describe of an unofficial build.     *)
(* Parameters are functions from names to values.                          *)
(***************************************************************************)
EXTENDS Integers, FiniteSets, Functions

CONSTANTS
    Clients,      \* concurrent HTTP requests
    Upgraders,    \* goroutines of AutoUpgradeAfterInstall
    Versions,     \* 0 and the versions the syncer installs, in order
    Line,         \* Line[v]: major.minor of v
    Declares,     \* Declares[v]: the declared parameters, name -> type
    Defaults,     \* Defaults[v]: the defaults, name -> value
    Presets,      \* Presets[v]: preset name -> parameters
    Values,       \* parameter values
    Bodies,       \* the parameter maps requests carry
    Retentions,   \* values of run_retention a request may ask for
    MaxRuns,      \* bound: runs submitted
    MaxRequests,  \* bound: HTTP requests
    MaxFaults     \* bound: failing statements and installs, restarts of the
                  \* server, and snapshot files lost to a cleanup outside it

ASSUME PortfoliosAssumption ==
    /\ Clients \cap Upgraders = {}
    /\ Versions \subseteq Nat /\ {0, 1} \subseteq Versions
    /\ Line \in [Versions -> Nat]
    /\ \A v \in Versions : /\ DOMAIN Defaults[v] \subseteq DOMAIN Declares[v]
                            /\ \A x \in DOMAIN Defaults[v] : Defaults[v][x] \in Values
    /\ Bodies \subseteq UNION {[D -> Values] : D \in SUBSET
                                 UNION {DOMAIN Declares[v] : v \in Versions}}
    /\ Retentions \subseteq Nat \ {0}
    /\ {MaxRuns, MaxRequests, MaxFaults} \subseteq Nat

VARIABLES
    row,       \* the portfolios row
    runs,      \* the backtest_runs rows: id -> row
    files,     \* runs whose snapshot is on disk
    registry,  \* the strategies row: [ver, err]
    call,      \* call[c]: the request c is serving, or the upgrader's job
    nextId,    \* uuidv7 of the next run
    budget,    \* requests and faults left (bounds)
    given,     \* history: the parameters the user gave last
    stale,     \* history: since then a merge was written from a stale row
    computed,  \* history: what the active snapshot was computed from, and
               \* whether the row was upgraded under that run
    dropped,   \* history: since the last upgrade, and since a run was last
               \* queued, a Submit failed or was refused by the full queue, the
               \* records of a worker or a rollback failed, or the server restarted
    streak     \* history: consecutive failed runs that had started, 2 for more

tables  == <<row, runs, files, registry, nextId>>
history == <<given, stale, computed, dropped, streak>>
vars    == <<tables, call, budget, history>>

Procs  == Clients \cup Upgraders
RunIds == 1..MaxRuns
Names  == UNION {DOMAIN Declares[v] : v \in Versions}
Params == UNION {[D -> Values] : D \in SUBSET Names}
PresetNames == UNION {DOMAIN Presets[v] : v \in Versions}

None == [status |-> "none", official |-> FALSE, ver |-> 0, describe |-> 0,
         params |-> <<>>, preset |-> "none", retention |-> 1, snap |-> 0]
Rows == [status : {"none", "pending", "running", "ready", "failed"},
         official : BOOLEAN, ver : Versions, describe : Versions,
         params : Params, preset : PresetNames \cup {"none"},
         retention : Retentions \cup {1, 2}, snap : 0..MaxRuns]

\* What a run is computed from: columns of the row that Load hands to the
\* resolver and to BuildArgs.
InputOf(p) == [ver |-> p.ver, params |-> p.params]
NoInput    == [ver |-> 0, params |-> <<>>]
Inputs     == [ver : Versions, params : Params]

\* The columns of a row read earlier that the handler still uses.
StatusOnly(p)  == [None EXCEPT !.status = p.status]
UpgradeView(p) == [None EXCEPT !.ver = p.ver, !.describe = p.describe,
                               !.params = p.params]

Idle  == [pc |-> "idle", op |-> "none", p |-> None, s |-> 0, new |-> 0,
          body |-> <<>>, explicit |-> FALSE, doomed |-> FALSE]
Calls == [pc : {"idle", "strategy", "list", "apply", "submit", "send", "rollback"},
          op : {"none", "create", "upgrade", "auto", "run", "read"}, p : Rows,
          s : Versions, new : Versions, body : Params, explicit : BOOLEAN, doomed : BOOLEAN]

\* A row is "loose" when it is in flight and no task or worker has it: just
\* inserted, or given up by the one who should have recorded its end.  "queued"
\* is a task of the dispatcher, "loaded" a worker between GetByID and
\* MarkRunningTx.  started: started_at is set.  input: what the worker has read
\* from the portfolio; old: whether that was upgraded since.
RunRow(st, started) == [status |-> st, started |-> started, input |-> NoInput, old |-> FALSE]
RunRows == [status : {"loose", "queued", "loaded", "running", "success", "failed"},
            started : BOOLEAN, input : Inputs, old : BOOLEAN]

TypeOK ==
    /\ row \in Rows
    /\ DOMAIN runs \subseteq RunIds
    /\ \A r \in DOMAIN runs : runs[r] \in RunRows
    /\ files \subseteq RunIds
    /\ registry \in [ver : Versions, err : BOOLEAN]
    /\ call \in [Procs -> Calls]
    /\ nextId \in 1..(MaxRuns + 1)
    /\ budget \in [requests : 0..MaxRequests, faults : 0..MaxFaults]
    /\ given \in Params /\ stale \in BOOLEAN
    /\ computed \in [input : Inputs, old : BOOLEAN]
    /\ dropped \in BOOLEAN /\ streak \in 0..2

Loose    == {r \in DOMAIN runs : runs[r].status = "loose"}
Tasked   == {r \in DOMAIN runs : runs[r].status \in {"queued", "loaded", "running"}}
Inflight == Loose \cup Tasked
Exists   == row.status # "none"

-----------------------------------------------------------------------------
(* Parameters: portfolio/validate.go and the merge of portfolio/upgrade.go *)

Kept(o, n)    == {x \in DOMAIN Declares[o] \cap DOMAIN Declares[n] :
                    Declares[o][x] = Declares[n][x]}
Retyped(o, n) == (DOMAIN Declares[o] \cap DOMAIN Declares[n]) \ Kept(o, n)
Removed(o, n) == DOMAIN Declares[o] \ DOMAIN Declares[n]
Added(o, n)   == DOMAIN Declares[n] \ DOMAIN Declares[o]

\* ParameterDiff.Compatible of DiffParameters: nothing removed or retyped,
\* every added parameter has a default.
Compatible(o, n) ==
    /\ Removed(o, n) = {} /\ Retyped(o, n) = {}
    /\ Added(o, n) \subseteq DOMAIN Defaults[n]

\* validateParameters: exactly the declared names, of whatever type.
ValidParameters(params, d) == DOMAIN params = DOMAIN Declares[d]

\* Mutant: a kept parameter falls back to its default.
MergeKeptAndDefaults_Defaults(params, o, n) ==
    [x \in DOMAIN Declares[n] |->
        IF x \in DOMAIN Defaults[n] THEN Defaults[n][x] ELSE params[x]]

\* mergeKeptAndDefaults.
MergeKeptAndDefaults(params, o, n) ==
    [x \in Kept(o, n) \cup (Added(o, n) \cap DOMAIN Defaults[n]) |->
        IF x \in Kept(o, n) THEN params[x] ELSE Defaults[n][x]]

\* MatchPresetName and presetMatch: a preset with exactly these parameters.
MatchPresetName(params, d) ==
    LET hits == {x \in DOMAIN Presets[d] : Presets[d][x] = params}
    IN  IF hits = {} THEN "none" ELSE CHOOSE x \in hits : TRUE

\* isPatchBump: same major.minor, strictly greater.
IsPatchBump(cur, new) == Line[cur] = Line[new] /\ new > cur

-----------------------------------------------------------------------------
(* Requests                                                                *)

At(c, pc) == call[c].pc = pc
Goto(c, pc) == call' = [call EXCEPT ![c].pc = pc]
Leave(c)    == call' = [call EXCEPT ![c] = Idle]
Begin(c, pc, op, p) ==
    call' = [call EXCEPT ![c] = [Idle EXCEPT !.pc = pc, !.op = op, !.p = p]]

Fault == budget.faults > 0 /\ budget' = [budget EXCEPT !.faults = @ - 1]

\* buildPortfolio.  A create that names a run_retention is the default of 2
\* followed by a Patch.
NewRow(official, v, params) ==
    [status |-> "pending", official |-> official,
     ver |-> IF official THEN v ELSE 0, describe |-> v,
     params |-> params, preset |-> MatchPresetName(params, v),
     retention |-> 2, snap |-> 0]

\* ValidateCreate and ValidateCreateUnofficial: an official strategy is
\* installed, and the parameters are those of the describe.
ValidateCreate(official, params, v) ==
    (official => registry.ver # 0) /\ ValidParameters(params, v)

\* POST /portfolios: createOfficial takes the installed version and its
\* describe, whether or not install_error is set; createUnofficial has the
\* describe of an ephemeral build and no version.  Validation failures answer
\* 422 and change nothing.
Create(c, official, params) ==
    /\ At(c, "idle") /\ row.status = "none" /\ nextId = 1
    /\ LET v == IF official THEN registry.ver ELSE 0 IN
       /\ ValidateCreate(official, params, v)
       /\ row' = NewRow(official, v, params)
    /\ Begin(c, "submit", "create", None)
    /\ given' = params
    /\ UNCHANGED <<runs, files, registry, nextId, stale, computed,
                   dropped, streak>>

\* POST /portfolios/{slug}/runs answers 409 when the row says running.  The
\* scheduler's ClaimDue submits the same way, from ready or failed only.
CreateRun(c) ==
    /\ At(c, "idle") /\ Exists /\ row.status # "running"
    /\ Begin(c, "submit", "run", None)
    /\ UNCHANGED <<tables, history>>

\* readSnapshot: a ready portfolio whose snapshot opens is served; every
\* other goes to respondRecalculating with the row as it was read.
ReadSnapshot(c) ==
    /\ At(c, "idle") /\ Exists
    /\ row.status # "ready" \/ row.snap \notin files
    /\ call' = [call EXCEPT ![c] = [Idle EXCEPT !.pc = "list", !.op = "read",
                    !.p = StatusOnly(row),
                    !.doomed = row.status = "failed" /\ streak = 2]]
    /\ UNCHANGED <<tables, history>>

\* consecutiveFailedRuns over ListRuns, which sorts by started_at, newest
\* first, and the rows that never started (refused by a full queue, or failed
\* before MarkRunningTx) last.  Only failed rows are without a start when none
\* is in flight.
Successes == {r \in DOMAIN runs : runs[r].status = "success"}

\* The rows ahead of the first success, all of them if there is none.
Counted == {r \in DOMAIN runs : \A q \in Successes : r > q /\ runs[r].started}

\* Mutant: the loop starts at the second row.
ConsecutiveFailedRuns_SkipsHead == Cardinality(Counted \ {nextId - 1})

ConsecutiveFailedRuns == Cardinality(Counted)

\* respondRecalculating: 202 with the run in flight; 503 after two failures in
\* a row; else submitFreshRun.
RespondRecalculating(c) ==
    /\ At(c, "list")
    /\ IF Inflight # {} \/ (call[c].p.status = "failed" /\ ConsecutiveFailedRuns >= 2)
       THEN Leave(c)
       ELSE call' = [call EXCEPT ![c] = [Idle EXCEPT !.pc = "submit", !.op = "read",
                        !.doomed = call[c].doomed /\ streak = 2]]
    /\ UNCHANGED <<tables, budget, history>>

\* POST /portfolios/{slug}/upgrade: loadUpgradeTargets reads the portfolio,
\* refuses a running one, then reads the registry row.
LoadUpgradePortfolio(c, body, explicit) ==
    /\ At(c, "idle") /\ Exists /\ row.status # "running"
    /\ call' = [call EXCEPT ![c] = [Idle EXCEPT !.pc = "strategy", !.op = "upgrade",
                    !.p = UpgradeView(row), !.body = body, !.explicit = explicit]]
    /\ UNCHANGED <<tables, history>>

\* ... and 422 strategy_not_installable on an install error.  doUpgrade
\* returns early when the versions agree, when the body does not validate
\* (400), or when there is no body and the describes are incompatible (409).
MayUpgrade(p, v, body, explicit) ==
    /\ p.ver # v
    /\ IF explicit THEN ValidParameters(body, v) ELSE Compatible(p.describe, v)

LoadUpgradeStrategy(c) ==
    /\ At(c, "strategy")
    /\ IF registry.ver # 0 /\ ~registry.err
          /\ MayUpgrade(call[c].p, registry.ver, call[c].body, call[c].explicit)
       THEN call' = [call EXCEPT ![c].pc = "apply", ![c].s = registry.ver]
       ELSE Leave(c)
    /\ UNCHANGED <<tables, budget, history>>

\* AutoUpgradeAfterInstall runs detached: it reads the registry row after the
\* install that started it (new), then lists the portfolios.
AutoLoadStrategy(u) ==
    /\ At(u, "strategy")
    /\ IF registry.err THEN Leave(u)
       ELSE call' = [call EXCEPT ![u].pc = "list", ![u].s = registry.ver]
    /\ UNCHANGED <<tables, budget, history>>

\* tryUpgradeOne: not a running portfolio, not an unversioned one, and only
\* when the version that was just installed is a patch bump of the pinned one.
Eligible(p, new) == p.status # "running" /\ p.ver # 0 /\ IsPatchBump(p.ver, new)

AutoListPortfolios(u) ==
    /\ At(u, "list") /\ call[u].op = "auto"
    /\ IF Exists /\ Eligible(row, call[u].new)
          /\ MayUpgrade(row, call[u].s, <<>>, FALSE)
       THEN call' = [call EXCEPT ![u].pc = "apply", ![u].p = UpgradeView(row)]
       ELSE Leave(u)
    /\ UNCHANGED <<tables, budget, history>>

\* Mutant: the status column is left out of the UPDATE.
UpgradedRow_KeepsStatus(v, params) ==
    [row EXCEPT !.ver = v, !.describe = v, !.params = params,
                !.preset = MatchPresetName(params, v)]

\* Mutant: the preset column is left out of the UPDATE.
UpgradedRow_KeepsPreset(v, params) ==
    [row EXCEPT !.ver = v, !.describe = v, !.params = params, !.status = "pending"]

\* ApplyUpgrade: one UPDATE of version, describe, parameters, preset, status
\* and last_error, whatever the row has become since it was read.  What was
\* dropped before matters only if it left a row that will refuse the new run.
UpgradedRow(v, params) ==
    [row EXCEPT !.ver = v, !.describe = v, !.params = params,
                !.preset = MatchPresetName(params, v), !.status = "pending"]

ApplyUpgrade(c) ==
    /\ At(c, "apply")
    /\ LET k == call[c]
           params == IF k.explicit THEN k.body
                     ELSE MergeKeptAndDefaults(k.p.params, k.p.describe, k.s)
       IN  IF Exists
           THEN /\ row' = UpgradedRow(k.s, params)
                /\ runs' = [r \in DOMAIN runs |->
                     IF runs[r].status \in {"loaded", "running"}
                     THEN [runs[r] EXCEPT !.old = TRUE] ELSE runs[r]]
                /\ given' = IF k.explicit THEN k.body ELSE given
                /\ stale' = IF k.explicit THEN FALSE
                            ELSE stale \/ InputOf(k.p) # InputOf(row)
                /\ dropped' = (dropped /\ Loose # {})
                /\ Begin(c, "submit", k.op, None)
           ELSE Leave(c) /\ UNCHANGED <<row, runs, given, stale, dropped>>
    /\ UNCHANGED <<files, registry, nextId, budget, computed, streak>>

\* Where the caller goes when Submit returns an error: a create deletes the
\* portfolio, doUpgrade keeps the error in RunErr, the others answer with it.
Bounce(c) == call' = [call EXCEPT ![c] =
                IF call[c].op = "create" THEN [@ EXCEPT !.pc = "rollback"] ELSE Idle]

InsertRun == [r \in DOMAIN runs \cup {nextId} |-> IF r = nextId THEN RunRow("loose", FALSE) ELSE runs[r]]

\* Dispatcher.Submit on behalf of c, CreateRun: a row in flight already (the
\* partial unique index), a deleted portfolio (the foreign key), or a new row.
\* A read whose Submit meets a run in flight lists the runs again to name it.
Submit(c) ==
    /\ At(c, "submit")
    /\ IF ~Exists \/ Inflight # {}
       THEN Bounce(c) /\ UNCHANGED <<runs, nextId>>
       ELSE /\ nextId <= MaxRuns /\ nextId' = nextId + 1
            /\ runs' = InsertRun
            /\ Goto(c, "send")
    /\ UNCHANGED <<row, files, registry, budget, history>>

\* CreateRun returns a database error, its INSERT done (ghost) or not.
SubmitFails(c, ghost) ==
    /\ At(c, "submit") /\ Fault
    /\ IF ghost
       THEN /\ Exists /\ Inflight = {}
            /\ nextId <= MaxRuns /\ nextId' = nextId + 1
            /\ runs' = InsertRun
       ELSE UNCHANGED <<runs, nextId>>
    /\ Bounce(c) /\ dropped' = (dropped \/ call[c].op # "create")
    /\ UNCHANGED <<row, files, registry, given, stale, computed, streak>>

\* ... then the task goes into the queue, if the row has not been deleted.
Send(c) ==
    /\ At(c, "send") /\ Leave(c)
    /\ runs' = [r \in DOMAIN runs |->
                 IF r \in Loose THEN [runs[r] EXCEPT !.status = "queued"] ELSE runs[r]]
    /\ dropped' = FALSE
    /\ UNCHANGED <<row, files, registry, nextId, budget, given, stale, computed, streak>>

\* ... or the queue is full: UpdateRunFailed, whose error is only logged.
Refuse(c, recorded) ==
    /\ At(c, "send")
    /\ IF recorded
       THEN /\ runs' = [r \in DOMAIN runs |->
                 IF r \in Loose THEN [runs[r] EXCEPT !.status = "failed"] ELSE runs[r]]
            /\ UNCHANGED budget
       ELSE Fault /\ UNCHANGED runs
    /\ Bounce(c) /\ dropped' = (dropped \/ call[c].op # "create")
    /\ UNCHANGED <<row, files, registry, nextId, given, stale, computed, streak>>

\* A handler or an upgrader returns with a database error: of a read, or of
\* the INSERT or UPDATE it took for failed although it had committed ("submit").
GiveUp(c) ==
    /\ call[c].pc \in {"strategy", "list", "apply", "submit"} /\ Fault
    /\ Leave(c) /\ dropped' = (dropped \/ At(c, "submit"))
    /\ UNCHANGED <<tables, given, stale, computed, streak>>

\* The row goes with its runs (ON DELETE CASCADE).
DeleteRow ==
    /\ row' = None /\ runs' = <<>>
    /\ given' = <<>> /\ stale' = FALSE /\ dropped' = FALSE /\ streak' = 0
    /\ computed' = [input |-> NoInput, old |-> FALSE]
    /\ UNCHANGED <<registry, nextId>>

\* DELETE /portfolios/{slug} also removes the snapshot directory.
Delete(c) ==
    /\ At(c, "idle") /\ Exists
    /\ DeleteRow /\ files' = {}
    /\ UNCHANGED call

\* Mutant: the row of a portfolio without a first run stays.
Rollback_Keeps(c) ==
    /\ At(c, "rollback") /\ Leave(c)
    /\ UNCHANGED <<tables, history, budget>>

\* insertAndDispatch deletes the portfolio it could not queue a run for.
Rollback(c) ==
    /\ At(c, "rollback") /\ Leave(c)
    /\ IF Exists THEN DeleteRow /\ UNCHANGED files ELSE UNCHANGED <<tables, history>>
    /\ UNCHANGED budget

\* ... and only logs that the DELETE failed.
RollbackFails(c) ==
    /\ At(c, "rollback") /\ Leave(c) /\ Fault
    /\ dropped' = TRUE
    /\ UNCHANGED <<tables, given, stale, computed, streak>>

\* PATCH /portfolios/{slug} with runRetention; name and dates are not part of
\* this model.
Patch(c, n) ==
    /\ At(c, "idle") /\ Exists /\ row.retention # n
    /\ row' = [row EXCEPT !.retention = n]
    /\ UNCHANGED <<runs, files, registry, call, nextId, given, stale,
                   computed, dropped, streak>>

-----------------------------------------------------------------------------
(* The worker: orchestrator.Run                                            *)

\* GetByID: version and parameters are read before the row says running.
Load(r) ==
    /\ r \in Tasked /\ runs[r].status = "queued"
    /\ runs' = IF row.status = "running"
               THEN [runs EXCEPT ![r].status = "failed"]
               ELSE [runs EXCEPT ![r].status = "loaded", ![r].input = InputOf(row)]
    /\ UNCHANGED <<row, files, registry, nextId, call, budget, history>>

MarkRunning(r) ==
    /\ r \in Tasked /\ runs[r].status = "loaded"
    /\ runs' = [runs EXCEPT ![r].status = "running", ![r].started = TRUE]
    /\ row' = [row EXCEPT !.status = "running"]
    /\ UNCHANGED <<files, registry, nextId, call, budget, history>>

\* PruneRuns after the run ended: the newest run_retention ids stay.
KeptRuns(rs) == {r \in DOMAIN rs :
                    Cardinality({q \in DOMAIN rs : q >= r}) <= row.retention}

Longer == IF streak = 2 THEN 2 ELSE streak + 1

\* MarkReadyTx or MarkFailedTx, then prune.
Finish(r, ok) ==
    /\ r \in Tasked /\ runs[r].status = "running"
    /\ LET ended == [runs EXCEPT ![r] = RunRow(IF ok THEN "success" ELSE "failed", TRUE)]
           keep  == KeptRuns(ended)
       IN  /\ runs' = Restrict(ended, keep)
           /\ files' = (IF ok THEN files \cup {r} ELSE files) \cap keep
    /\ row' = IF ok THEN [row EXCEPT !.status = "ready", !.snap = r]
              ELSE [row EXCEPT !.status = "failed"]
    /\ computed' = IF ok THEN [input |-> runs[r].input, old |-> runs[r].old]
                   ELSE computed
    /\ streak' = IF ok THEN 0 ELSE Longer
    /\ UNCHANGED <<registry, call, nextId, budget, given, stale, dropped>>

\* GetByID or MarkRunningTx returns an error: fail() records both rows as failed
\* and prunes.  The run has no started_at (its MarkRunningTx that had committed
\* after all is MarkRunning followed by Finish).
FailRun(r) ==
    /\ r \in Tasked /\ runs[r].status \in {"queued", "loaded"} /\ Fault
    /\ LET ended == [runs EXCEPT ![r] = RunRow("failed", runs[r].started)]
           keep  == KeptRuns(ended)
       IN  /\ runs' = Restrict(ended, keep)
           /\ files' = files \cap keep
    /\ row' = [row EXCEPT !.status = "failed"]
    /\ UNCHANGED <<registry, call, nextId, history>>

\* MarkFailedTx fails as well, its error dropped: the worker prunes, or fails to,
\* and takes the next task; the rows stay as they are.
Abandon(r, prunes) ==
    /\ r \in Tasked /\ Fault
    /\ LET given_up == [runs EXCEPT ![r] = RunRow("loose", runs[r].started)]
           keep     == IF prunes THEN KeptRuns(given_up) ELSE DOMAIN runs
       IN  /\ runs' = Restrict(given_up, keep)
           /\ files' = IF prunes THEN files \cap keep ELSE files
    /\ dropped' = TRUE
    /\ UNCHANGED <<row, registry, call, nextId, given, stale, computed, streak>>

-----------------------------------------------------------------------------
(* The rest of the world                                                   *)

\* installOne: MarkSuccess, then a detached AutoUpgradeAfterInstall(v); or
\* MarkFailure, which keeps the installed version.
Install(v, u) ==
    /\ v > registry.ver /\ At(u, "idle")
    /\ registry' = [ver |-> v, err |-> FALSE]
    /\ call' = [call EXCEPT ![u] = [Idle EXCEPT !.pc = "strategy", !.op = "auto",
                                                !.new = v]]
    /\ UNCHANGED <<row, runs, files, nextId, budget, history>>

\* Mutant: a failure clears installed_ver.
InstallFails_ClearsVersion ==
    /\ ~registry.err /\ registry.ver # 0 /\ Fault
    /\ registry' = [ver |-> 0, err |-> TRUE]
    /\ UNCHANGED <<row, runs, files, nextId, call, history>>

InstallFails ==
    /\ ~registry.err /\ registry.ver # 0 /\ Fault
    /\ registry' = [registry EXCEPT !.err = TRUE]
    /\ UNCHANGED <<row, runs, files, nextId, call, history>>

\* A snapshot disappears from the directory (readSnapshot's comment: manual
\* cleanup, corruption).
LoseSnapshot ==
    /\ row.snap \in files /\ Fault
    /\ files' = files \ {row.snap}
    /\ UNCHANGED <<row, runs, registry, nextId, call, history>>

\* The server restarts: requests, upgraders, tasks and workers are gone, and
\* MarkAllRunningAsFailed fails every row in flight and a running portfolio; a
\* pending one stays pending.
Restart ==
    /\ Fault
    /\ call' = [c \in Procs |-> Idle]
    /\ runs' = [r \in DOMAIN runs |->
                 IF r \in Inflight THEN RunRow("failed", runs[r].started) ELSE runs[r]]
    /\ row' = IF row.status = "running" THEN [row EXCEPT !.status = "failed"] ELSE row
    /\ streak' = IF \E r \in Inflight : runs[r].started THEN Longer ELSE streak
    /\ dropped' = TRUE
    /\ UNCHANGED <<files, registry, nextId, given, stale, computed>>

-----------------------------------------------------------------------------

Init ==
    /\ row = None /\ runs = <<>> /\ files = {}
    /\ registry \in [ver : {0, 1}, err : {FALSE}]
    /\ call = [c \in Procs |-> Idle]
    /\ nextId = 1
    /\ budget = [requests |-> MaxRequests, faults |-> MaxFaults]
    /\ given = <<>> /\ stale = FALSE
    /\ computed = [input |-> NoInput, old |-> FALSE]
    /\ dropped = FALSE /\ streak = 0

Request(c) ==
    \/ \E official \in BOOLEAN, params \in Bodies : Create(c, official, params)
    \/ CreateRun(c) \/ ReadSnapshot(c) \/ Delete(c)
    \/ LoadUpgradePortfolio(c, <<>>, FALSE)
    \/ \E body \in Bodies : LoadUpgradePortfolio(c, body, TRUE)
    \/ \E n \in Retentions : Patch(c, n)

Next ==
    \/ \E c \in Clients :
         /\ budget.requests > 0 /\ budget' = [budget EXCEPT !.requests = @ - 1]
         /\ Request(c)
    \/ \E c \in Clients : RespondRecalculating(c) \/ LoadUpgradeStrategy(c)
                           \/ Rollback(c) \/ RollbackFails(c)
    \/ \E u \in Upgraders : AutoLoadStrategy(u) \/ AutoListPortfolios(u)
    \/ \E c \in Procs :
         \/ ApplyUpgrade(c) \/ Submit(c) \/ Send(c) \/ GiveUp(c)
         \/ \E ghost \in BOOLEAN : SubmitFails(c, ghost)
         \/ \E recorded \in BOOLEAN : Refuse(c, recorded)
    \/ \E r \in RunIds :
         \/ Load(r) \/ MarkRunning(r) \/ FailRun(r)
         \/ \E ok \in BOOLEAN : Finish(r, ok)
         \/ \E prunes \in BOOLEAN : Abandon(r, prunes)
    \/ \E v \in Versions, u \in Upgraders : Install(v, u)
    \/ InstallFails \/ LoseSnapshot \/ Restart

Spec == Init /\ [][Next]_vars

-----------------------------------------------------------------------------
(* Properties                                                              *)

\* The columns an upgrade and a create write together agree: the parameters
\* are the ones the stored describe declares, the preset name is the preset
\* they match, and an official portfolio's describe is its version's
\* (doUpgrade writes columns computed from a row and a strategy read earlier).
RowCoherent ==
    Exists =>
        /\ ValidParameters(row.params, row.describe)
        /\ row.preset = MatchPresetName(row.params, row.describe)
        /\ row.official => row.ver = row.describe

\* What the user gave is never lost to an upgrade (validate.go: a compatible
\* diff applies "without losing or remapping user input"): the parameters
\* given last keep their values and types through automatic and body-less
\* upgrades, unless one of those was computed from a row that another upgrade
\* replaced before it was written.
UserParamsKept ==
    (Exists /\ ~stale) => \A x \in DOMAIN given :
        x \in DOMAIN row.params /\ row.params[x] = given[x]

\* A ready portfolio shows results of the version and parameters it names,
\* unless the row was upgraded under the run that produced them.
SnapshotOfRow ==
    (row.status = "ready" /\ ~computed.old) => computed.input = InputOf(row)

\* Who made a portfolio pending queues its run, or deletes it.
Committed(k) ==
    \/ k.pc \in {"submit", "rollback"} /\ k.op \in {"create", "upgrade", "auto"}
    \/ k.pc = "send"

\* A pending portfolio is on its way (the scheduler never picks one, ClaimDue):
\* the dispatcher or a worker has a run of it, or the request that made it
\* pending, or one that has inserted a run, is at work on it.  Else something was
\* dropped since: a Submit refused by the full queue or failing, with the row it
\* may leave in flight; an UPDATE or a rollback that failed; the records of a
\* worker; a restart, whose sweep leaves pending portfolios alone.
PendingServed ==
    row.status = "pending" =>
        Tasked # {} \/ (\E c \in Procs : Committed(call[c])) \/ dropped

RetentionOK == \A n \in Retentions : n >= 2

\* respondRecalculating's cap ("if two consecutive runs have already failed we
\* surface 503 with last_error rather than queue a third doomed run"): a read
\* that finds the portfolio failed, with two failed runs since the last success
\* that had started, does not go on to queue a run.  Two limits are the code's:
\* a run that failed before it started (the queue, GetByID, MarkRunningTx) has no
\* started_at, is listed behind the last success and is not counted; and the cap
\* counts rows, so it takes a run_retention of two at least: with one, PruneRuns
\* has deleted the row of the first failure and every read queues another run.
NoThirdRun ==
    RetentionOK =>
        \A c \in Clients : call[c].pc = "submit" => ~call[c].doomed

\* No upgrade takes a portfolio back to an older version, although handlers and
\* upgraders read the row and the registry apart, in opposite orders, while
\* newer versions are installed; only one whose row was given another version
\* between its read and its ApplyUpgrade may (the UPDATE does not compare).
VersionAdvances ==
    [][ (Exists /\ row'.status # "none" /\ row'.ver < row.ver) =>
            \E c \in Procs : /\ At(c, "apply") /\ call'[c].pc # "apply"
                             /\ call[c].p.ver # row.ver ]_vars

-----------------------------------------------------------------------------
(* The inductive invariant behind the properties                           *)

\* The rows of a portfolio are a suffix of the runs submitted for it, and only
\* the newest may be in flight; a run that has read the row knows its columns
\* unless an upgrade came in between.
RunsInv ==
    /\ DOMAIN runs \subseteq 1..(nextId - 1)
    /\ \A r \in DOMAIN runs : \A q \in RunIds : r <= q /\ q < nextId => q \in DOMAIN runs
    /\ Inflight \subseteq {nextId - 1}
    /\ DOMAIN runs # {} => Exists
    /\ \A r \in DOMAIN runs :
         /\ runs[r].status = "running" => runs[r].started
         /\ runs[r].status \in {"loaded", "running"} /\ ~runs[r].old => runs[r].input = InputOf(row)

\* What a handler or an upgrader carries from the rows it has read.
CallOK(c, k) ==
    /\ c \in Clients => k.op # "auto"
    /\ c \in Upgraders => k.op \in {"none", "auto"} /\ ~k.explicit
    /\ k.pc \in {"strategy", "apply"} => k.op \in {"upgrade", "auto"}
    /\ k.pc = "apply" \/ (k.pc = "strategy" /\ k.op = "upgrade") =>
          ValidParameters(k.p.params, k.p.describe)
    /\ k.pc = "apply" => IF k.explicit THEN ValidParameters(k.body, k.s)
                         ELSE Compatible(k.p.describe, k.s)
    /\ k.pc = "rollback" => k.op = "create"
    /\ k.doomed => k.op = "read" /\ (k.pc = "list" => k.p.status = "failed")

CallInv == \A c \in Procs : CallOK(c, call[c])

\* A row no task or worker has is the one a Submit is about to send, or belongs
\* to a portfolio about to be rolled back, or its loss is on record.
LooseInv ==
    Loose # {} => dropped \/ \E c \in Procs : call[c].pc \in {"send", "rollback"}

\* Only one Submit at a time is between its two halves, and the row is its own.
SendInv ==
    \A c \in Procs : call[c].pc = "send" =>
        /\ nextId > 1
        /\ Exists => Loose # {} /\ \A d \in Procs : call[d].pc = "send" => d = c

\* The rows of the last failures are counted as long as they matter.
StreakInv ==
    RetentionOK =>
        /\ Exists => row.retention >= 2
        /\ streak >= 1 => Counted \ Inflight # {}
        /\ streak = 2 => \E r, q \in Counted : r # q

\* The versions a process has read are in the order of its reads: the registry
\* only moves on, and a row is never ahead of it.
VersionsOK(k, installed) ==
    /\ k.pc = "strategy" => (IF k.op = "auto" THEN k.new ELSE k.p.ver) <= installed
    /\ k.pc = "list" /\ k.op = "auto" => k.new <= k.s
    /\ k.pc \in {"list", "apply"} => k.s <= installed
    /\ k.pc = "apply" => k.p.ver < k.s

VersionInv == row.ver <= registry.ver /\ \A c \in Procs : VersionsOK(call[c], registry.ver)

IInv == TypeOK /\ RunsInv /\ CallInv /\ RowCoherent /\ UserParamsKept /\ SnapshotOfRow
             /\ PendingServed /\ LooseInv /\ SendInv /\ StreakInv /\ NoThirdRun
=============================================================================
