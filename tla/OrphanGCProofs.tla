--------------------------- MODULE OrphanGCProofs ---------------------------
(***************************************************************************)
(* The orphan sweep is safe beside every other activity of the server: the  *)
(* invariant of BacktestRuns survives it, and so do the files of live runs. *)
(***************************************************************************)
EXTENDS OrphanGC, BacktestRunsProofs

-----------------------------------------------------------------------------
(***************************************************************************)
(* What no step of the core undoes: a created portfolio or run stays        *)
(* created, a deleted portfolio stays deleted, a run keeps its portfolio.   *)
(***************************************************************************)
History ==
    /\ last <= last'
    /\ \A p \in Portfolios : status[p] # "none" => status'[p] # "none"
    /\ \A p \in Portfolios : status[p] = "deleted" => status'[p] = "deleted"
    /\ \A r \in RunIds : r <= last => owner'[r] = owner[r]

\* The transactions of the core, as the actions use them.
TableStep ==
    \/ UNCHANGED tables
    \/ \E p \in Portfolios :
         \/ /\ status[p] = "none" /\ status' = [status EXCEPT ![p] = "pending"]
            /\ UNCHANGED <<owner, last>>
         \/ status' = SetStatus(p, "pending") /\ UNCHANGED <<owner, last>>
         \/ CreateRun(p)
         \/ status[p] # "none" /\ DeletePortfolio(p)
         \/ PruneRuns(p)
         \/ UNCHANGED <<status, owner, last>>
         \/ \E r \in RunIds : MarkRunningTx(p, r) \/ MarkReadyTx(p, r) \/ MarkFailedTx(p, r)
    \/ \E r \in RunIds : UpdateRunFailed(r)
    \/ MarkAllRunningAsFailed

\* No transaction takes an id back or gives a row another owner.
LEMMA TableStepHistory ==
    ASSUME TablesOK, TableStep
    PROVE  History
<1> USE RunsAssumption DEF TablesOK, History, RunIds
<1>1. CASE UNCHANGED tables
  BY <1>1 DEF tables
<1>2. ASSUME NEW p \in Portfolios,
             \/ /\ status[p] = "none" /\ status' = [status EXCEPT ![p] = "pending"]
                /\ UNCHANGED <<owner, last>>
             \/ status' = SetStatus(p, "pending") /\ UNCHANGED <<owner, last>>
      PROVE  History
  BY <1>2 DEF SetStatus, Live
<1>3. ASSUME NEW p \in Portfolios, CreateRun(p) PROVE History
  BY <1>3 DEF CreateRun
<1>4. ASSUME NEW p \in Portfolios, (status[p] # "none" /\ DeletePortfolio(p)) \/ PruneRuns(p)
                                   \/ UNCHANGED <<status, owner, last>>
      PROVE  History
  BY <1>4 DEF DeletePortfolio, PruneRuns
<1>5. ASSUME NEW p \in Portfolios, NEW r \in RunIds,
             MarkRunningTx(p, r) \/ MarkReadyTx(p, r) \/ MarkFailedTx(p, r)
      PROVE  History
  BY <1>5 DEF MarkRunningTx, MarkReadyTx, MarkFailedTx, SetStatus, Live
<1>6. ASSUME NEW r \in RunIds, UpdateRunFailed(r) PROVE History
  BY <1>6 DEF UpdateRunFailed
<1>7. CASE MarkAllRunningAsFailed
  BY <1>7 DEF MarkAllRunningAsFailed
<1> QED
  BY <1>1, <1>2, <1>3, <1>4, <1>5, <1>6, <1>7 DEF TableStep

\* Every step of the core is one of these transactions.
LEMMA NextHistory ==
    ASSUME IInv, Next
    PROVE  History
<1>0. TablesOK
  BY DEF IInv, TableInv
<1>1. ASSUME NEW c \in Clients, ClientStart(c) PROVE TableStep
  <2>1. PICK p \in Portfolios : \/ Create(c, p) \/ RequestRun(c, p) \/ LoadUpgradeTargets(c, p)
                                \/ Delete(c, p) \/ UpdateRunRetention(c, p)
    BY <1>1 DEF ClientStart
  <2>2. CASE Create(c, p)
    BY <2>2 DEF Create, Apply, TableStep
  <2>3. CASE RequestRun(c, p) \/ LoadUpgradeTargets(c, p)
    BY <2>3 DEF RequestRun, LoadUpgradeTargets, TableStep
  <2>4. CASE Delete(c, p)
    BY <2>4 DEF Delete, Apply, Live, TableStep
  <2>5. CASE UpdateRunRetention(c, p)
    BY <2>5 DEF UpdateRunRetention, TableStep
  <2> QED
    BY <2>1, <2>2, <2>3, <2>4, <2>5
<1>2. ASSUME NEW c \in Clients, ClientStep(c) PROVE TableStep
  <2>1. CASE ApplyUpgrade(c)
    <3>1. client[c].p \in Portfolios
      BY <2>1, ClientFacts DEF ApplyUpgrade
    <3> QED
      BY <2>1, <3>1 DEF ApplyUpgrade, Apply, TableStep
  <2>2. CASE SubmitInsert(c)
    <3>1. client[c].p \in Portfolios
      BY <2>2, ClientFacts DEF SubmitInsert
    <3> QED
      BY <2>2, <3>1 DEF SubmitInsert, Apply, TableStep
  <2>3. CASE SubmitEnqueue(c) \/ RemoveDir(c)
    BY <2>3 DEF SubmitEnqueue, RemoveDir, TableStep
  <2>4. CASE SubmitReject(c)
    <3>1. client[c].run \in RunIds
      BY <2>4, ClientFacts DEF SubmitReject, HoldsClient
    <3> QED
      BY <2>4, <3>1 DEF SubmitReject, Apply, TableStep
  <2>5. CASE Rollback(c)
    <3>1. client[c].p \in Portfolios
      BY <2>5, ClientFacts DEF Rollback
    <3> QED
      BY <2>5, <3>1 DEF Rollback, Apply, Live, TableStep
  <2> QED
    BY <1>2, <2>1, <2>2, <2>3, <2>4, <2>5 DEF ClientStep
<1>3. ASSUME NEW w \in Workers, WorkerStep(w) PROVE TableStep
  <2> DEFINE r == worker[w].run
  <2>1. CASE \/ TakeTask(w) \/ Prepare(w) \/ RunBacktest(w) \/ Publish(w) \/ RemoveSnapshot(w)
             \/ Complete(w)
    BY <2>1 DEF TakeTask, Prepare, RunBacktest, Publish, RemoveSnapshot, Complete, TableStep
  <2>2. CASE Load(w) \/ MarkRunning(w) \/ MarkReady(w) \/ Fail(w) \/ Prune(w)
    <3>1. r \in RunIds /\ owner[r] \in Portfolios
      BY <2>2, WorkerFacts DEF Load, MarkRunning, MarkReady, Fail, Prune
    <3>2. CASE Load(w)
      BY <3>1, <3>2 DEF Load, Apply, TableStep
    <3>3. CASE MarkRunning(w)
      BY <3>1, <3>3 DEF MarkRunning, Apply, TableStep
    <3>4. CASE MarkReady(w)
      BY <3>1, <3>4 DEF MarkReady, Apply, TableStep
    <3>5. CASE Fail(w)
      BY <3>1, <3>5 DEF Fail, Apply, TableStep
    <3>6. CASE Prune(w)
      BY <3>1, <3>6 DEF Prune, Apply, TableStep
    <3> QED
      BY <2>2, <3>2, <3>3, <3>4, <3>5, <3>6
  <2> QED
    BY <1>3, <2>1, <2>2 DEF WorkerStep
<1>4. ASSUME Crash \/ Boot \/ StartupSweep PROVE TableStep
  BY <1>4 DEF Crash, Boot, StartupSweep, Apply, TableStep
<1> QED
  BY <1>0, <1>1, <1>2, <1>3, <1>4, TableStepHistory DEF Next

\* A file or directory that appears belongs to a run that was created.
LEMMA NextFilesHaveHistory ==
    ASSUME IInv, Next, FilesHaveHistory
    PROVE  FilesHaveHistory'
<1>0. History
  BY NextHistory
<1>1. /\ \A r \in snap' : r \in snap \/ r <= last
      /\ \A p \in dirs' : p \in dirs \/ (p \in Portfolios /\ status[p] # "none")
  <2>1. ASSUME NEW c \in Clients, ClientStart(c)
        PROVE  UNCHANGED files
    BY <2>1 DEF ClientStart, Create, RequestRun, LoadUpgradeTargets, Delete, UpdateRunRetention, files
  <2>2. ASSUME NEW c \in Clients, ClientStep(c)
        PROVE  snap' \subseteq snap /\ dirs' \subseteq dirs
    BY <2>2 DEF ClientStep, ApplyUpgrade, SubmitInsert, SubmitEnqueue, SubmitReject, Rollback,
                RemoveDir, RemoveAll, RemovePart, files
  <2>3. ASSUME NEW w \in Workers,
               \/ TakeTask(w) \/ Load(w) \/ MarkRunning(w) \/ RunBacktest(w) \/ MarkReady(w)
               \/ Fail(w) \/ Prune(w) \/ RemoveSnapshot(w) \/ Complete(w)
        PROVE  snap' \subseteq snap /\ dirs' \subseteq dirs
    BY <2>3 DEF TakeTask, Load, MarkRunning, RunBacktest, MarkReady, Fail, Prune, RemoveSnapshot,
                Complete, files
  <2>4. ASSUME NEW w \in Workers, Prepare(w) \/ Publish(w)
        PROVE  /\ snap' \subseteq snap \cup {worker[w].run}
               /\ dirs' \subseteq dirs \cup {owner[worker[w].run]}
               /\ worker[w].run <= last
               /\ owner[worker[w].run] \in Portfolios /\ status[owner[worker[w].run]] # "none"
    <3>1. worker[w].run \in RunIds /\ worker[w].run <= last /\ owner[worker[w].run] \in Portfolios
      BY <2>4, WorkerFacts DEF Prepare, Publish
    <3>2. status[owner[worker[w].run]] # "none"
      BY <3>1 DEF IInv, TableInv, IdsInOrder
    <3> QED
      BY <2>4, <3>1, <3>2 DEF Prepare, Publish, files
  <2>5. ASSUME Crash \/ Boot \/ StartupSweep
        PROVE  snap' \subseteq snap /\ dirs' \subseteq dirs
    BY <2>5 DEF Crash, Boot, StartupSweep, files
  <2> QED
    BY <2>1, <2>2, <2>3, <2>4, <2>5 DEF Next, WorkerStep, files
<1>2. snap \subseteq RunIds /\ snap' \subseteq RunIds /\ last \in Nat /\ last' \in Nat
      /\ dirs \subseteq Portfolios
  BY NextKeeps, RunsAssumption DEF IInv, FileInv, FilesOK, TableInv, TablesOK
<1>3. \A r \in snap' : r <= last'
  <2> SUFFICES ASSUME NEW r \in snap' PROVE r <= last'
    OBVIOUS
  <2>1. r <= last
    BY <1>1 DEF FilesHaveHistory
  <2>2. r \in Nat /\ last <= last'
    BY <1>0, <1>2, RunsAssumption DEF History, RunIds
  <2> QED
    BY <1>2, <2>1, <2>2
<1>4. \A p \in dirs' : status'[p] # "none"
  BY <1>0, <1>1, <1>2 DEF FilesHaveHistory, History
<1> QED
  BY <1>3, <1>4 DEF FilesHaveHistory

Working(w) == worker[w].pc \in {"exec", "publish", "ready"}

\* A working worker whose portfolio still exists after the step: so it did
\* before, its row is running and its directory and file are there.
LEMMA WorkBefore ==
    ASSUME IInv, WorkInProgressKept, History, NEW v \in Workers, Working(v),
           worker'[v].run = worker[v].run, Live(owner[worker[v].run])'
    PROVE  LET r == worker[v].run IN
           /\ r \in RunIds /\ r <= last /\ owner'[r] = owner[r]
           /\ owner[r] \in Portfolios /\ Live(owner[r])
           /\ status[owner[r]] # "deleted" /\ run[r] = "running"
           /\ owner[r] \in dirs
           /\ worker[v].pc = "publish" => r \in tmp
           /\ worker[v].pc = "ready" => r \in snap
<1> DEFINE r == worker[v].run
<1>1. r \in 1..last
  BY DEF Working, IInv, HolderInv, HeldIdsUsed, HoldsWorker
<1>2. r \in RunIds /\ r <= last
  BY <1>1, RunsAssumption DEF IInv, TableInv, TablesOK, RunIds
<1>3. owner'[r] = owner[r] /\ owner[r] \in Portfolios /\ status[owner[r]] # "none"
  BY <1>2 DEF History, IInv, TableInv, IdsInOrder
<1>4. status[owner[r]] # "deleted"
  BY <1>3 DEF History, Live
<1>5. Live(owner[r])
  BY <1>3, <1>4 DEF Live, IInv, TableInv, TablesOK, PortfolioStatus
<1>6. run[r] = "running"
  BY <1>4 DEF Working, IInv, HeldStatus, RowIs
<1> QED
  BY <1>2, <1>3, <1>4, <1>5, <1>6 DEF WorkInProgressKept, Working

\* The steps of the core keep the work in progress.
LEMMA NextWorkKept ==
    ASSUME IInv, Next, WorkInProgressKept
    PROVE  WorkInProgressKept'
<1>0. History /\ IInv'
  BY NextHistory, NextKeeps
<1> SUFFICES ASSUME NEW v \in Workers, Working(v)', Live(owner[worker[v].run])'
             PROVE  LET r == worker'[v].run IN
                    /\ owner'[r] \in dirs'
                    /\ worker'[v].pc = "publish" => r \in tmp'
                    /\ worker'[v].pc = "ready" => r \in snap'
  BY DEF WorkInProgressKept, Working
<1> DEFINE r == worker[v].run
<1>1. CASE worker'[v] = worker[v] /\ UNCHANGED files
  BY <1>0, <1>1, WorkBefore DEF Working, files
<1>2. ASSUME NEW c \in Clients, ClientStart(c) \/ ClientStep(c)
      PROVE  worker' = worker /\ (RemoveDir(c) \/ UNCHANGED files)
  BY <1>2 DEF ClientStart, Create, RequestRun, LoadUpgradeTargets, Delete, UpdateRunRetention,
              ClientStep, ApplyUpgrade, SubmitInsert, SubmitEnqueue, SubmitReject, Rollback,
              RemoveDir, files, procs
<1>3. ASSUME NEW c \in Clients, RemoveDir(c)
      PROVE  LET q == worker'[v].run IN
             /\ owner'[q] \in dirs'
             /\ worker'[v].pc = "publish" => q \in tmp'
             /\ worker'[v].pc = "ready" => q \in snap'
  <2>1. worker' = worker /\ status[client[c].p] = "deleted" /\ UNCHANGED tables
    BY <1>3 DEF RemoveDir, Serving, IInv, FileInv, RemovalsAreSafe
  <2>2. /\ r \in RunIds /\ owner'[r] = owner[r] /\ owner[r] # client[c].p
        /\ owner[r] \in dirs
        /\ worker[v].pc = "publish" => r \in tmp
        /\ worker[v].pc = "ready" => r \in snap
    BY <1>0, <2>1, WorkBefore DEF Working
  <2> QED
    BY <1>3, <2>1, <2>2 DEF RemoveDir, RemoveAll, RemovePart, FilesOf
<1>4. ASSUME NEW w \in Workers, WorkerStep(w)
      PROVE  LET q == worker'[v].run IN
             /\ owner'[q] \in dirs'
             /\ worker'[v].pc = "publish" => q \in tmp'
             /\ worker'[v].pc = "ready" => q \in snap'
  <2>0. worker \in [Workers -> WorkerState]
    BY DEF IInv, HolderInv, ProcsOK
  <2>1. CASE v = w
    <3>1. CASE Prepare(w)
      BY <2>0, <2>1, <3>1 DEF Prepare, Step, Working, tables, WorkerState
    <3>2. CASE RunBacktest(w)
      <4>1. Working(v) /\ worker'[v].run = r /\ UNCHANGED <<tables, dirs, snap>>
        BY <2>0, <2>1, <3>2 DEF RunBacktest, At, Step, Working, WorkerState
      <4>2. owner[r] \in dirs /\ owner'[r] = owner[r]
        BY <1>0, <4>1, WorkBefore
      <4>3. worker'[v].pc = "publish" /\ r \in tmp'
        BY <2>0, <2>1, <3>2 DEF RunBacktest, At, Step, Working, WorkerState
      <4> QED
        BY <4>1, <4>2, <4>3
    <3>3. CASE Publish(w)
      <4>1. Working(v) /\ worker'[v].run = r /\ UNCHANGED <<tables, dirs>>
        BY <2>0, <2>1, <3>3 DEF Publish, At, Step, Working, WorkerState
      <4>2. owner[r] \in dirs /\ owner'[r] = owner[r]
        BY <1>0, <4>1, WorkBefore
      <4>3. worker'[v].pc = "ready" /\ r \in snap'
        BY <2>0, <2>1, <3>3 DEF Publish, At, Step, Working, WorkerState
      <4> QED
        BY <4>1, <4>2, <4>3
    <3>4. CASE \/ TakeTask(w) \/ Load(w) \/ MarkRunning(w) \/ MarkReady(w) \/ Fail(w) \/ Prune(w)
               \/ RemoveSnapshot(w) \/ Complete(w)
      <4> USE <2>0, <2>1 DEF Step, Working, IdleWorker, WorkerState
      <4>1. CASE TakeTask(w) \/ Complete(w)
        BY <4>1 DEF TakeTask, Complete
      <4>2. CASE Load(w)
        BY <4>2 DEF Load
      <4>3. CASE MarkRunning(w) \/ MarkReady(w)
        BY <4>3 DEF MarkRunning, MarkReady
      <4>4. CASE Fail(w) \/ Prune(w)
        BY <4>4 DEF Fail, Prune
      <4>5. CASE RemoveSnapshot(w)
        BY <4>5 DEF RemoveSnapshot
      <4> QED
        BY <3>4, <4>1, <4>2, <4>3, <4>4, <4>5
    <3> QED
      BY <1>4, <3>1, <3>2, <3>3, <3>4 DEF WorkerStep
  <2>2. CASE v # w
    <3>1. worker'[v] = worker[v]
      BY <1>4, <2>0, <2>2
      DEF WorkerStep, TakeTask, Load, MarkRunning, Prepare, RunBacktest, Publish, MarkReady, Fail,
          Prune, RemoveSnapshot, Complete, Step
    <3>2. /\ Working(v) /\ r \in RunIds /\ owner'[r] = owner[r] /\ run[r] = "running"
          /\ owner[r] \in dirs
          /\ worker[v].pc = "publish" => r \in tmp
          /\ worker[v].pc = "ready" => r \in snap
      BY <1>0, <3>1, WorkBefore DEF Working
    <3>3. CASE Prepare(w) \/ Publish(w)
      <4>1. worker[w].run # r
        BY <2>2, <3>2, <3>3
        DEF Prepare, Publish, At, Working, HoldsWorker, IInv, HolderInv, HeldOnce
      <4> QED
        BY <3>1, <3>2, <3>3, <4>1 DEF Prepare, Publish, files
    <3>4. CASE RunBacktest(w)
      BY <3>1, <3>2, <3>4 DEF RunBacktest
    <3>5. CASE RemoveSnapshot(w)
      <4>1. r \notin worker[w].paths
        BY <3>2 DEF IInv, FileInv, RemovalsAreSafe
      <4> QED
        BY <3>1, <3>2, <3>5, <4>1 DEF RemoveSnapshot
    <3>6. CASE \/ TakeTask(w) \/ Load(w) \/ MarkRunning(w) \/ MarkReady(w) \/ Fail(w) \/ Prune(w)
               \/ Complete(w)
      BY <1>1, <3>1, <3>6 DEF TakeTask, Load, MarkRunning, MarkReady, Fail, Prune, Complete
    <3> QED
      BY <1>4, <3>3, <3>4, <3>5, <3>6 DEF WorkerStep
  <2> QED
    BY <2>1, <2>2
<1>5. ASSUME Crash \/ Boot \/ StartupSweep
      PROVE  FALSE
  <2>1. worker'[v] = IdleWorker
    BY <1>5 DEF Crash, Boot, StartupSweep, IInv, HolderInv, QuietUnlessUp
  <2> QED
    BY <2>1 DEF Working, IdleWorker
<1> QED
  BY <1>1, <1>2, <1>3, <1>4, <1>5 DEF Next

-----------------------------------------------------------------------------
(* The sweep. *)

\* Removing files of runs and directories of portfolios that have lost their
\* rows keeps the invariant of the core and the work in progress.
LEMMA RemovalKeeps ==
    ASSUME IInv, WorkInProgressKept, FilesHaveHistory, UNCHANGED <<tables, procs>>,
           tmp' \subseteq tmp, snap' \subseteq snap, dirs' \subseteq dirs,
           \A r \in snap : r \in snap' \/ run[r] = "gone" \/ status[owner[r]] = "deleted",
           \A r \in tmp : r \in tmp' \/ status[owner[r]] = "deleted",
           \A p \in dirs : p \in dirs' \/ status[p] = "deleted"
    PROVE  IInv' /\ WorkInProgressKept' /\ FilesHaveHistory'
<1> USE DEF procs, tables
<1>1. TableInv' /\ Frame({})
  BY TableUnchanged DEF IInv
<1>2. HolderInv'
  BY DEF IInv, TableInv, TablesOK, HolderInv, ProcsOK, ClientsHaveTarget, HeldIdsUsed, HeldOnce,
         QuietUnlessUp, HoldsClient, HoldsWorker
<1>3. HeldStatus'
  BY DEF IInv, HeldStatus, RowIs, Newest, HoldsClient
<1>4. History
  BY RunsAssumption DEF History, IInv, TableInv, TablesOK
<1>5. \A v \in Workers : Working(v) /\ Live(owner[worker[v].run]) =>
         LET r == worker[v].run IN
         /\ status[owner[r]] # "deleted" /\ run[r] = "running" /\ owner[r] \in dirs
         /\ worker[v].pc = "publish" => r \in tmp
         /\ worker[v].pc = "ready" => r \in snap
  BY <1>4, WorkBefore DEF Live
<1>6. WorkInProgressKept'
  BY <1>5 DEF WorkInProgressKept, Working, Live
<1>7. FileInv'
  <2>1. FilesOK'
    BY DEF IInv, FileInv, FilesOK
  <2>2. SnapshotOnDisk'
    BY DEF IInv, FileInv, SnapshotOnDisk, TableInv, TablesOK, PathsHaveRows, RowsHavePortfolio,
           Exists, Live
  <2>3. RemovalsAreSafe'
    BY <1>5 DEF IInv, FileInv, RemovalsAreSafe, Working, Live
  <2> QED
    BY <2>1, <2>2, <2>3 DEF FileInv
<1>8. FilesHaveHistory'
  BY DEF FilesHaveHistory
<1> QED
  BY <1>1, <1>2, <1>3, <1>6, <1>7, <1>8 DEF IInv

\* What the sweep has seen and what the queries left of it stays true while
\* the rest of the server goes on.
LEMMA CandidatesStay ==
    ASSUME IInv, gc \in GCState, CandidatesSeen, History, RowStep, last' \in Nat, gc' = gc
    PROVE  CandidatesSeen'
<1>1. last \in Nat
  BY RunsAssumption DEF IInv, TableInv, TablesOK
<1>2. gc.cfiles \subseteq RunIds /\ gc.cdirs \cup gc.todo \subseteq Portfolios
  BY DEF GCState
<1> QED
  BY <1>1, <1>2, RunsAssumption DEF CandidatesSeen, History, RowStep, RunIds

\* A sweep that is over has no candidates.
LEMMA IdleGCKeeps ==
    ASSUME gc' = IdleGC
    PROVE  (gc \in GCState)' /\ CandidatesSeen'
BY DEF IdleGC, GCState, CandidatesSeen

\* The walk and the queries change nothing but the sweep's own state.
LEMMA GCReadKeeps ==
    ASSUME GCInv, UNCHANGED vars, (gc \in GCState)', CandidatesSeen'
    PROVE  GCInv'
<1>1. IInv'
  BY StutterKeeps DEF GCInv
<1> QED
  BY <1>1 DEF GCInv, FilesHaveHistory, WorkInProgressKept, Live, vars

\* Listing the top directory preserves the invariant.
LEMMA GCStartKeeps == ASSUME GCInv, GCStart PROVE GCInv'
<1>1. (gc \in GCState)' /\ CandidatesSeen'
  BY DEF GCStart, GCInv, GCState, CandidatesSeen, FilesHaveHistory, IInv, FileInv, FilesOK, vars
<1> QED
  BY <1>1, GCReadKeeps DEF GCStart

\* Listing one portfolio directory preserves the invariant.
LEMMA GCWalkKeeps == ASSUME GCInv, GCWalk PROVE GCInv'
<1>1. gc \in GCState /\ snap \subseteq RunIds /\ UNCHANGED vars /\ gc.pc = "walk"
  BY DEF GCInv, IInv, FileInv, FilesOK, GCWalk, AtGC
<1>2. PICK p \in gc.todo :
        gc' = [gc EXCEPT !.todo = @ \ {p}, !.cdirs = @ \cup {p},
                         !.cfiles = @ \cup (snap \cap FilesOf(p))]
  BY DEF GCWalk
<1>3. (gc \in GCState)'
  BY <1>1, <1>2 DEF GCState
<1>4. CandidatesSeen'
  BY <1>1, <1>2 DEF GCInv, GCState, CandidatesSeen, FilesHaveHistory, vars
<1> QED
  BY <1>1, <1>3, <1>4, GCReadKeeps

\* The end of the walk preserves the invariant.
LEMMA GCWalkedKeeps == ASSUME GCInv, GCWalked PROVE GCInv'
<1>1. (gc \in GCState)' /\ CandidatesSeen'
  BY DEF GCWalked, AtGC, GCInv, GCState, CandidatesSeen, vars
<1> QED
  BY <1>1, GCReadKeeps DEF GCWalked

\* AllPortfolioIDs: a directory that was walked and has no row is of a deleted
\* portfolio.
LEMMA GCQueryPortfoliosKeeps == ASSUME GCInv, GCQueryPortfolios PROVE GCInv'
<1>0. UNCHANGED vars /\ gc \in GCState /\ gc.pc = "portfolios"
  BY DEF GCQueryPortfolios, AtGC, GCInv
<1>1. CASE gc' = [gc EXCEPT !.pc = "runs", !.cdirs = {p \in @ : ~Live(p)}]
  <2>1. (gc \in GCState)'
    BY <1>0, <1>1 DEF GCState
  <2>2. \A p \in gc.cdirs : ~Live(p) => status[p] = "deleted"
    BY <1>0 DEF GCInv, CandidatesSeen, GCState, IInv, TableInv, TablesOK, Live, PortfolioStatus
  <2>3. CandidatesSeen'
    BY <1>0, <1>1, <2>2 DEF GCInv, GCState, CandidatesSeen, vars
  <2> QED
    BY <1>0, <2>1, <2>3, GCReadKeeps
<1> QED
  BY <1>0, <1>1, IdleGCKeeps, GCReadKeeps DEF GCQueryPortfolios

\* AllRunIDs: a file that was walked and has no row is of a deleted run.
LEMMA GCQueryRunsKeeps == ASSUME GCInv, GCQueryRuns PROVE GCInv'
<1>0. UNCHANGED vars /\ gc \in GCState /\ gc.pc = "runs"
  BY DEF GCQueryRuns, AtGC, GCInv
<1>1. CASE gc' = [gc EXCEPT !.pc = "remove", !.cfiles = {r \in @ : ~Exists(r)}]
  <2>1. (gc \in GCState)'
    BY <1>0, <1>1 DEF GCState
  <2>2. \A r \in gc.cfiles : ~Exists(r) => run[r] = "gone"
    BY <1>0, RunsAssumption
    DEF GCInv, CandidatesSeen, GCState, IInv, TableInv, TablesOK, IdsInOrder, Exists, RunStatus,
        RunIds
  <2>3. CandidatesSeen'
    BY <1>0, <1>1, <2>2 DEF GCInv, GCState, CandidatesSeen, vars
  <2> QED
    BY <1>0, <2>1, <2>3, GCReadKeeps
<1> QED
  BY <1>0, <1>1, IdleGCKeeps, GCReadKeeps DEF GCQueryRuns

\* The removals take only what has lost its row.
LEMMA GCRemoveKeeps == ASSUME GCInv, GCRemoveDir \/ GCRemoveFile \/ GCDone PROVE GCInv'
<1>0. gc \in GCState /\ gc.pc = "remove" /\ CandidatesSeen
  BY DEF GCRemoveDir, GCRemoveFile, GCDone, AtGC, GCInv
<1>1. CASE GCRemoveDir
  <2>1. PICK p \in gc.cdirs : /\ gc' = [gc EXCEPT !.cdirs = @ \ {p}]
                              /\ RemoveAll(p) \/ RemovePart(p)
    BY <1>1 DEF GCRemoveDir
  <2>2. status[p] = "deleted" /\ UNCHANGED <<tables, procs>>
    BY <1>0, <1>1 DEF CandidatesSeen, GCRemoveDir
  <2>3. (gc \in GCState)' /\ CandidatesSeen'
    BY <1>0, <2>1, <2>2 DEF GCState, CandidatesSeen, tables
  <2>4. IInv' /\ WorkInProgressKept' /\ FilesHaveHistory'
    BY <2>1, <2>2, RemovalKeeps DEF RemoveAll, RemovePart, FilesOf, GCInv
  <2> QED
    BY <2>3, <2>4 DEF GCInv
<1>2. CASE GCRemoveFile
  <2>1. PICK r \in gc.cfiles : /\ gc' = [gc EXCEPT !.cfiles = @ \ {r}]
                               /\ snap' = snap \ {r} \/ snap' = snap
    BY <1>2 DEF GCRemoveFile
  <2>2. run[r] = "gone" /\ UNCHANGED <<tables, procs>> /\ UNCHANGED <<dirs, tmp>>
    BY <1>0, <1>2 DEF CandidatesSeen, GCRemoveFile
  <2>3. (gc \in GCState)' /\ CandidatesSeen'
    BY <1>0, <2>1, <2>2 DEF GCState, CandidatesSeen, tables
  <2>4. IInv' /\ WorkInProgressKept' /\ FilesHaveHistory'
    BY <2>1, <2>2, RemovalKeeps DEF GCInv
  <2> QED
    BY <2>3, <2>4 DEF GCInv
<1>3. CASE GCDone
  BY <1>3, IdleGCKeeps, GCReadKeeps DEF GCDone
<1> QED
  BY <1>1, <1>2, <1>3

\* Everything else, while the sweep waits between two of its steps.
LEMMA SystemStepKeeps == ASSUME GCInv, SystemStep PROVE GCInv'
<1>1. IInv' /\ RowStep /\ History /\ FilesHaveHistory' /\ WorkInProgressKept'
  BY NextKeeps, NextHistory, NextFilesHaveHistory, NextWorkKept DEF SystemStep, GCInv
<1>2. last' \in Nat
  BY <1>1, RunsAssumption DEF IInv, TableInv, TablesOK
<1>3. (gc \in GCState)' /\ CandidatesSeen'
  BY <1>1, <1>2, CandidatesStay, IdleGCKeeps DEF SystemStep, GCInv
<1> QED
  BY <1>1, <1>3 DEF GCInv

-----------------------------------------------------------------------------
(* The theorems. *)

\* The inductive invariant of the core and the sweep together.
THEOREM GCInvariance == GCSpec => []GCInv
<1>1. GCInit => GCInv
  BY InitEstablishes
  DEF GCInit, GCInv, IdleGC, GCState, CandidatesSeen, FilesHaveHistory, WorkInProgressKept, Init,
      IdleWorker
<1>2. ASSUME GCInv, GCNext PROVE GCInv'
  BY <1>2, SystemStepKeeps, GCStartKeeps, GCWalkKeeps, GCWalkedKeeps, GCQueryPortfoliosKeeps,
     GCQueryRunsKeeps, GCRemoveKeeps DEF GCNext, GCStep
<1>3. ASSUME GCInv, UNCHANGED gcvars PROVE GCInv'
  <2>1. UNCHANGED vars /\ gc' = gc
    BY <1>3 DEF gcvars
  <2>2. (gc \in GCState)' /\ CandidatesSeen'
    BY <1>3, <2>1 DEF GCInv, CandidatesSeen, vars
  <2> QED
    BY <1>3, <2>1, <2>2, GCReadKeeps
<1> QED
  BY <1>1, <1>2, <1>3, PTL DEF GCSpec

\* The sweep removes only what has lost its row for good.
THEOREM CandidatesAreOrphansHolds == GCSpec => []CandidatesAreOrphans
<1>1. GCInv => CandidatesAreOrphans
  BY DEF GCInv, CandidatesSeen, CandidatesAreOrphans
<1> QED
  BY <1>1, GCInvariance, PTL

\* The sweep never removes the directory, the temporary file or the unrecorded
\* snapshot of a run that a worker executes for an existing portfolio.
THEOREM WorkInProgressKeptHolds == GCSpec => []WorkInProgressKept
<1>1. GCInv => WorkInProgressKept
  BY DEF GCInv
<1> QED
  BY <1>1, GCInvariance, PTL

\* With the sweep at work too, every recorded snapshot is on disk.
THEOREM SweepIsSafe == GCSpec => []SnapshotOnDisk
<1>1. GCInv => SnapshotOnDisk
  BY DEF GCInv, IInv, FileInv
<1> QED
  BY <1>1, GCInvariance, PTL
=============================================================================
