------------------------- MODULE BacktestRunsProofs -------------------------
(***************************************************************************)
(* The inductive invariant of BacktestRuns, the properties it implies and    *)
(* the refinement of RunService, for any number of portfolios, clients,      *)
(* workers and runs, any capacity of the task channel and any failure of a   *)
(* transaction.                                                              *)
(***************************************************************************)
EXTENDS RunRefinement, FiniteSetTheorems, WellFoundedInduction, TLAPS

-----------------------------------------------------------------------------
(***************************************************************************)
(* The transactions.  Each preserves TableInv and leaves the rows outside R *)
(* to their holders: an unfinished one keeps its status or goes with its    *)
(* portfolio.  RowStep is the history of one row: what PruneKeepsInflight   *)
(* and EndedStaysEnded say of a step.                                       *)
(***************************************************************************)
RowStep ==
    \A r \in RunIds :
        /\ Inflight(r) /\ run'[r] = "gone" => status'[owner[r]] = "deleted"
        /\ run[r] \in {"success", "failed"} => run'[r] \notin {"queued", "running"}
        /\ run[r] = "gone" => run'[r] = "gone"

Frame(R) ==
    /\ RowStep
    /\ \A r \in RunIds \ R :
         Inflight(r) => \/ run'[r] = run[r]
                        \/ run'[r] = "gone" /\ status'[owner[r]] = "deleted"
    /\ \A r \in RunIds : r <= last => owner'[r] = owner[r]
    /\ \A p \in Portfolios : status[p] = "deleted" => status'[p] = "deleted"
    /\ last <= last'
    /\ \A q \in RunIds : last < q /\ q <= last' =>
         Live(owner'[q]) /\ \A r \in RunIds : Inflight(r) => owner[r] # owner'[q]

\* RowIs in the next state.
RowWillBe(r, s) ==
    /\ \A q \in RunIds : q <= last' /\ owner'[q] = owner'[r] => q <= r
    /\ run'[r] = s \/ (run'[r] = "gone" /\ status'[owner'[r]] = "deleted")

\* INSERT INTO portfolios.
LEMMA TableInsertPortfolio ==
    ASSUME TableInv, NEW p \in Portfolios, NEW n \in Retentions, status[p] = "none",
           status' = [status EXCEPT ![p] = "pending"],
           retention' = [retention EXCEPT ![p] = n],
           UNCHANGED <<active, run, owner, hasPath, last>>
    PROVE  TableInv' /\ Frame({})
<1> USE RunsAssumption DEF TableInv, TablesOK, IdsInOrder, RunIds, Live, Exists,
          Inflight, PortfolioStatus, RunStatus
<1>1. TablesOK'
  OBVIOUS
<1>2. IdsInOrder'
  OBVIOUS
<1>3. InflightNewest'
  BY DEF InflightNewest
<1>4. RowsHavePortfolio'
  BY DEF RowsHavePortfolio
<1>5. PathsHaveRows'
  BY DEF PathsHaveRows
<1>6. RunningIsBacked'
  BY DEF RunningIsBacked, RunsOf
<1>7. NewestKept'
  BY DEF NewestKept, Newest
<1>8. ActiveIsOwn'
  BY DEF ActiveIsOwn
<1>9. Frame({})
  BY DEF Frame, RowStep
<1> QED
  BY <1>1, <1>2, <1>3, <1>4, <1>5, <1>6, <1>7, <1>8, <1>9

\* UPDATE portfolios SET status = 'pending' of ApplyUpgrade.
LEMMA TableUpgrade ==
    ASSUME TableInv, NEW p \in Portfolios,
           status' = SetStatus(p, "pending"),
           UNCHANGED <<retention, active, run, owner, hasPath, last>>
    PROVE  TableInv' /\ Frame({})
<1> USE RunsAssumption DEF TableInv, TablesOK, IdsInOrder, RunIds, Live, Exists,
          Inflight, SetStatus, PortfolioStatus, RunStatus
<1>1. TablesOK'
  OBVIOUS
<1>2. IdsInOrder'
  OBVIOUS
<1>3. InflightNewest'
  BY DEF InflightNewest
<1>4. RowsHavePortfolio'
  BY DEF RowsHavePortfolio
<1>5. PathsHaveRows'
  BY DEF PathsHaveRows
<1>6. RunningIsBacked'
  BY DEF RunningIsBacked, RunsOf
<1>7. NewestKept'
  BY DEF NewestKept, Newest
<1>8. ActiveIsOwn'
  BY DEF ActiveIsOwn
<1>9. Frame({})
  BY DEF Frame, RowStep
<1> QED
  BY <1>1, <1>2, <1>3, <1>4, <1>5, <1>6, <1>7, <1>8, <1>9

\* UPDATE portfolios SET run_retention.
LEMMA TableRetention ==
    ASSUME TableInv, NEW p \in Portfolios, NEW n \in Retentions,
           retention' = [retention EXCEPT ![p] = n],
           UNCHANGED <<status, active, run, owner, hasPath, last>>
    PROVE  TableInv' /\ Frame({})
<1> USE RunsAssumption DEF TableInv, TablesOK, IdsInOrder, RunIds, Live, Exists,
          Inflight, PortfolioStatus, RunStatus
<1>1. TablesOK'
  OBVIOUS
<1>2. IdsInOrder'
  OBVIOUS
<1>3. InflightNewest'
  BY DEF InflightNewest
<1>4. RowsHavePortfolio'
  BY DEF RowsHavePortfolio
<1>5. PathsHaveRows'
  BY DEF PathsHaveRows
<1>6. RunningIsBacked'
  BY DEF RunningIsBacked, RunsOf
<1>7. NewestKept'
  BY DEF NewestKept, Newest
<1>8. ActiveIsOwn'
  BY DEF ActiveIsOwn
<1>9. Frame({})
  BY DEF Frame, RowStep
<1> QED
  BY <1>1, <1>2, <1>3, <1>4, <1>5, <1>6, <1>7, <1>8, <1>9

\* DELETE FROM portfolios with its cascade.
LEMMA TableDelete ==
    ASSUME TableInv, NEW p \in Portfolios, DeletePortfolio(p)
    PROVE  TableInv' /\ Frame({})
<1> USE RunsAssumption DEF TableInv, TablesOK, IdsInOrder, RunIds, Live, Exists,
          Inflight, DeletePortfolio, DeleteRuns, PortfolioStatus, RunStatus
<1>1. TablesOK'
  BY DEF RunsOf
<1>2. IdsInOrder'
  BY DEF RunsOf
<1>3. InflightNewest'
  BY DEF InflightNewest, RunsOf
<1>4. RowsHavePortfolio'
  BY DEF RowsHavePortfolio, RunsOf
<1>5. PathsHaveRows'
  BY DEF PathsHaveRows, RunsOf
<1>6. RunningIsBacked'
  BY DEF RunningIsBacked, RunsOf
<1>7. NewestKept'
  BY DEF NewestKept, Newest, RunsOf
<1>8. ActiveIsOwn'
  BY DEF ActiveIsOwn
<1>9. Frame({})
  BY DEF Frame, RowStep, RunsOf
<1> QED
  BY <1>1, <1>2, <1>3, <1>4, <1>5, <1>6, <1>7, <1>8, <1>9

\* The INSERT of a queued row under the unique index: the new row is the newest.
LEMMA TableCreateRun ==
    ASSUME TableInv, NEW p \in Portfolios, CanCreateRun(p), CreateRun(p)
    PROVE  TableInv' /\ Frame({last + 1}) /\ last' = last + 1 /\ last' \in RunIds /\ run'[last + 1] = "queued"
<1> USE RunsAssumption DEF TableInv, TablesOK, IdsInOrder, RunIds, Live, Exists,
          Inflight, CreateRun, PortfolioStatus, RunStatus
<1>1. TablesOK'
  OBVIOUS
<1>2. IdsInOrder'
  BY DEF CanCreateRun
<1>3. InflightNewest'
  BY DEF InflightNewest, CanCreateRun, NoneInflight, RunsOf
<1>4. RowsHavePortfolio'
  BY DEF RowsHavePortfolio, CanCreateRun
<1>5. PathsHaveRows'
  BY DEF PathsHaveRows
<1>6. RunningIsBacked'
  BY DEF RunningIsBacked, RunsOf
<1>7. NewestKept'
  BY DEF NewestKept, Newest
<1>8. ActiveIsOwn'
  BY DEF ActiveIsOwn
<1>9. Frame({last + 1})
  BY DEF Frame, RowStep, CanCreateRun, NoneInflight, RunsOf
<1>10. last' = last + 1 /\ last' \in RunIds
  OBVIOUS
<1>11. run'[last + 1] = "queued"
  OBVIOUS
<1> QED
  BY <1>1, <1>2, <1>3, <1>4, <1>5, <1>6, <1>7, <1>8, <1>9, <1>10, <1>11

\* UpdateRunFailed on a row its caller still holds as queued.
LEMMA TableUpdateRunFailed ==
    ASSUME TableInv, NEW r \in RunIds, RowIs(r, "queued"), UpdateRunFailed(r)
    PROVE  TableInv' /\ Frame({r})
<1> USE RunsAssumption DEF TableInv, TablesOK, IdsInOrder, RunIds, Live, Exists,
          Inflight, UpdateRunFailed, SetRun, RowIs, Newest, PortfolioStatus, RunStatus
<1>1. TablesOK'
  OBVIOUS
<1>2. IdsInOrder'
  OBVIOUS
<1>3. InflightNewest'
  BY DEF InflightNewest
<1>4. RowsHavePortfolio'
  BY DEF RowsHavePortfolio
<1>5. PathsHaveRows'
  BY DEF PathsHaveRows
<1>6. RunningIsBacked'
  BY DEF RunningIsBacked, RunsOf
<1>7. NewestKept'
  BY DEF NewestKept, Newest
<1>8. ActiveIsOwn'
  BY DEF ActiveIsOwn
<1>9. Frame({r})
  BY DEF Frame, RowStep
<1> QED
  BY <1>1, <1>2, <1>3, <1>4, <1>5, <1>6, <1>7, <1>8, <1>9

\* MarkRunningTx by the worker that holds the row.
LEMMA TableMarkRunning ==
    ASSUME TableInv, NEW r \in RunIds, r <= last, RowIs(r, "queued"), MarkRunningTx(owner[r], r)
    PROVE  TableInv' /\ Frame({r}) /\ RowWillBe(r, "running")
<1> USE RunsAssumption DEF TableInv, TablesOK, IdsInOrder, RunIds, Live, Exists,
          Inflight, MarkRunningTx, SetStatus, SetRun, RowIs, Newest, PortfolioStatus,
          RunStatus
<1>1. TablesOK'
  OBVIOUS
<1>2. IdsInOrder'
  OBVIOUS
<1>3. InflightNewest'
  BY DEF InflightNewest
<1>4. RowsHavePortfolio'
  BY DEF RowsHavePortfolio
<1>5. PathsHaveRows'
  BY DEF PathsHaveRows
<1>6. RunningIsBacked'
  BY DEF RunningIsBacked, RunsOf
<1>7. NewestKept'
  BY DEF NewestKept, Newest
<1>8. ActiveIsOwn'
  BY DEF ActiveIsOwn
<1>9. Frame({r})
  BY DEF Frame, RowStep
<1>10. RowWillBe(r, "running")
  BY DEF RowWillBe
<1> QED
  BY <1>1, <1>2, <1>3, <1>4, <1>5, <1>6, <1>7, <1>8, <1>9, <1>10

\* MarkReadyTx by the worker that holds the row.
LEMMA TableMarkReady ==
    ASSUME TableInv, NEW r \in RunIds, r <= last, RowIs(r, "running"), MarkReadyTx(owner[r], r)
    PROVE  TableInv' /\ Frame({r})
<1> USE RunsAssumption DEF TableInv, TablesOK, IdsInOrder, RunIds, Live, Exists,
          Inflight, MarkReadyTx, SetStatus, SetRun, RowIs, Newest, PortfolioStatus,
          RunStatus
<1>1. TablesOK'
  OBVIOUS
<1>2. IdsInOrder'
  OBVIOUS
<1>3. InflightNewest'
  BY DEF InflightNewest
<1>4. RowsHavePortfolio'
  BY DEF RowsHavePortfolio
<1>5. PathsHaveRows'
  BY DEF PathsHaveRows
<1>6. RunningIsBacked'
  BY DEF RunningIsBacked, RunsOf
<1>7. NewestKept'
  BY DEF NewestKept, Newest
<1>8. ActiveIsOwn'
  BY DEF ActiveIsOwn
<1>9. Frame({r})
  BY DEF Frame, RowStep
<1> QED
  BY <1>1, <1>2, <1>3, <1>4, <1>5, <1>6, <1>7, <1>8, <1>9

\* MarkFailedTx, whatever the row's status by then.
LEMMA TableMarkFailed ==
    ASSUME TableInv, NEW r \in RunIds, r <= last, MarkFailedTx(owner[r], r)
    PROVE  TableInv' /\ Frame({r})
<1> USE RunsAssumption DEF TableInv, TablesOK, IdsInOrder, RunIds, Live, Exists,
          Inflight, MarkFailedTx, SetStatus, SetRun, PortfolioStatus, RunStatus
<1>1. TablesOK'
  OBVIOUS
<1>2. IdsInOrder'
  OBVIOUS
<1>3. InflightNewest'
  BY DEF InflightNewest
<1>4. RowsHavePortfolio'
  BY DEF RowsHavePortfolio
<1>5. PathsHaveRows'
  BY DEF PathsHaveRows
<1>6. RunningIsBacked'
  BY DEF RunningIsBacked, RunsOf
<1>7. NewestKept'
  BY DEF NewestKept, Newest
<1>8. ActiveIsOwn'
  BY DEF ActiveIsOwn
<1>9. Frame({r})
  BY DEF Frame, RowStep
<1> QED
  BY <1>1, <1>2, <1>3, <1>4, <1>5, <1>6, <1>7, <1>8, <1>9

\* The sweep after a restart.
LEMMA TableSweep ==
    ASSUME TableInv, MarkAllRunningAsFailed
    PROVE  TableInv' /\ Frame(RunIds)
<1> USE RunsAssumption DEF TableInv, TablesOK, IdsInOrder, RunIds, Live, Exists,
          Inflight, MarkAllRunningAsFailed, PortfolioStatus, RunStatus
<1>1. TablesOK'
  OBVIOUS
<1>2. IdsInOrder'
  OBVIOUS
<1>3. InflightNewest'
  BY DEF InflightNewest
<1>4. RowsHavePortfolio'
  BY DEF RowsHavePortfolio
<1>5. PathsHaveRows'
  BY DEF PathsHaveRows
<1>6. RunningIsBacked'
  BY DEF RunningIsBacked, RunsOf
<1>7. NewestKept'
  BY DEF NewestKept, Newest
<1>8. ActiveIsOwn'
  BY DEF ActiveIsOwn
<1>9. Frame(RunIds)
  BY DEF Frame, RowStep
<1> QED
  BY <1>1, <1>2, <1>3, <1>4, <1>5, <1>6, <1>7, <1>8, <1>9

\* PruneRuns keeps at least the newest row, since run_retention >= 1.
LEMMA VictimHasNewer ==
    ASSUME TableInv, NEW p \in Portfolios
    PROVE  \A r \in PruneVictims(p) : \E q \in RunsOf(p) : q > r
<1> SUFFICES ASSUME NEW r \in PruneVictims(p), \A q \in RunsOf(p) : ~(q > r)
             PROVE  FALSE
  OBVIOUS
<1>1. r \in RunsOf(p) /\ r \in RunIds
  BY DEF PruneVictims, RunsOf
<1>2. {q \in RunsOf(p) : q >= r} = {r}
  BY <1>1 DEF RunsOf, RunIds
<1>3. Cardinality({r}) = 1
  BY FS_Singleton
<1>4. retention[p] \in Nat \ {0}
  BY RunsAssumption DEF TableInv, TablesOK
<1> QED
  BY <1>1, <1>2, <1>3, <1>4 DEF PruneVictims

\* PruneRuns deletes ended rows only: an unfinished row is the newest.
LEMMA VictimEnded ==
    ASSUME TableInv, NEW p \in Portfolios
    PROVE  \A r \in PruneVictims(p) : r \in RunIds /\ owner[r] = p /\ Exists(r) /\ ~Inflight(r)
<1> TAKE r \in PruneVictims(p)
<1>1. PICK q \in RunsOf(p) : q > r
  BY VictimHasNewer
<1>2. r \in RunIds /\ owner[r] = p /\ Exists(r)
  BY DEF PruneVictims, RunsOf
<1>3. q \in RunIds /\ q <= last /\ owner[q] = p
  BY DEF RunsOf, TableInv, IdsInOrder, Exists, RunIds, TablesOK
<1> QED
  BY <1>1, <1>2, <1>3 DEF TableInv, InflightNewest, RunIds

\* PruneRuns.
LEMMA TablePrune ==
    ASSUME TableInv, NEW p \in Portfolios, PruneRuns(p)
    PROVE  TableInv' /\ Frame({})
<1> USE RunsAssumption, VictimEnded DEF TableInv, TablesOK, IdsInOrder, RunIds,
          Live, Exists, Inflight, PruneRuns, DeleteRuns, PortfolioStatus, RunStatus
<1>1. TablesOK'
  OBVIOUS
<1>2. IdsInOrder'
  OBVIOUS
<1>3. InflightNewest'
  BY DEF InflightNewest
<1>4. RowsHavePortfolio'
  BY DEF RowsHavePortfolio
<1>5. PathsHaveRows'
  BY DEF PathsHaveRows
<1>6. RunningIsBacked'
  <2> SUFFICES ASSUME NEW x \in Portfolios, status[x] = "running"
               PROVE  \E r \in RunIds : run'[r] = "running" /\ owner[r] = x
    BY DEF RunningIsBacked, RunsOf
  <2>1. PICK r \in RunIds : run[r] = "running" /\ owner[r] = x
    BY DEF RunningIsBacked, RunsOf
  <2> QED
    BY <2>1
<1>7. NewestKept'
  BY VictimHasNewer DEF NewestKept, Newest, RunsOf
<1>8. ActiveIsOwn'
  BY DEF ActiveIsOwn
<1>9. Frame({})
  BY DEF Frame, RowStep
<1> QED
  BY <1>1, <1>2, <1>3, <1>4, <1>5, <1>6, <1>7, <1>8, <1>9

\* A transaction that did not happen.
LEMMA TableUnchanged ==
    ASSUME TableInv, UNCHANGED tables
    PROVE  TableInv' /\ Frame({})
<1> USE DEF tables
<1>1. TableInv'
  BY DEF TableInv, TablesOK, IdsInOrder, InflightNewest, RowsHavePortfolio, PathsHaveRows,
         RunningIsBacked, NewestKept, Newest, ActiveIsOwn, Live, Exists, Inflight, RunsOf
<1>2. Frame({})
  BY RunsAssumption DEF Frame, RowStep, TableInv, TablesOK, Inflight, RunIds
<1> QED
  BY <1>1, <1>2

-----------------------------------------------------------------------------
(***************************************************************************)
(* The processes.  How one worker or one client moves, and what that does   *)
(* to the holders of run ids.                                               *)
(***************************************************************************)
WorkerMoves(w, pc) ==
    /\ worker' \in [Workers -> WorkerState]
    /\ worker'[w].pc = pc
    /\ worker'[w].run = worker[w].run
    /\ \A v \in Workers : v # w => worker'[v] = worker[v]

WorkerIdles(w) ==
    /\ worker' \in [Workers -> WorkerState]
    /\ worker'[w] = IdleWorker
    /\ \A v \in Workers : v # w => worker'[v] = worker[v]

ClientMoves(c, pc) ==
    /\ client' \in [Clients -> ClientState]
    /\ client'[c].pc = pc
    /\ client'[c].run = client[c].run
    /\ client'[c].p = client[c].p
    /\ \A d \in Clients : d # c => client'[d] = client[d]

ClientLeaves(c) ==
    /\ client' \in [Clients -> ClientState]
    /\ client'[c] = IdleClient
    /\ \A d \in Clients : d # c => client'[d] = client[d]

ClientEnters(c, pc, p) ==
    /\ client' \in [Clients -> ClientState]
    /\ client'[c].pc = pc
    /\ client'[c].p = p
    /\ \A d \in Clients : d # c => client'[d] = client[d]

\* A worker that steps keeps its run and its list of paths.
LEMMA StepMoves ==
    ASSUME ProcsOK, NEW w \in Workers, NEW pc \in WorkerPC, Step(w, pc)
    PROVE  WorkerMoves(w, pc) /\ worker'[w].paths = worker[w].paths
BY DEF ProcsOK, Step, WorkerMoves, WorkerState

\* A worker that goes back to the channel holds nothing.
LEMMA IdleMoves ==
    ASSUME ProcsOK, NEW w \in Workers, worker' = [worker EXCEPT ![w] = IdleWorker]
    PROVE  WorkerIdles(w)
BY RunsAssumption DEF ProcsOK, WorkerIdles, WorkerState, IdleWorker, WorkerPC

\* A client that moves on keeps its portfolio and its run.
LEMMA GotoMoves ==
    ASSUME ProcsOK, NEW c \in Clients, NEW pc \in ClientPC, Goto(c, pc)
    PROVE  ClientMoves(c, pc)
BY DEF ProcsOK, Goto, ClientMoves, ClientState

\* A client that answers its request holds nothing.
LEMMA LeaveMoves ==
    ASSUME ProcsOK, NEW c \in Clients, Leave(c)
    PROVE  ClientLeaves(c)
BY RunsAssumption DEF ProcsOK, Leave, ClientLeaves, ClientState, IdleClient, ClientPC

\* A client that takes a request holds no run yet.
LEMMA EnterMoves ==
    ASSUME ProcsOK, NEW c \in Clients, NEW p \in Portfolios, NEW pc \in ClientPC,
           NEW op \in {"create", "run", "upgrade", "delete"}, Enter(c, pc, op, p)
    PROVE  ClientEnters(c, pc, p)
BY RunsAssumption DEF ProcsOK, Enter, ClientEnters, ClientState

\* A worker that goes on or stops, while the clients and the channel rest,
\* takes no run id from anyone.
LEMMA HolderWorker ==
    ASSUME HolderInv, last' \in Nat, last \in Nat, last <= last',
           NEW w \in Workers, NEW pc \in WorkerPC \ {"idle"},
           HoldsWorker(w), server = "up",
           WorkerMoves(w, pc) \/ WorkerIdles(w),
           UNCHANGED <<server, tasks, client>>
    PROVE  HolderInv'
<1> USE DEF HolderInv
<1>1. ProcsOK'
  BY DEF ProcsOK, WorkerMoves, WorkerIdles
<1>2. ClientsHaveTarget'
  BY DEF ClientsHaveTarget
<1>3. HeldIdsUsed'
  BY DEF HeldIdsUsed, HoldsClient, HoldsWorker, WorkerMoves, WorkerIdles, IdleWorker
<1>4. HeldOnce'
  BY DEF HeldOnce, HoldsClient, HoldsWorker, WorkerMoves, WorkerIdles, IdleWorker
<1>5. QuietUnlessUp'
  BY DEF QuietUnlessUp
<1> QED
  BY <1>1, <1>2, <1>3, <1>4, <1>5

\* A client that takes no run id preserves what is known of the holders.
LEMMA HolderClient ==
    ASSUME HolderInv, last' \in Nat, last \in Nat, last <= last',
           NEW c \in Clients, NEW p \in Portfolios, server = "up",
           \/ ClientLeaves(c)
           \/ \E pc \in ClientPC \ {"enqueue", "reject"} : ClientEnters(c, pc, p)
           \/ \E pc \in ClientPC : ClientMoves(c, pc) /\ client[c].pc # "idle"
                                   /\ (pc \in {"enqueue", "reject"} => HoldsClient(c)),
           UNCHANGED <<server, tasks, worker>>
    PROVE  HolderInv'
<1> USE DEF HolderInv
<1>1. ProcsOK'
  BY DEF ProcsOK, ClientMoves, ClientLeaves, ClientEnters
<1>2. ClientsHaveTarget'
  BY DEF ClientsHaveTarget, ClientMoves, ClientLeaves, ClientEnters, IdleClient
<1>0. \A d \in Clients : HoldsClient(d)' => HoldsClient(d) /\ client'[d].run = client[d].run
  BY DEF HoldsClient, ClientMoves, ClientLeaves, ClientEnters, IdleClient
<1>3. HeldIdsUsed'
  BY <1>0 DEF HeldIdsUsed, HoldsWorker
<1>4. HeldOnce'
  BY <1>0 DEF HeldOnce, HoldsWorker
<1>5. QuietUnlessUp'
  BY DEF QuietUnlessUp
<1> QED
  BY <1>1, <1>2, <1>3, <1>4, <1>5

\* A row nobody else may write keeps its status.
LEMMA RowKept ==
    ASSUME TableInv, NEW R, Frame(R), NEW r \in RunIds \ R, r <= last,
           NEW s \in {"queued", "running"}, RowIs(r, s)
    PROVE  RowWillBe(r, s)
<1> USE RunsAssumption DEF TableInv, IdsInOrder, TablesOK, RunIds
<1>1. owner'[r] = owner[r] /\ owner[r] \in Portfolios /\ Newest(r)
  BY DEF Frame, RowIs
<1>2. run'[r] = s \/ (run'[r] = "gone" /\ status'[owner[r]] = "deleted")
  BY <1>1 DEF Frame, RowStep, RowIs, Inflight
<1>3. ASSUME NEW q \in RunIds, q <= last', owner'[q] = owner[r]
      PROVE  q <= r
  <2>1. CASE q <= last
    BY <1>1, <1>3, <2>1 DEF Frame, Newest
  <2>2. CASE last < q
    <3>1. Live(owner'[q]) /\ \A x \in RunIds : Inflight(x) => owner[x] # owner'[q]
      BY <1>3, <2>2 DEF Frame
    <3>2. ~Inflight(r)
      BY <1>3, <3>1
    <3>3. run[r] = "gone" /\ status[owner[r]] = "deleted"
      BY <3>2 DEF RowIs, Inflight
    <3> QED
      BY <1>1, <1>3, <3>1, <3>3 DEF Frame, Live
  <2> QED
    BY <2>1, <2>2
<1> QED
  BY <1>1, <1>2, <1>3 DEF RowWillBe

\* What the holders know survives a step of one worker on its own row.
LEMMA HeldStatusWorker ==
    ASSUME TableInv, HolderInv, HeldStatus, NEW w \in Workers, HoldsWorker(w),
           Frame({worker[w].run}), UNCHANGED <<tasks, client>>,
           \A v \in Workers : v # w => worker'[v] = worker[v],
           worker'[w].pc \in {"load", "mark"} => RowWillBe(worker'[w].run, "queued"),
           worker'[w].pc \in {"prepare", "exec", "publish", "ready"}
              => RowWillBe(worker'[w].run, "running")
    PROVE  HeldStatus'
<1> DEFINE r == worker[w].run
<1>0. last \in Nat /\ MaxRuns \in Nat /\ last <= MaxRuns
  BY RunsAssumption DEF TableInv, TablesOK
<1>1. \A c \in Clients : HoldsClient(c) => RowWillBe(client[c].run, "queued")
  <2> SUFFICES ASSUME NEW c \in Clients, HoldsClient(c)
               PROVE  RowWillBe(client[c].run, "queued")
    OBVIOUS
  <2>1. client[c].run \in RunIds \ {r} /\ client[c].run <= last
    BY <1>0 DEF HolderInv, HeldIdsUsed, HeldOnce, RunIds
  <2>2. RowIs(client[c].run, "queued")
    BY DEF HeldStatus
  <2> QED
    BY <2>1, <2>2, RowKept
<1>2. \A i \in 1..Len(tasks) : RowWillBe(tasks[i], "queued")
  <2> SUFFICES ASSUME NEW i \in 1..Len(tasks)
               PROVE  RowWillBe(tasks[i], "queued")
    OBVIOUS
  <2>1. tasks[i] \in RunIds \ {r} /\ tasks[i] <= last
    BY <1>0 DEF HolderInv, HeldIdsUsed, HeldOnce, RunIds
  <2>2. RowIs(tasks[i], "queued")
    BY DEF HeldStatus
  <2> QED
    BY <2>1, <2>2, RowKept
<1>3. ASSUME NEW v \in Workers, v # w
      PROVE  /\ worker'[v].pc \in {"load", "mark"} => RowWillBe(worker'[v].run, "queued")
             /\ worker'[v].pc \in {"prepare", "exec", "publish", "ready"}
                  => RowWillBe(worker'[v].run, "running")
  <2>1. HoldsWorker(v) => worker[v].run \in RunIds \ {r} /\ worker[v].run <= last
    BY <1>0, <1>3 DEF HolderInv, HeldIdsUsed, HeldOnce, RunIds
  <2>2. worker'[v] = worker[v]
    BY <1>3
  <2> QED
    BY <2>1, <2>2, RowKept DEF HeldStatus, HoldsWorker
<1>4. \A v \in Workers :
        /\ worker'[v].pc \in {"load", "mark"} => RowWillBe(worker'[v].run, "queued")
        /\ worker'[v].pc \in {"prepare", "exec", "publish", "ready"}
             => RowWillBe(worker'[v].run, "running")
  BY <1>3
<1> QED
  BY <1>1, <1>2, <1>4 DEF HeldStatus, HoldsClient, RowIs, Newest, RowWillBe

\* The same for a step of one client on a row of its own or a new one.
LEMMA HeldStatusClient ==
    ASSUME TableInv, HolderInv, HeldStatus, NEW c \in Clients, NEW R, Frame(R),
           \A x \in R : x > last \/ (HoldsClient(c) /\ x = client[c].run),
           UNCHANGED <<tasks, worker>>,
           \A d \in Clients : d # c => client'[d] = client[d],
           client'[c].pc \in {"enqueue", "reject"} => RowWillBe(client'[c].run, "queued")
    PROVE  HeldStatus'
<1>0. last \in Nat /\ MaxRuns \in Nat /\ last <= MaxRuns
  BY RunsAssumption DEF TableInv, TablesOK
<1>1. \A d \in Clients : HoldsClient(d)' => RowWillBe(client'[d].run, "queued")
  <2> SUFFICES ASSUME NEW d \in Clients, d # c, HoldsClient(d)
               PROVE  RowWillBe(client[d].run, "queued")
    BY DEF HoldsClient
  <2>1. client[d].run \in RunIds \ R /\ client[d].run <= last
    BY <1>0 DEF HolderInv, HeldIdsUsed, HeldOnce, RunIds
  <2>2. RowIs(client[d].run, "queued")
    BY DEF HeldStatus
  <2> QED
    BY <2>1, <2>2, RowKept
<1>2. \A i \in 1..Len(tasks) : RowWillBe(tasks[i], "queued")
  <2> SUFFICES ASSUME NEW i \in 1..Len(tasks)
               PROVE  RowWillBe(tasks[i], "queued")
    OBVIOUS
  <2>1. tasks[i] \in RunIds \ R /\ tasks[i] <= last
    BY <1>0 DEF HolderInv, HeldIdsUsed, HeldOnce, RunIds
  <2>2. RowIs(tasks[i], "queued")
    BY DEF HeldStatus
  <2> QED
    BY <2>1, <2>2, RowKept
<1>3. ASSUME NEW v \in Workers
      PROVE  /\ worker[v].pc \in {"load", "mark"} => RowWillBe(worker[v].run, "queued")
             /\ worker[v].pc \in {"prepare", "exec", "publish", "ready"}
                  => RowWillBe(worker[v].run, "running")
  <2>1. HoldsWorker(v) => worker[v].run \in RunIds \ R /\ worker[v].run <= last
    BY <1>0 DEF HolderInv, HeldIdsUsed, HeldOnce, RunIds
  <2> QED
    BY <2>1, RowKept DEF HeldStatus, HoldsWorker
<1> QED
  BY <1>1, <1>2, <1>3 DEF HeldStatus, RowIs, Newest, RowWillBe

\* Steps that leave the files alone and promise no new one.
LEMMA FilesKept ==
    ASSUME TableInv, HolderInv, FileInv, NEW R, Frame(R), TableInv',
           UNCHANGED files, hasPath' \subseteq hasPath,
           \A w \in Workers : \A r \in worker'[w].paths :
               r \in worker[w].paths \/ run'[r] = "gone",
           \A w \in Workers : worker'[w].pc = "ready" =>
               worker[w].pc = "ready" /\ worker'[w].run = worker[w].run,
           \A c \in Clients : client'[c].pc = "rmdir" =>
               \/ client[c].pc = "rmdir" /\ client'[c].p = client[c].p
               \/ status'[client'[c].p] = "deleted"
    PROVE  FileInv'
<1> USE DEF FileInv, files
<1>1. FilesOK' /\ SnapshotOnDisk'
  BY DEF FilesOK, SnapshotOnDisk
<1>2. \A w \in Workers : \A r \in worker'[w].paths : run'[r] = "gone"
  <2> SUFFICES ASSUME NEW w \in Workers, NEW r \in worker[w].paths
               PROVE  run'[r] = "gone"
    OBVIOUS
  <2>1. r \in RunIds
    BY DEF HolderInv, ProcsOK, WorkerState
  <2>2. run[r] = "gone"
    BY DEF RemovalsAreSafe
  <2> QED
    BY <2>1, <2>2 DEF Frame, RowStep
<1>3. \A c \in Clients : client'[c].pc = "rmdir" => status'[client'[c].p] = "deleted"
  BY DEF RemovalsAreSafe, HolderInv, ClientsHaveTarget, Frame
<1>4. ASSUME NEW w \in Workers, worker'[w].pc = "ready", Live(owner[worker[w].run])'
      PROVE  worker'[w].run \in snap'
  <2>1. worker[w].pc = "ready" /\ worker'[w].run = worker[w].run
    BY <1>4
  <2>2. worker[w].run \in 1..last
    BY <2>1 DEF HolderInv, HeldIdsUsed, HoldsWorker
  <2>3. worker[w].run \in RunIds /\ worker[w].run <= last
    BY <2>2, RunsAssumption DEF RunIds, TableInv, TablesOK
  <2>4. owner'[worker[w].run] = owner[worker[w].run] /\ owner[worker[w].run] \in Portfolios
    BY <2>3 DEF Frame, TableInv, IdsInOrder
  <2>5. status[owner[worker[w].run]] # "none"
    BY <2>3 DEF TableInv, IdsInOrder
  <2>6. status'[owner[worker[w].run]] # "deleted"
    BY <1>4, <2>1, <2>4 DEF Live
  <2>7. status[owner[worker[w].run]] # "deleted"
    BY <2>4, <2>6 DEF Frame
  <2>8. Live(owner[worker[w].run])
    BY <2>4, <2>5, <2>7 DEF Live, TableInv, TablesOK, PortfolioStatus
  <2> QED
    BY <1>4, <2>8 DEF RemovalsAreSafe
<1> QED
  BY <1>1, <1>2, <1>3, <1>4 DEF RemovalsAreSafe

-----------------------------------------------------------------------------
(* The actions. *)

\* A worker that is not idle works for a created run of a created portfolio.
LEMMA WorkerFacts ==
    ASSUME IInv, NEW w \in Workers, NEW pc, At(w, pc), pc # "idle"
    PROVE  /\ server = "up" /\ HoldsWorker(w)
           /\ worker[w].run \in RunIds /\ worker[w].run <= last
           /\ owner[worker[w].run] \in Portfolios
<1>1. HoldsWorker(w) /\ worker[w] # IdleWorker
  BY DEF At, HoldsWorker, IdleWorker
<1>2. server = "up"
  BY <1>1 DEF IInv, HolderInv, QuietUnlessUp
<1>3. worker[w].run \in 1..last
  BY <1>1 DEF IInv, HolderInv, HeldIdsUsed
<1>4. worker[w].run \in RunIds /\ worker[w].run <= last
  BY <1>3, RunsAssumption DEF IInv, TableInv, TablesOK, RunIds
<1> QED
  BY <1>1, <1>2, <1>4 DEF IInv, TableInv, IdsInOrder

\* A step that touches no row touches at most one.
LEMMA FrameWeaken ==
    ASSUME Frame({}), NEW r
    PROVE  Frame({r})
BY DEF Frame

\* What a worker's step on its own row does to the holders.
LEMMA WorkerHolds ==
    ASSUME IInv, NEW w \in Workers, server = "up", HoldsWorker(w),
           TableInv', Frame({worker[w].run}),
           NEW pc \in WorkerPC \ {"idle"},
           WorkerMoves(w, pc) \/ WorkerIdles(w),
           pc \in {"load", "mark"} => RowWillBe(worker[w].run, "queued"),
           pc \in {"prepare", "exec", "publish", "ready"}
              => RowWillBe(worker[w].run, "running"),
           UNCHANGED <<server, tasks, client>>
    PROVE  HolderInv' /\ HeldStatus'
<1>1. HolderInv'
  BY HolderWorker DEF IInv, TableInv, TablesOK, Frame
<1>2. HeldStatus'
  BY HeldStatusWorker DEF IInv, WorkerMoves, WorkerIdles, IdleWorker
<1> QED
  BY <1>1, <1>2

\* A worker's step that changes at most its own row and no file.
LEMMA WorkerStepKeeps ==
    ASSUME IInv, NEW w \in Workers, server = "up", HoldsWorker(w),
           TableInv', Frame({worker[w].run}), hasPath' \subseteq hasPath,
           NEW pc \in WorkerPC \ {"idle", "ready"},
           WorkerMoves(w, pc) \/ WorkerIdles(w),
           pc \in {"load", "mark"} => RowWillBe(worker[w].run, "queued"),
           pc \in {"prepare", "exec", "publish"} => RowWillBe(worker[w].run, "running"),
           \A r \in worker'[w].paths : r \in worker[w].paths \/ run'[r] = "gone",
           UNCHANGED <<files, server, tasks, client>>
    PROVE  IInv' /\ RowStep
<1>1. HolderInv' /\ HeldStatus'
  BY WorkerHolds
<1>2. FileInv'
  <2>1. \A v \in Workers : \A r \in worker'[v].paths :
           r \in worker[v].paths \/ run'[r] = "gone"
    BY DEF WorkerMoves, WorkerIdles
  <2>2. \A v \in Workers : worker'[v].pc = "ready" =>
           worker[v].pc = "ready" /\ worker'[v].run = worker[v].run
    BY DEF WorkerMoves, WorkerIdles, IdleWorker
  <2> QED
    BY <2>1, <2>2, FilesKept DEF IInv
<1> QED
  BY <1>1, <1>2 DEF IInv, Frame

\* GetByID and the already-running guard preserve the invariant.
LEMMA LoadKeeps ==
    ASSUME IInv, NEW w \in Workers, Load(w)
    PROVE  IInv' /\ RowStep
<1> DEFINE r == worker[w].run
<1>0. At(w, "load") /\ UNCHANGED <<files, server, tasks, client>>
  BY DEF Load
<1>1. /\ server = "up" /\ HoldsWorker(w) /\ r \in RunIds /\ r <= last
      /\ RowIs(r, "queued")
  BY <1>0, WorkerFacts DEF IInv, HeldStatus, At
<1>2. CASE UNCHANGED tables /\ \E pc \in {"fail", "mark"} : Step(w, pc)
  <2>1. PICK pc \in {"fail", "mark"} : WorkerMoves(w, pc) /\ worker'[w].paths = worker[w].paths
    BY <1>2, StepMoves DEF IInv, HolderInv, WorkerPC
  <2>2. TableInv' /\ Frame({})
    BY <1>2, TableUnchanged DEF IInv
  <2>3. RowWillBe(r, "queued")
    BY <1>1, <2>2, RowKept DEF IInv
  <2> QED
    BY <1>0, <1>1, <1>2, <2>1, <2>2, <2>3, FrameWeaken, WorkerStepKeeps DEF WorkerPC, tables
<1>3. CASE UpdateRunFailed(r) /\ worker' = [worker EXCEPT ![w] = IdleWorker]
  <2>1. WorkerIdles(w) /\ worker'[w].paths = {}
    BY <1>3, IdleMoves DEF IInv, HolderInv, WorkerIdles, IdleWorker
  <2>2. TableInv' /\ Frame({r})
    BY <1>1, <1>3, TableUpdateRunFailed DEF IInv
  <2> QED
    BY <1>0, <1>1, <1>3, <2>1, <2>2, WorkerStepKeeps DEF WorkerPC, UpdateRunFailed
<1>4. CASE UNCHANGED tables /\ worker' = [worker EXCEPT ![w] = IdleWorker]
  <2>1. WorkerIdles(w) /\ worker'[w].paths = {}
    BY <1>4, IdleMoves DEF IInv, HolderInv, WorkerIdles, IdleWorker
  <2>2. TableInv' /\ Frame({r}) /\ hasPath' = hasPath
    BY <1>4, TableUnchanged, FrameWeaken DEF IInv, tables
  <2>3. "fail" \in WorkerPC \ {"idle", "ready"}
    BY DEF WorkerPC
  <2> QED
    BY <1>0, <1>1, <2>1, <2>2, <2>3, WorkerStepKeeps
<1> QED
  BY <1>2, <1>3, <1>4 DEF Load, Apply

\* MarkRunningTx by the run's worker preserves the invariant, whatever its outcome.
LEMMA MarkRunningKeeps ==
    ASSUME IInv, NEW w \in Workers, MarkRunning(w)
    PROVE  IInv' /\ RowStep
<1> DEFINE r == worker[w].run
<1>0. At(w, "mark") /\ UNCHANGED <<files, server, tasks, client>>
  BY DEF MarkRunning
<1>1. /\ server = "up" /\ HoldsWorker(w) /\ r \in RunIds /\ r <= last
      /\ RowIs(r, "queued")
  BY <1>0, WorkerFacts DEF IInv, HeldStatus, At
<1>2. PICK o \in DBOutcomes : /\ Apply(o, MarkRunningTx(owner[r], r))
                              /\ Step(w, IF o = "ok" THEN "prepare" ELSE "fail")
  BY DEF MarkRunning
<1>3. CASE UNCHANGED tables /\ o # "ok"
  <2>1. WorkerMoves(w, "fail") /\ worker'[w].paths = worker[w].paths
    BY <1>2, <1>3, StepMoves DEF IInv, HolderInv, WorkerPC
  <2>2. TableInv' /\ Frame({r})
    BY <1>3, TableUnchanged, FrameWeaken DEF IInv
  <2> QED
    BY <1>0, <1>1, <1>3, <2>1, <2>2, WorkerStepKeeps DEF WorkerPC, tables
<1>4. CASE MarkRunningTx(owner[r], r)
  <2>1. PICK pc \in {"prepare", "fail"} : WorkerMoves(w, pc) /\ worker'[w].paths = worker[w].paths
    BY <1>2, StepMoves DEF IInv, HolderInv, WorkerPC
  <2>2. TableInv' /\ Frame({r}) /\ RowWillBe(r, "running")
    BY <1>1, <1>4, TableMarkRunning DEF IInv
  <2> QED
    BY <1>0, <1>1, <1>4, <2>1, <2>2, WorkerStepKeeps DEF WorkerPC, MarkRunningTx
<1> QED
  BY <1>2, <1>3, <1>4 DEF Apply

\* orchestrator.fail preserves the invariant, also when MarkFailedTx errors.
LEMMA FailKeeps ==
    ASSUME IInv, NEW w \in Workers, Fail(w)
    PROVE  IInv' /\ RowStep
<1> DEFINE r == worker[w].run
<1>0. At(w, "fail") /\ UNCHANGED <<files, server, tasks, client>>
  BY DEF Fail
<1>1. server = "up" /\ HoldsWorker(w) /\ r \in RunIds /\ r <= last
  BY <1>0, WorkerFacts
<1>2. WorkerMoves(w, "prune") /\ worker'[w].paths = worker[w].paths
  BY StepMoves DEF Fail, IInv, HolderInv, WorkerPC
<1>3. UNCHANGED tables \/ MarkFailedTx(owner[r], r)
  BY DEF Fail, Apply
<1>4. TableInv' /\ Frame({r}) /\ hasPath' = hasPath
  BY <1>1, <1>3, TableUnchanged, FrameWeaken, TableMarkFailed DEF IInv, MarkFailedTx, tables
<1> QED
  BY <1>0, <1>1, <1>2, <1>4, WorkerStepKeeps DEF WorkerPC

\* The end of orchestrator.Run preserves the invariant.
LEMMA CompleteKeeps ==
    ASSUME IInv, NEW w \in Workers, Complete(w)
    PROVE  IInv' /\ RowStep
<1>0. At(w, "complete") /\ UNCHANGED <<tables, files, server, tasks, client>>
  BY DEF Complete
<1>1. server = "up" /\ HoldsWorker(w)
  BY <1>0, WorkerFacts
<1>2. WorkerIdles(w) /\ worker'[w].paths = {}
  BY IdleMoves DEF Complete, IInv, HolderInv, WorkerIdles, IdleWorker
<1>3. TableInv' /\ Frame({worker[w].run}) /\ hasPath' = hasPath
  BY <1>0, TableUnchanged, FrameWeaken DEF IInv, tables
<1> QED
  BY <1>0, <1>1, <1>2, <1>3, WorkerStepKeeps DEF WorkerPC


\* PruneRuns spares the newest row, so it preserves the invariant.
LEMMA PruneKeeps ==
    ASSUME IInv, NEW w \in Workers, Prune(w)
    PROVE  IInv' /\ RowStep
<1> DEFINE r == worker[w].run
           p == owner[r]
           paths == PruneVictims(p) \cap hasPath
<1>0. At(w, "prune") /\ UNCHANGED <<files, server, tasks, client>>
  BY DEF Prune
<1>1. server = "up" /\ HoldsWorker(w) /\ r \in RunIds /\ r <= last /\ p \in Portfolios
  BY <1>0, WorkerFacts
<1>2. PICK o \in DBOutcomes :
        /\ IF Live(p) THEN Apply(o, PruneRuns(p)) ELSE UNCHANGED tables
        /\ IF o = "ok" /\ Live(p) /\ paths # {}
           THEN worker' = [worker EXCEPT ![w].pc = "remove", ![w].paths = paths]
           ELSE Step(w, "complete")
  BY DEF Prune
<1>3. UNCHANGED tables \/ PruneRuns(p)
  BY <1>2 DEF Apply
<1>4. TableInv' /\ Frame({r}) /\ hasPath' \subseteq hasPath
  BY <1>1, <1>3, TableUnchanged, FrameWeaken, TablePrune DEF IInv, PruneRuns, DeleteRuns, tables
<1>5. CASE Step(w, "complete")
  <2>1. WorkerMoves(w, "complete") /\ worker'[w].paths = worker[w].paths
    BY <1>5, StepMoves DEF IInv, HolderInv, WorkerPC
  <2> QED
    BY <1>0, <1>1, <1>4, <2>1, WorkerStepKeeps DEF WorkerPC
<1>6. CASE /\ o = "ok" /\ Live(p)
           /\ worker' = [worker EXCEPT ![w].pc = "remove", ![w].paths = paths]
  <2>1. paths \subseteq RunIds
    BY DEF PruneVictims, RunsOf
  <2>2. WorkerMoves(w, "remove") /\ worker'[w].paths = paths
    BY <1>6, <2>1 DEF IInv, HolderInv, ProcsOK, WorkerMoves, WorkerState, WorkerPC
  <2>3. \A q \in paths : run'[q] = "gone"
    BY <1>2, <1>6, <2>1 DEF Apply, PruneRuns, DeleteRuns
  <2> QED
    BY <1>0, <1>1, <1>4, <2>2, <2>3, WorkerStepKeeps DEF WorkerPC
<1> QED
  BY <1>2, <1>5, <1>6

\* A worker's step on files only, of its own run.
LEMMA WorkerFileStepKeeps ==
    ASSUME IInv, NEW w \in Workers, server = "up", HoldsWorker(w),
           NEW pc \in WorkerPC \ {"idle", "load", "mark"}, WorkerMoves(w, pc),
           pc \in {"prepare", "exec", "publish", "ready"} => RowIs(worker[w].run, "running"),
           worker'[w].paths \subseteq worker[w].paths,
           pc = "ready" => worker[w].run \in snap',
           FilesOK', \A r \in snap : r \in snap' \/ run[r] = "gone",
           UNCHANGED <<tables, server, tasks, client>>
    PROVE  IInv' /\ RowStep
<1> DEFINE r == worker[w].run
<1>1. TableInv' /\ Frame({}) /\ Frame({r})
  BY TableUnchanged, FrameWeaken DEF IInv
<1>2. pc \in {"prepare", "exec", "publish", "ready"} => RowWillBe(r, "running")
  BY DEF RowIs, Newest, RowWillBe, tables
<1>3. HolderInv' /\ HeldStatus'
  BY <1>1, <1>2, WorkerHolds
<1>4. FileInv'
  <2>1. SnapshotOnDisk'
    BY DEF IInv, FileInv, SnapshotOnDisk, TableInv, PathsHaveRows, Exists, tables
  <2>2. \A v \in Workers : \A q \in worker'[v].paths : run'[q] = "gone"
    BY DEF IInv, FileInv, RemovalsAreSafe, WorkerMoves, tables
  <2>3. \A c \in Clients : client'[c].pc = "rmdir" => status'[client'[c].p] = "deleted"
    BY DEF IInv, FileInv, RemovalsAreSafe, tables
  <2>4. ASSUME NEW v \in Workers, worker'[v].pc = "ready", Live(owner[worker[v].run])'
        PROVE  worker'[v].run \in snap'
    <3>1. CASE v = w
      BY <2>4, <3>1 DEF WorkerMoves
    <3>2. CASE v # w
      <4>1. worker[v].pc = "ready" /\ worker'[v].run = worker[v].run
        BY <2>4, <3>2 DEF WorkerMoves
      <4>2. Live(owner[worker[v].run])
        BY <2>4, <4>1 DEF Live, tables
      <4>3. worker[v].run \in snap
        BY <4>1, <4>2 DEF IInv, FileInv, RemovalsAreSafe
      <4>4. run[worker[v].run] # "gone"
        BY <4>1, <4>2 DEF IInv, HeldStatus, RowIs, Newest, Live
      <4> QED
        BY <4>1, <4>3, <4>4
    <3> QED
      BY <3>1, <3>2
  <2> QED
    BY <2>1, <2>2, <2>3, <2>4 DEF FileInv, RemovalsAreSafe
<1> QED
  BY <1>1, <1>3, <1>4 DEF IInv, Frame

\* Making the directory and dropping the old tmp file preserve the invariant.
LEMMA PrepareKeeps ==
    ASSUME IInv, NEW w \in Workers, Prepare(w)
    PROVE  IInv' /\ RowStep
<1> DEFINE r == worker[w].run
<1>0. At(w, "prepare") /\ UNCHANGED <<tables, server, tasks, client>> /\ snap' = snap
  BY DEF Prepare, files
<1>1. server = "up" /\ HoldsWorker(w) /\ owner[r] \in Portfolios /\ RowIs(r, "running")
  BY <1>0, WorkerFacts DEF IInv, HeldStatus, At
<1>2. FilesOK'
  BY <1>0, <1>1 DEF Prepare, IInv, FileInv, FilesOK, files
<1>3. PICK pc \in {"fail", "exec"} : WorkerMoves(w, pc) /\ worker'[w].paths = worker[w].paths
  BY StepMoves DEF Prepare, IInv, HolderInv, WorkerPC
<1> QED
  BY <1>0, <1>1, <1>2, <1>3, WorkerFileStepKeeps DEF WorkerPC

\* The strategy process writes only its own tmp file.
LEMMA RunBacktestKeeps ==
    ASSUME IInv, NEW w \in Workers, RunBacktest(w)
    PROVE  IInv' /\ RowStep
<1> DEFINE r == worker[w].run
<1>0. At(w, "exec") /\ UNCHANGED <<tables, server, tasks, client>> /\ snap' = snap
  BY DEF RunBacktest
<1>1. server = "up" /\ HoldsWorker(w) /\ r \in RunIds /\ RowIs(r, "running")
  BY <1>0, WorkerFacts DEF IInv, HeldStatus, At
<1>2. FilesOK'
  BY <1>0, <1>1 DEF RunBacktest, IInv, FileInv, FilesOK
<1>3. PICK pc \in {"fail", "publish"} : WorkerMoves(w, pc) /\ worker'[w].paths = worker[w].paths
  BY StepMoves DEF RunBacktest, IInv, HolderInv, WorkerPC
<1> QED
  BY <1>0, <1>1, <1>2, <1>3, WorkerFileStepKeeps DEF WorkerPC

\* fsyncAndRename puts the snapshot in place before MarkReadyTx records it.
LEMMA PublishKeeps ==
    ASSUME IInv, NEW w \in Workers, Publish(w)
    PROVE  IInv' /\ RowStep
<1> DEFINE r == worker[w].run
<1>0. At(w, "publish") /\ UNCHANGED <<tables, dirs, server, tasks, client>> /\ snap \subseteq snap'
  BY DEF Publish
<1>1. server = "up" /\ HoldsWorker(w) /\ r \in RunIds /\ RowIs(r, "running")
  BY <1>0, WorkerFacts DEF IInv, HeldStatus, At
<1>2. FilesOK'
  BY <1>0, <1>1 DEF Publish, IInv, FileInv, FilesOK
<1>3. PICK pc \in {"fail", "ready"} : /\ WorkerMoves(w, pc) /\ worker'[w].paths = worker[w].paths
                                      /\ pc = "ready" => r \in snap'
  BY StepMoves DEF Publish, IInv, HolderInv, WorkerPC
<1> QED
  BY <1>0, <1>1, <1>2, <1>3, WorkerFileStepKeeps DEF WorkerPC

\* Removing the file of a pruned row takes no recorded snapshot away.
LEMMA RemoveSnapshotKeeps ==
    ASSUME IInv, NEW w \in Workers, RemoveSnapshot(w)
    PROVE  IInv' /\ RowStep
<1>0. At(w, "remove") /\ UNCHANGED <<tables, dirs, tmp, server, tasks, client>>
  BY DEF RemoveSnapshot
<1>1. server = "up" /\ HoldsWorker(w)
  BY <1>0, WorkerFacts
<1>2. PICK q \in worker[w].paths :
        /\ worker' = [worker EXCEPT
                        ![w].paths = @ \ {q},
                        ![w].pc = IF worker[w].paths = {q} THEN "complete" ELSE "remove"]
        /\ snap' = snap \ {q} \/ snap' = snap
  BY DEF RemoveSnapshot
<1>3. run[q] = "gone"
  BY DEF IInv, FileInv, RemovalsAreSafe
<1>4. PICK pc \in {"complete", "remove"} :
        WorkerMoves(w, pc) /\ worker'[w].paths = worker[w].paths \ {q}
  BY <1>2 DEF IInv, HolderInv, ProcsOK, WorkerMoves, WorkerState, WorkerPC
<1>5. FilesOK' /\ \A x \in snap : x \in snap' \/ run[x] = "gone"
  BY <1>0, <1>2, <1>3 DEF IInv, FileInv, FilesOK
<1> QED
  BY <1>0, <1>1, <1>4, <1>5, WorkerFileStepKeeps DEF WorkerPC

\* MarkReadyTx records a file that is on disk and preserves the invariant.
LEMMA MarkReadyKeeps ==
    ASSUME IInv, NEW w \in Workers, MarkReady(w)
    PROVE  IInv' /\ RowStep
<1> DEFINE r == worker[w].run
<1>0. At(w, "ready") /\ UNCHANGED <<files, server, tasks, client>>
  BY DEF MarkReady
<1>1. /\ server = "up" /\ HoldsWorker(w) /\ r \in RunIds /\ r <= last
      /\ RowIs(r, "running")
  BY <1>0, WorkerFacts DEF IInv, HeldStatus, At
<1>2. PICK pc \in {"prune", "fail"} : WorkerMoves(w, pc) /\ worker'[w].paths = worker[w].paths
  <2>1. \/ worker' = [worker EXCEPT ![w].pc = "prune", ![w].ok = TRUE]
        \/ Step(w, "fail")
    BY DEF MarkReady
  <2>2. CASE Step(w, "fail")
    BY <2>2, StepMoves DEF IInv, HolderInv, WorkerPC
  <2>3. CASE worker' = [worker EXCEPT ![w].pc = "prune", ![w].ok = TRUE]
    BY <2>3 DEF IInv, HolderInv, ProcsOK, WorkerMoves, WorkerState, WorkerPC
  <2> QED
    BY <2>1, <2>2, <2>3
<1>3. UNCHANGED tables \/ MarkReadyTx(owner[r], r)
  BY DEF MarkReady, Apply
<1>4. CASE UNCHANGED tables
  <2>1. TableInv' /\ Frame({r}) /\ hasPath' = hasPath
    BY <1>4, TableUnchanged, FrameWeaken DEF IInv, tables
  <2> QED
    BY <1>0, <1>1, <1>2, <2>1, WorkerStepKeeps DEF WorkerPC
<1>5. CASE MarkReadyTx(owner[r], r)
  <2>1. TableInv' /\ Frame({r})
    BY <1>1, <1>5, TableMarkReady DEF IInv
  <2>2. HolderInv' /\ HeldStatus'
    BY <1>0, <1>1, <1>2, <2>1, WorkerHolds DEF WorkerPC
  <2>3. Exists(r) => r \in snap
    BY <1>0, <1>1 DEF IInv, FileInv, RemovalsAreSafe, At, TableInv, RowsHavePortfolio
  <2>4. hasPath' \subseteq snap
    BY <1>5, <2>3 DEF MarkReadyTx, IInv, FileInv, SnapshotOnDisk
  <2>5. FileInv'
    <3>1. FilesOK' /\ SnapshotOnDisk'
      BY <1>0, <2>4 DEF files, IInv, FileInv, FilesOK, SnapshotOnDisk
    <3>2. \A v \in Workers : \A q \in worker'[v].paths : run'[q] = "gone"
      <4> SUFFICES ASSUME NEW v \in Workers, NEW q \in worker[v].paths PROVE run'[q] = "gone"
        BY <1>2 DEF WorkerMoves
      <4>1. q \in RunIds /\ run[q] = "gone"
        BY DEF IInv, HolderInv, ProcsOK, WorkerState, FileInv, RemovalsAreSafe
      <4> QED
        BY <2>1, <4>1 DEF Frame, RowStep
    <3>3. \A c \in Clients : client'[c].pc = "rmdir" => status'[client'[c].p] = "deleted"
      BY <1>0, <2>1 DEF IInv, FileInv, RemovalsAreSafe, HolderInv, ClientsHaveTarget, Frame
    <3>4. ASSUME NEW v \in Workers, worker'[v].pc = "ready", Live(owner[worker[v].run])'
          PROVE  worker'[v].run \in snap'
      <4>1. worker[v].pc = "ready" /\ worker'[v].run = worker[v].run
        BY <1>2, <3>4 DEF WorkerMoves
      <4>2. Live(owner[worker[v].run])
        BY <1>5, <3>4, <4>1 DEF MarkReadyTx, SetStatus, Live, IInv, TableInv, TablesOK
      <4> QED
        BY <1>0, <4>1, <4>2 DEF IInv, FileInv, RemovalsAreSafe, files
    <3> QED
      BY <3>1, <3>2, <3>3, <3>4 DEF FileInv, RemovalsAreSafe
  <2> QED
    BY <2>1, <2>2, <2>5 DEF IInv, Frame
<1> QED
  BY <1>3, <1>4, <1>5

\* A run id moves from the channel to one worker.
LEMMA TakeTaskKeeps ==
    ASSUME IInv, NEW w \in Workers, TakeTask(w)
    PROVE  IInv' /\ RowStep
<1> DEFINE t == Head(tasks)
<1>0. /\ worker[w].pc = "idle" /\ tasks # <<>> /\ tasks' = Tail(tasks)
      /\ UNCHANGED <<tables, files, server, client>>
  BY DEF TakeTask, At
<1>1. tasks \in Seq(RunIds) /\ Len(tasks) \in Nat \ {0} /\ t = tasks[1] /\ t \in RunIds
  BY <1>0 DEF IInv, HolderInv, ProcsOK
<1>2. /\ Len(tasks') = Len(tasks) - 1 /\ tasks' \in Seq(RunIds)
      /\ \A i \in 1..Len(tasks') : i + 1 \in 1..Len(tasks) /\ tasks'[i] = tasks[i + 1]
  BY <1>0, <1>1
<1>3. /\ worker' \in [Workers -> WorkerState]
      /\ worker'[w].pc = "load" /\ worker'[w].run = t /\ worker'[w].paths = {}
      /\ \A v \in Workers : v # w => worker'[v] = worker[v]
  BY <1>1, RunsAssumption
  DEF TakeTask, IInv, HolderInv, ProcsOK, WorkerState, WorkerPC, RunIds
<1>4. server = "up"
  BY <1>0 DEF IInv, HolderInv, QuietUnlessUp
<1>5. TableInv' /\ Frame({})
  BY <1>0, TableUnchanged DEF IInv
<1>6. HolderInv'
  <2>1. ProcsOK' /\ ClientsHaveTarget' /\ QuietUnlessUp'
    BY <1>0, <1>2, <1>3, <1>4
    DEF IInv, HolderInv, ProcsOK, ClientsHaveTarget, QuietUnlessUp
  <2>2. HeldIdsUsed'
    BY <1>0, <1>1, <1>2, <1>3
    DEF IInv, HolderInv, HeldIdsUsed, HoldsClient, HoldsWorker, tables
  <2>3. HeldOnce'
    BY <1>0, <1>1, <1>2, <1>3 DEF IInv, HolderInv, HeldOnce, HoldsClient, HoldsWorker
  <2> QED
    BY <2>1, <2>2, <2>3 DEF HolderInv
<1>7. HeldStatus'
  BY <1>0, <1>1, <1>2, <1>3 DEF IInv, HeldStatus, RowIs, Newest, HoldsClient, tables
<1>8. FileInv'
  BY <1>0, <1>3, <1>5, FilesKept DEF IInv, tables
<1> QED
  BY <1>5, <1>6, <1>7, <1>8 DEF IInv, Frame

\* A client inside a request works for a portfolio, and what it holds was created.
LEMMA ClientFacts ==
    ASSUME IInv, NEW c \in Clients, NEW pc, Serving(c, pc), pc # "idle"
    PROVE  /\ server = "up" /\ client[c].pc = pc /\ client[c].p \in Portfolios
           /\ HoldsClient(c) => client[c].run \in RunIds /\ client[c].run <= last
<1>1. server = "up" /\ client[c].pc = pc /\ client[c].p \in Portfolios
  BY DEF Serving, IInv, HolderInv, ClientsHaveTarget
<1>2. HoldsClient(c) => client[c].run \in 1..last
  BY DEF IInv, HolderInv, HeldIdsUsed
<1> QED
  BY <1>1, <1>2, RunsAssumption DEF IInv, TableInv, TablesOK, RunIds

\* A client's step that changes at most its own row, takes no run id and
\* touches no file.
LEMMA ClientStepKeeps ==
    ASSUME IInv, NEW c \in Clients, NEW p \in Portfolios, server = "up",
           TableInv', NEW R, Frame(R), hasPath' \subseteq hasPath,
           \A x \in R : x > last \/ (HoldsClient(c) /\ x = client[c].run),
           \/ ClientLeaves(c)
           \/ \E pc \in {"insert", "apply"} : ClientEnters(c, pc, p)
           \/ ClientEnters(c, "rmdir", p) /\ status'[p] = "deleted"
           \/ \E pc \in {"insert", "rollback"} : ClientMoves(c, pc) /\ client[c].pc # "idle",
           UNCHANGED <<files, server, tasks, worker>>
    PROVE  IInv' /\ RowStep
<1>1. HolderInv'
  BY HolderClient DEF IInv, TableInv, TablesOK, Frame, ClientPC
<1>2. HeldStatus'
  BY HeldStatusClient DEF IInv, ClientLeaves, ClientEnters, ClientMoves, IdleClient
<1>3. FileInv'
  <2>1. \A d \in Clients : client'[d].pc = "rmdir" =>
               \/ client[d].pc = "rmdir" /\ client'[d].p = client[d].p
               \/ status'[client'[d].p] = "deleted"
    BY DEF ClientLeaves, ClientEnters, ClientMoves, IdleClient
  <2> QED
    BY <2>1, FilesKept DEF IInv
<1> QED
  BY <1>1, <1>2, <1>3 DEF IInv, Frame

\* A client that stays where it is.
LEMMA IdleClientKeeps ==
    ASSUME IInv, TableInv', Frame({}), hasPath' \subseteq hasPath,
           UNCHANGED <<files, procs>>
    PROVE  IInv' /\ RowStep
<1> USE DEF procs
<1>1. HolderInv'
  BY DEF IInv, TableInv, TablesOK, HolderInv, ProcsOK, ClientsHaveTarget, HeldIdsUsed, HeldOnce,
         QuietUnlessUp, HoldsClient, HoldsWorker, Frame
<1>2. HeldStatus'
  <2>1. \A r \in 1..last : r \in RunIds \ {} /\ r <= last
    BY RunsAssumption DEF IInv, TableInv, TablesOK, RunIds
  <2>2. \A r \in 1..last : \A s \in {"queued", "running"} : RowIs(r, s) => RowWillBe(r, s)
    BY <2>1, RowKept DEF IInv
  <2> QED
    BY <2>2 DEF IInv, HeldStatus, RowIs, Newest, RowWillBe, HolderInv, HeldIdsUsed, HoldsClient, HoldsWorker
<1>3. FileInv'
  BY FilesKept DEF IInv
<1> QED
  BY <1>1, <1>2, <1>3 DEF IInv, Frame

\* Inserting a portfolio preserves the invariant.
LEMMA CreateKeeps ==
    ASSUME IInv, NEW c \in Clients, NEW p \in Portfolios, Create(c, p)
    PROVE  IInv' /\ RowStep
<1>0. server = "up" /\ status[p] = "none" /\ UNCHANGED <<files, server, tasks, worker>>
  BY DEF Create, Serving
<1>1. TableInv' /\ Frame({}) /\ hasPath' = hasPath
  <2>1. CASE UNCHANGED tables
    BY <2>1, TableUnchanged DEF IInv, tables
  <2>2. CASE /\ status' = [status EXCEPT ![p] = "pending"]
             /\ \E n \in Retentions : retention' = [retention EXCEPT ![p] = n]
             /\ UNCHANGED <<active, run, owner, hasPath, last>>
    BY <1>0, <2>2, TableInsertPortfolio DEF IInv
  <2> QED
    BY <2>1, <2>2 DEF Create, Apply
<1>2. CASE Enter(c, "insert", "create", p)
  <2>1. ClientEnters(c, "insert", p)
    BY <1>2, EnterMoves DEF IInv, HolderInv, ClientPC
  <2> QED
    BY <1>0, <1>1, <2>1, ClientStepKeeps
<1>3. CASE UNCHANGED client
  BY <1>0, <1>1, <1>3, IdleClientKeeps DEF procs
<1> QED
  BY <1>2, <1>3 DEF Create

\* Reading a portfolio before Submit preserves the invariant.
LEMMA RequestRunKeeps ==
    ASSUME IInv, NEW c \in Clients, NEW p \in Portfolios, RequestRun(c, p)
    PROVE  IInv' /\ RowStep
<1>0. server = "up" /\ UNCHANGED <<tables, files, server, tasks, worker>>
  BY DEF RequestRun, Serving
<1>1. TableInv' /\ Frame({}) /\ hasPath' = hasPath
  BY <1>0, TableUnchanged DEF IInv, tables
<1>2. ClientEnters(c, "insert", p)
  BY EnterMoves DEF RequestRun, IInv, HolderInv, ClientPC
<1> QED
  BY <1>0, <1>1, <1>2, ClientStepKeeps

\* Reading a portfolio before an upgrade preserves the invariant.
LEMMA LoadUpgradeTargetsKeeps ==
    ASSUME IInv, NEW c \in Clients, NEW p \in Portfolios, LoadUpgradeTargets(c, p)
    PROVE  IInv' /\ RowStep
<1>0. server = "up" /\ UNCHANGED <<tables, files, server, tasks, worker>>
  BY DEF LoadUpgradeTargets, Serving
<1>1. TableInv' /\ Frame({}) /\ hasPath' = hasPath
  BY <1>0, TableUnchanged DEF IInv, tables
<1>2. ClientEnters(c, "apply", p)
  BY EnterMoves DEF LoadUpgradeTargets, IInv, HolderInv, ClientPC
<1> QED
  BY <1>0, <1>1, <1>2, ClientStepKeeps

\* ApplyUpgrade, even of a portfolio that started running meanwhile, preserves the invariant.
LEMMA ApplyUpgradeKeeps ==
    ASSUME IInv, NEW c \in Clients, ApplyUpgrade(c)
    PROVE  IInv' /\ RowStep
<1> DEFINE p == client[c].p
<1>0. Serving(c, "apply") /\ UNCHANGED <<files, server, tasks, worker>>
  BY DEF ApplyUpgrade
<1>1. server = "up" /\ client[c].pc # "idle" /\ p \in Portfolios
  BY <1>0, ClientFacts
<1>2. TableInv' /\ Frame({}) /\ hasPath' = hasPath
  <2>1. CASE UNCHANGED tables
    BY <2>1, TableUnchanged DEF IInv, tables
  <2>2. CASE /\ status' = SetStatus(p, "pending")
             /\ UNCHANGED <<retention, active, run, owner, hasPath, last>>
    BY <1>1, <2>2, TableUpgrade DEF IInv
  <2> QED
    BY <2>1, <2>2 DEF ApplyUpgrade, Apply
<1>3. ClientMoves(c, "insert") \/ ClientLeaves(c)
  BY GotoMoves, LeaveMoves DEF ApplyUpgrade, IInv, HolderInv, ClientPC
<1> QED
  BY <1>0, <1>1, <1>2, <1>3, ClientStepKeeps

\* A failed Submit rolls a creation back or ends the request.
LEMMA SubmitFailedMoves ==
    ASSUME IInv, NEW c \in Clients, SubmitFailed(c)
    PROVE  ClientMoves(c, "rollback") \/ ClientLeaves(c)
BY GotoMoves, LeaveMoves DEF SubmitFailed, IInv, HolderInv, ClientPC

\* CreateRun behind the unique index makes the new row the newest, the only one in flight and held once.
LEMMA SubmitInsertKeeps ==
    ASSUME IInv, NEW c \in Clients, SubmitInsert(c)
    PROVE  IInv' /\ RowStep
<1> DEFINE p == client[c].p
<1>0. Serving(c, "insert") /\ UNCHANGED <<files, server, tasks, worker>>
  BY DEF SubmitInsert
<1>1. server = "up" /\ client[c].pc = "insert" /\ p \in Portfolios
  BY <1>0, ClientFacts
<1>2. CASE UNCHANGED tables /\ SubmitFailed(c)
  <2>1. TableInv' /\ Frame({}) /\ hasPath' = hasPath
    BY <1>2, TableUnchanged DEF IInv, tables
  <2> QED
    BY <1>0, <1>1, <1>2, <2>1, SubmitFailedMoves, ClientStepKeeps
<1>3. ASSUME CanCreateRun(p), CreateRun(p)
      PROVE  /\ TableInv' /\ Frame({last + 1}) /\ hasPath' = hasPath
             /\ last' = last + 1 /\ last' \in RunIds /\ run'[last + 1] = "queued"
             /\ last \in Nat
  <2>1. TableInv /\ last \in Nat
    BY DEF IInv, TableInv, TablesOK
  <2>2. /\ TableInv' /\ Frame({last + 1})
        /\ last' = last + 1 /\ last' \in RunIds /\ run'[last + 1] = "queued"
    BY <1>1, <1>3, <2>1, TableCreateRun
  <2>3. hasPath' = hasPath
    BY <1>3 DEF CreateRun
  <2> QED
    BY <2>1, <2>2, <2>3
<1>4. CASE CanCreateRun(p) /\ CreateRun(p) /\ SubmitFailed(c)
  BY <1>0, <1>1, <1>3, <1>4, SubmitFailedMoves, ClientStepKeeps
<1>5. CASE /\ CanCreateRun(p) /\ CreateRun(p)
           /\ client' = [client EXCEPT ![c].pc = "enqueue", ![c].run = last + 1]
  <2> DEFINE n == last + 1
  <2>1. /\ client' \in [Clients -> ClientState]
        /\ client'[c].pc = "enqueue" /\ client'[c].run = n /\ client'[c].p = p
        /\ \A d \in Clients : d # c => client'[d] = client[d]
    <3>1. n \in 0..MaxRuns
      BY <1>3, <1>5, RunsAssumption DEF RunIds
    <3>2. client \in [Clients -> ClientState]
      BY DEF IInv, HolderInv, ProcsOK
    <3> HIDE DEF n
    <3>3. client' = [client EXCEPT ![c].pc = "enqueue", ![c].run = n]
      BY <1>5 DEF n
    <3> QED
      BY <3>1, <3>2, <3>3 DEF ClientState, ClientPC
  <2>2. HolderInv'
    <3>1. ProcsOK' /\ ClientsHaveTarget' /\ QuietUnlessUp'
      BY <1>0, <1>1, <2>1 DEF IInv, HolderInv, ProcsOK, ClientsHaveTarget, QuietUnlessUp
    <3>2. HeldIdsUsed'
      BY <1>0, <1>3, <1>5, <2>1 DEF IInv, HolderInv, HeldIdsUsed, HoldsClient, HoldsWorker
    <3>3. HeldOnce'
      BY <1>0, <1>3, <1>5, <2>1
      DEF IInv, HolderInv, HeldIdsUsed, HeldOnce, HoldsClient, HoldsWorker
    <3> QED
      BY <3>1, <3>2, <3>3 DEF HolderInv
  <2>3. HeldStatus'
    <3>1. RowWillBe(n, "queued")
      BY <1>3, <1>5 DEF RowWillBe
    <3> QED
      BY <1>0, <1>3, <1>5, <2>1, <3>1, HeldStatusClient DEF IInv
  <2>4. FileInv'
    BY <1>0, <1>3, <1>5, <2>1, FilesKept DEF IInv
  <2> QED
    BY <1>3, <1>5, <2>2, <2>3, <2>4 DEF IInv, Frame
<1> QED
  BY <1>2, <1>4, <1>5 DEF SubmitInsert, Apply

\* A run id moves from a client to the channel, or stays with the client.
LEMMA SubmitEnqueueKeeps ==
    ASSUME IInv, NEW c \in Clients, SubmitEnqueue(c)
    PROVE  IInv' /\ RowStep
<1> DEFINE r == client[c].run
<1>0. Serving(c, "enqueue") /\ UNCHANGED <<tables, files, server, worker>>
  BY DEF SubmitEnqueue
<1>1. /\ server = "up" /\ client[c].pc = "enqueue" /\ client[c].p \in Portfolios
      /\ HoldsClient(c) /\ r \in RunIds /\ r <= last
  BY <1>0, ClientFacts DEF HoldsClient
<1>2. TableInv' /\ Frame({}) /\ hasPath' = hasPath
  BY <1>0, TableUnchanged DEF IInv, tables
<1>3. CASE UNCHANGED tasks /\ Goto(c, "reject")
  <2>1. ClientMoves(c, "reject")
    BY <1>3, GotoMoves DEF IInv, HolderInv, ClientPC
  <2>2. HolderInv'
    BY <1>0, <1>1, <1>3, <2>1, HolderClient DEF IInv, TableInv, TablesOK, ClientPC, tables
  <2>3. HeldStatus'
    BY <1>0, <1>1, <1>3, <2>1 DEF IInv, HeldStatus, HoldsClient, RowIs, Newest, ClientMoves, tables
  <2>4. FileInv'
    BY <1>0, <1>2, <1>3, <2>1, FilesKept DEF IInv, ClientMoves
  <2> QED
    BY <1>2, <2>2, <2>3, <2>4 DEF IInv, Frame
<1>4. CASE tasks' = Append(tasks, r) /\ Leave(c)
  <2>1. ClientLeaves(c)
    BY <1>4, LeaveMoves DEF IInv, HolderInv
  <2>2. /\ tasks' \in Seq(RunIds) /\ Len(tasks') = Len(tasks) + 1 /\ Len(tasks) \in Nat
        /\ \A i \in 1..Len(tasks) : tasks'[i] = tasks[i]
        /\ tasks'[Len(tasks) + 1] = r
    BY <1>1, <1>4 DEF IInv, HolderInv, ProcsOK
  <2>3. \A i \in 1..Len(tasks') : i \in 1..Len(tasks) \/ i = Len(tasks) + 1
    BY <2>2
  <2>4. HolderInv'
    <3>1. ProcsOK' /\ ClientsHaveTarget' /\ QuietUnlessUp'
      BY <1>0, <1>1, <2>1, <2>2
      DEF IInv, HolderInv, ProcsOK, ClientsHaveTarget, QuietUnlessUp, ClientLeaves, IdleClient
    <3>2. \A d \in Clients : HoldsClient(d)' => d # c /\ HoldsClient(d) /\ client'[d] = client[d]
      BY <2>1 DEF HoldsClient, ClientLeaves, IdleClient
    <3>3. HeldIdsUsed'
      BY <1>0, <1>1, <2>2, <2>3, <3>2 DEF IInv, HolderInv, HeldIdsUsed, HoldsWorker, tables
    <3>4. HeldOnce'
      BY <1>0, <1>1, <2>2, <2>3, <3>2 DEF IInv, HolderInv, HeldOnce, HoldsWorker
    <3> QED
      BY <3>1, <3>3, <3>4 DEF HolderInv
  <2>5. HeldStatus'
    <3>1. RowIs(r, "queued")
      BY <1>1 DEF IInv, HeldStatus
    <3> QED
      BY <1>0, <2>1, <2>2, <2>3, <3>1, SMTT(30)
      DEF IInv, HeldStatus, HoldsClient, RowIs, Newest, ClientLeaves, IdleClient, tables
  <2>6. FileInv'
    BY <1>0, <1>2, <2>1, FilesKept DEF IInv, ClientLeaves, IdleClient
  <2> QED
    BY <1>2, <2>4, <2>5, <2>6 DEF IInv, Frame
<1> QED
  BY <1>3, <1>4 DEF SubmitEnqueue

\* A rejected submission fails the row only its client holds.
LEMMA SubmitRejectKeeps ==
    ASSUME IInv, NEW c \in Clients, SubmitReject(c)
    PROVE  IInv' /\ RowStep
<1> DEFINE r == client[c].run
<1>0. Serving(c, "reject") /\ UNCHANGED <<files, server, tasks, worker>>
  BY DEF SubmitReject
<1>1. /\ server = "up" /\ client[c].pc # "idle" /\ client[c].p \in Portfolios
      /\ HoldsClient(c) /\ r \in RunIds /\ RowIs(r, "queued")
  BY <1>0, ClientFacts DEF HoldsClient, IInv, HeldStatus
<1>2. UNCHANGED tables \/ UpdateRunFailed(r)
  BY DEF SubmitReject, Apply
<1>3. TableInv' /\ Frame({r}) /\ hasPath' = hasPath
  BY <1>1, <1>2, TableUnchanged, FrameWeaken, TableUpdateRunFailed DEF IInv, UpdateRunFailed, tables
<1>4. ClientMoves(c, "rollback") \/ ClientLeaves(c)
  BY SubmitFailedMoves DEF SubmitReject
<1> QED
  BY <1>0, <1>1, <1>3, <1>4, ClientStepKeeps

\* The rollback of a creation deletes the portfolio with its rows.
LEMMA RollbackKeeps ==
    ASSUME IInv, NEW c \in Clients, Rollback(c)
    PROVE  IInv' /\ RowStep
<1> DEFINE p == client[c].p
<1>0. Serving(c, "rollback") /\ UNCHANGED <<files, server, tasks, worker>>
  BY DEF Rollback
<1>1. server = "up" /\ p \in Portfolios
  BY <1>0, ClientFacts
<1>2. UNCHANGED tables \/ DeletePortfolio(p)
  BY DEF Rollback, Apply
<1>3. TableInv' /\ Frame({}) /\ hasPath' \subseteq hasPath
  BY <1>1, <1>2, TableUnchanged, TableDelete DEF IInv, DeletePortfolio, DeleteRuns, tables
<1>4. ClientLeaves(c)
  BY LeaveMoves DEF Rollback, IInv, HolderInv
<1> QED
  BY <1>0, <1>1, <1>3, <1>4, ClientStepKeeps

\* Handler.Delete deletes the portfolio with its rows.
LEMMA DeleteKeeps ==
    ASSUME IInv, NEW c \in Clients, NEW p \in Portfolios, Delete(c, p)
    PROVE  IInv' /\ RowStep
<1>0. server = "up" /\ UNCHANGED <<files, server, tasks, worker>>
  BY DEF Delete, Serving
<1>1. UNCHANGED tables \/ DeletePortfolio(p)
  BY DEF Delete, Apply
<1>2. TableInv' /\ Frame({}) /\ hasPath' \subseteq hasPath
  BY <1>1, TableUnchanged, TableDelete DEF IInv, DeletePortfolio, DeleteRuns, tables
<1>3. CASE DeletePortfolio(p) /\ Enter(c, "rmdir", "delete", p)
  <2>1. ClientEnters(c, "rmdir", p)
    BY <1>3, EnterMoves DEF IInv, HolderInv, ClientPC
  <2>2. status'[p] = "deleted"
    BY <1>3 DEF DeletePortfolio, IInv, TableInv, TablesOK
  <2> QED
    BY <1>0, <1>2, <2>1, <2>2, ClientStepKeeps
<1>4. CASE UNCHANGED client
  BY <1>0, <1>2, <1>4, IdleClientKeeps DEF procs
<1> QED
  BY <1>3, <1>4 DEF Delete, Apply

\* A change of run_retention preserves the invariant.
LEMMA UpdateRunRetentionKeeps ==
    ASSUME IInv, NEW c \in Clients, NEW p \in Portfolios, UpdateRunRetention(c, p)
    PROVE  IInv' /\ RowStep
<1>1. TableInv' /\ Frame({}) /\ hasPath' = hasPath
  BY TableRetention DEF UpdateRunRetention, IInv
<1> QED
  BY <1>1, IdleClientKeeps DEF UpdateRunRetention

\* Purging the directory of a deleted portfolio removes no recorded snapshot.
LEMMA RemoveDirKeeps ==
    ASSUME IInv, NEW c \in Clients, RemoveDir(c)
    PROVE  IInv' /\ RowStep
<1> DEFINE p == client[c].p
<1>0. /\ Serving(c, "rmdir") /\ UNCHANGED <<tables, server, tasks, worker>>
      /\ dirs' \subseteq dirs /\ tmp' \subseteq tmp /\ snap' \subseteq snap
      /\ \A r \in snap : r \in FilesOf(p) \/ r \in snap'
  BY DEF RemoveDir, RemoveAll, RemovePart
<1>1. server = "up" /\ p \in Portfolios /\ client[c].pc = "rmdir" /\ status[p] = "deleted"
  BY <1>0, ClientFacts DEF IInv, FileInv, RemovalsAreSafe
<1>2. TableInv' /\ Frame({})
  BY <1>0, TableUnchanged DEF IInv
<1>3. ClientLeaves(c)
  BY LeaveMoves DEF RemoveDir, IInv, HolderInv
<1>4. HolderInv'
  BY <1>0, <1>1, <1>2, <1>3, HolderClient DEF IInv, TableInv, TablesOK, Frame
<1>5. HeldStatus'
  BY <1>0, <1>2, <1>3, HeldStatusClient DEF IInv, ClientLeaves, IdleClient
<1>6. FileInv'
  <2>1. FilesOK'
    BY <1>0 DEF IInv, FileInv, FilesOK
  <2>2. SnapshotOnDisk'
    BY <1>0, <1>1
    DEF FilesOf, IInv, FileInv, SnapshotOnDisk, TableInv, TablesOK, PathsHaveRows,
        RowsHavePortfolio, Live, tables
  <2>3. \A d \in Clients : client'[d].pc = "rmdir" => client'[d] = client[d]
    BY <1>3 DEF ClientLeaves, IdleClient
  <2>4. \A v \in Workers : worker[v].pc = "ready" /\ Live(owner[worker[v].run])
                           => worker[v].run \in snap'
    BY <1>0, <1>1 DEF FilesOf, IInv, FileInv, RemovalsAreSafe, Live
  <2> QED
    BY <1>0, <2>1, <2>2, <2>3, <2>4 DEF IInv, FileInv, RemovalsAreSafe, Live, tables
<1> QED
  BY <1>2, <1>4, <1>5, <1>6 DEF IInv, Frame

\* A process that holds nothing.
LEMMA QuietKeeps ==
    ASSUME TableInv', FilesOK', SnapshotOnDisk', server' \in {"down", "boot", "up"},
           tasks' = <<>>,
           worker' = [w \in Workers |-> IdleWorker],
           client' = [c \in Clients |-> IdleClient]
    PROVE  IInv'
<1>0. tasks' \in Seq(RunIds) /\ Len(tasks') = 0
  OBVIOUS
<1>1. HolderInv'
  BY <1>0, RunsAssumption
  DEF HolderInv, ProcsOK, ClientsHaveTarget, HeldIdsUsed, HeldOnce, QuietUnlessUp, HoldsClient,
      HoldsWorker, IdleWorker, IdleClient, WorkerState, ClientState, WorkerPC, ClientPC
<1>2. HeldStatus'
  BY <1>0 DEF HeldStatus, HoldsClient, IdleWorker, IdleClient
<1>3. FileInv'
  BY DEF FileInv, RemovalsAreSafe, IdleWorker, IdleClient
<1> QED
  BY <1>1, <1>2, <1>3 DEF IInv

\* The empty tables and the stopped server satisfy the invariant.
LEMMA InitEstablishes == Init => IInv
<1> SUFFICES ASSUME Init PROVE IInv
  OBVIOUS
<1> USE RunsAssumption DEF Init
<1>0. (CHOOSE n \in Retentions : TRUE) \in Retentions
  OBVIOUS
<1>1. TableInv
  BY <1>0
  DEF TableInv, TablesOK, IdsInOrder, InflightNewest, RowsHavePortfolio, PathsHaveRows,
      RunningIsBacked, NewestKept, Newest, ActiveIsOwn, Live, Exists, Inflight, RunsOf, RunIds,
      PortfolioStatus, RunStatus
<1>2. tasks \in Seq(RunIds) /\ Len(tasks) = 0
  OBVIOUS
<1>3. HolderInv
  BY <1>2
  DEF HolderInv, ProcsOK, ClientsHaveTarget, HeldIdsUsed, HeldOnce, QuietUnlessUp, HoldsClient,
      HoldsWorker, IdleWorker, IdleClient, WorkerState, ClientState, WorkerPC, ClientPC
<1>4. HeldStatus
  BY <1>2 DEF HeldStatus, HoldsClient, IdleWorker, IdleClient
<1>5. FileInv
  BY DEF FileInv, FilesOK, SnapshotOnDisk, RemovalsAreSafe, IdleWorker, IdleClient
<1> QED
  BY <1>1, <1>3, <1>4, <1>5 DEF IInv

\* A crash drops the holders and leaves tables and files alone.
LEMMA CrashKeeps ==
    ASSUME IInv, Crash
    PROVE  IInv' /\ RowStep
<1>1. TableInv' /\ FilesOK' /\ SnapshotOnDisk' /\ RowStep
  BY TableUnchanged DEF Frame, Crash, IInv, FileInv, FilesOK, SnapshotOnDisk, files, tables
<1> QED
  BY <1>1, QuietKeeps DEF Crash

\* A restart preserves the invariant.
LEMMA BootKeeps ==
    ASSUME IInv, Boot
    PROVE  IInv' /\ RowStep
<1>1. TableInv' /\ FilesOK' /\ SnapshotOnDisk' /\ RowStep
  BY TableUnchanged DEF Frame, Boot, IInv, FileInv, FilesOK, SnapshotOnDisk, files, tables
<1>2. /\ tasks' = <<>>
      /\ worker' = [w \in Workers |-> IdleWorker]
      /\ client' = [c \in Clients |-> IdleClient]
  BY DEF Boot, IInv, HolderInv, ProcsOK, QuietUnlessUp
<1> QED
  BY <1>1, <1>2, QuietKeeps DEF Boot

\* The sweep fails what is in flight while nobody holds a run.
LEMMA StartupSweepKeeps ==
    ASSUME IInv, StartupSweep
    PROVE  IInv' /\ RowStep
<1>1. UNCHANGED tables \/ MarkAllRunningAsFailed
  BY DEF StartupSweep, Apply
<1>2. TableInv' /\ hasPath' = hasPath /\ RowStep
  BY <1>1, TableUnchanged, TableSweep DEF Frame, IInv, MarkAllRunningAsFailed, tables
<1>3. FilesOK' /\ SnapshotOnDisk'
  BY <1>2 DEF StartupSweep, IInv, FileInv, FilesOK, SnapshotOnDisk
<1>4. /\ tasks' = <<>>
      /\ worker' = [w \in Workers |-> IdleWorker]
      /\ client' = [c \in Clients |-> IdleClient]
  BY DEF StartupSweep, IInv, HolderInv, ProcsOK, QuietUnlessUp
<1> QED
  BY <1>2, <1>3, <1>4, QuietKeeps DEF StartupSweep

-----------------------------------------------------------------------------
(* The invariant. *)

\* Every step preserves the invariant and moves rows only forward.
LEMMA NextKeeps == IInv /\ Next => IInv' /\ RowStep
<1> SUFFICES ASSUME IInv, Next PROVE IInv' /\ RowStep
  OBVIOUS
<1>1. ASSUME NEW c \in Clients, ClientStart(c) PROVE IInv' /\ RowStep
  BY <1>1, CreateKeeps, RequestRunKeeps, LoadUpgradeTargetsKeeps, DeleteKeeps,
     UpdateRunRetentionKeeps DEF ClientStart
<1>2. ASSUME NEW c \in Clients, ClientStep(c) PROVE IInv' /\ RowStep
  BY <1>2, ApplyUpgradeKeeps, SubmitInsertKeeps, SubmitEnqueueKeeps, SubmitRejectKeeps,
     RollbackKeeps, RemoveDirKeeps DEF ClientStep
<1>3. ASSUME NEW w \in Workers, WorkerStep(w) PROVE IInv' /\ RowStep
  BY <1>3, TakeTaskKeeps, LoadKeeps, MarkRunningKeeps, PrepareKeeps, RunBacktestKeeps,
     PublishKeeps, MarkReadyKeeps, FailKeeps, PruneKeeps, RemoveSnapshotKeeps, CompleteKeeps
  DEF WorkerStep
<1>4. ASSUME Crash \/ Boot \/ StartupSweep PROVE IInv' /\ RowStep
  BY <1>4, CrashKeeps, BootKeeps, StartupSweepKeeps
<1> QED
  BY <1>1, <1>2, <1>3, <1>4 DEF Next

\* A stuttering step preserves the invariant.
LEMMA StutterKeeps == IInv /\ UNCHANGED vars => IInv'
<1> SUFFICES ASSUME IInv, UNCHANGED vars PROVE IInv'
  OBVIOUS
<1>1. TableInv' /\ Frame({}) /\ hasPath' = hasPath /\ UNCHANGED <<files, procs>>
  BY TableUnchanged DEF IInv, vars, tables, files, procs
<1> QED
  BY <1>1, IdleClientKeeps

\* The inductive invariant holds in every reachable state.
THEOREM Invariance == Spec => []IInv
<1>1. IInv /\ [Next]_vars => IInv'
  BY NextKeeps, StutterKeeps
<1> QED
  BY <1>1, InitEstablishes, PTL DEF Spec

\* Tables, files and processes stay in their types.
THEOREM TypeCorrect == Spec => []TypeOK
<1>1. IInv => TypeOK
  BY DEF IInv, TypeOK, TableInv, HolderInv, FileInv
<1> QED
  BY <1>1, Invariance, PTL

\* At most one run of a portfolio is queued or running.
THEOREM OneInflightHolds == Spec => []OneInflight
<1>1. IInv => OneInflight
  <2> SUFFICES ASSUME IInv, NEW r \in RunIds, NEW q \in RunIds, Inflight(r), Inflight(q),
                      owner[r] = owner[q], r # q
               PROVE  FALSE
    BY DEF OneInflight
  <2>1. r <= last /\ q <= last /\ (r < q \/ q < r)
    BY RunsAssumption DEF IInv, TableInv, TablesOK, IdsInOrder, Inflight, RunIds
  <2> QED
    BY <2>1 DEF IInv, TableInv, InflightNewest
<1> QED
  BY <1>1, Invariance, PTL

\* A portfolio shown as running has a running row.
THEOREM RunningIsBackedHolds == Spec => []RunningIsBacked
<1>1. IInv => RunningIsBacked
  BY DEF IInv, TableInv
<1> QED
  BY <1>1, Invariance, PTL

\* No two workers execute runs of one portfolio, and the guard against a
\* portfolio that is already running never fires.
THEOREM ExclusiveExecutionHolds == Spec => []ExclusiveExecution
<1>1. IInv => ExclusiveExecution
  <2> SUFFICES ASSUME IInv PROVE ExclusiveExecution
    OBVIOUS
  <2>1. \A w \in Workers : HoldsWorker(w) => worker[w].run \in RunIds /\ worker[w].run <= last
    BY RunsAssumption DEF IInv, HolderInv, HeldIdsUsed, TableInv, TablesOK, RunIds
  <2>2. ASSUME NEW v \in Workers, NEW w \in Workers, Executing(v), Executing(w), v # w,
               owner[worker[v].run] = owner[worker[w].run]
        PROVE  FALSE
    <3>1. HoldsWorker(v) /\ HoldsWorker(w)
      BY <2>2 DEF Executing, HoldsWorker
    <3>2. Newest(worker[v].run) /\ Newest(worker[w].run)
      BY <2>2 DEF Executing, IInv, HeldStatus, RowIs
    <3>3. worker[v].run <= worker[w].run /\ worker[w].run <= worker[v].run
      BY <2>1, <2>2, <3>1, <3>2 DEF Newest
    <3>4. worker[v].run = worker[w].run
      BY <2>1, <3>1, <3>3, RunsAssumption DEF RunIds
    <3> QED
      BY <2>2, <3>1, <3>4 DEF IInv, HolderInv, HeldOnce
  <2>3. ASSUME NEW w \in Workers, worker[w].pc = "load", status[owner[worker[w].run]] = "running"
        PROVE  FALSE
    <3> DEFINE r == worker[w].run
    <3>1. r \in RunIds /\ r <= last /\ owner[r] \in Portfolios
      BY <2>1, <2>3 DEF HoldsWorker, IInv, TableInv, IdsInOrder
    <3>2. Newest(r) /\ run[r] = "queued"
      BY <2>3 DEF IInv, HeldStatus, RowIs
    <3>3. PICK q \in RunIds : run[q] = "running" /\ owner[q] = owner[r]
      BY <2>3, <3>1 DEF IInv, TableInv, RunningIsBacked, RunsOf
    <3>4. q <= last /\ q # r
      BY <3>2, <3>3, RunsAssumption DEF IInv, TableInv, TablesOK, IdsInOrder, RunIds
    <3>5. q < r
      BY <3>1, <3>2, <3>3, <3>4, RunsAssumption DEF Newest, RunIds
    <3> QED
      BY <3>1, <3>3, <3>5 DEF IInv, TableInv, InflightNewest, Inflight
  <2> QED
    BY <2>2, <2>3 DEF ExclusiveExecution
<1> QED
  BY <1>1, Invariance, PTL

\* A nonempty set of run ids has a greatest element.
LEMMA GreatestRun ==
    ASSUME NEW S, S \subseteq RunIds, S # {}
    PROVE  \E m \in S : \A x \in S : x <= m
<1> DEFINE T == {MaxRuns - x : x \in S}
           L == OpToRel(<, Nat)
<1>0. \A x \in RunIds : MaxRuns - x \in Nat
  BY RunsAssumption DEF RunIds
<1>1. T \subseteq Nat /\ T # {}
  BY <1>0
<1>2. PICK t \in T : \A y \in T : ~(<<y, t>> \in L)
  BY <1>1, NatLessThanWellFounded, WFMin
<1>3. \A y \in T : t <= y
  <2> SUFFICES ASSUME NEW y \in T, ~(t <= y) PROVE FALSE
    OBVIOUS
  <2>1. y \in Nat /\ t \in Nat /\ y < t
    BY <1>1
  <2>2. <<y, t>> \in L
    BY <2>1 DEF OpToRel
  <2> QED
    BY <1>2, <2>2
<1>4. PICK m \in S : t = MaxRuns - m
  OBVIOUS
<1>5. \A x \in S : x <= m
  BY <1>3, <1>4, RunsAssumption DEF RunIds
<1> QED
  BY <1>5

\* A ready portfolio has its snapshot's row or a newer one.
THEOREM ReadyOrSupersededHolds == Spec => []ReadyOrSuperseded
<1>1. IInv => ReadyOrSuperseded
  <2> SUFFICES ASSUME IInv, NEW p \in Portfolios, status[p] = "ready"
               PROVE  /\ active[p] # 0
                      /\ active[p] \in RunsOf(p) \/ \E r \in RunsOf(p) : r > active[p]
    BY DEF ReadyOrSuperseded
  <2> DEFINE S == {r \in RunIds : r <= last /\ owner[r] = p}
  <2>1. active[p] \in S
    BY RunsAssumption DEF IInv, TableInv, TablesOK, ActiveIsOwn, RunIds
  <2>2. PICK m \in S : \A x \in S : x <= m
    BY <2>1, GreatestRun
  <2>3. Newest(m) /\ m <= last /\ owner[m] = p
    BY <2>2 DEF Newest
  <2>4. m \in RunsOf(p)
    BY <2>3 DEF IInv, TableInv, NewestKept, Live, RunsOf
  <2> QED
    BY <2>1, <2>2, <2>4, RunsAssumption DEF RunIds
<1> QED
  BY <1>1, Invariance, PTL

\* A recorded snapshot path names an existing file.
THEOREM SnapshotOnDiskHolds == Spec => []SnapshotOnDisk
<1>1. IInv => SnapshotOnDisk
  BY DEF IInv, FileInv
<1> QED
  BY <1>1, Invariance, PTL

\* An unfinished row goes only with its portfolio.
THEOREM PruneKeepsInflightHolds == Spec => PruneKeepsInflight
<1> DEFINE A == \A r \in RunIds :
                  Inflight(r) /\ run'[r] = "gone" => status'[owner[r]] = "deleted"
<1>1. IInv /\ [Next]_vars => [A]_vars
  BY NextKeeps DEF RowStep
<1> QED
  BY <1>1, Invariance, PTL DEF Spec, PruneKeepsInflight

\* An ended run does not start again and a deleted row does not come back.
THEOREM EndedStaysEndedHolds == Spec => EndedStaysEnded
<1> DEFINE A == \A r \in RunIds :
                  /\ run[r] \in {"success", "failed"} => run'[r] \notin {"queued", "running"}
                  /\ run[r] = "gone" => run'[r] = "gone"
<1>1. IInv /\ [Next]_vars => [A]_vars
  BY NextKeeps DEF RowStep
<1> QED
  BY <1>1, Invariance, PTL DEF Spec, EndedStaysEnded

-----------------------------------------------------------------------------
(***************************************************************************)
(* The refinement.  The mapping reads the tables only, so the argument is   *)
(* one lemma per transaction: it is a step of RunService, or one the         *)
(* service does not see.  The invariant says which row a caller holds, and   *)
(* in which status.                                                          *)
(***************************************************************************)

\* A step of the service, or none.
Served == Service!ANext \/ UNCHANGED Service!avars

\* Nothing happens to the tables.
LEMMA ServedUnchanged ==
    ASSUME UNCHANGED tables
    PROVE  Served
BY DEF Served, Service!avars, tables, Known, Result, Live, Inflight

-----------------------------------------------------------------------------
(* The transactions. *)

\* INSERT INTO portfolios is POST /portfolios.
LEMMA ServedInsertPortfolio ==
    ASSUME TableInv, NEW p \in Portfolios, status[p] = "none",
           status' = [status EXCEPT ![p] = "pending"],
           UNCHANGED <<active, run, owner>>
    PROVE  Served
<1>1. Known' = [Known EXCEPT ![p] = "live"] /\ Known[p] = "none"
  BY DEF Known, Live, TableInv, TablesOK
<1>2. Result' = Result
  BY DEF Result, Inflight
<1>3. Service!Create(p)
  BY <1>1, <1>2 DEF Service!Create
<1> QED
  BY <1>3 DEF Served, Service!ANext

\* A status column that stays that of a live portfolio is not seen.
LEMMA ServedStatus ==
    ASSUME TableInv, NEW p \in Portfolios, NEW s \in {"pending", "running"},
           status' = SetStatus(p, s), Result' = Result,
           UNCHANGED <<owner, active>>
    PROVE  Served
<1>1. Known' = Known
  BY DEF Known, Live, SetStatus, TableInv, TablesOK
<1> QED
  BY <1>1 DEF Served, Service!avars

\* DELETE FROM portfolios, with its cascade, is DELETE /portfolios/{slug}.
LEMMA ServedDelete ==
    ASSUME TableInv, NEW p \in Portfolios, Live(p), DeletePortfolio(p)
    PROVE  Served
<1> USE DEF TableInv, TablesOK, DeletePortfolio
<1>1. Known' = [Known EXCEPT ![p] = "deleted"] /\ Known[p] = "live"
  BY DEF Known, Live
<1>2. Result' = [r \in RunIds |-> IF owner[r] = p THEN "gone" ELSE Result[r]]
  <2> SUFFICES ASSUME NEW r \in RunIds
               PROVE  Result'[r] = IF owner[r] = p THEN "gone" ELSE Result[r]
    BY DEF Result
  <2>1. owner[r] = p => run[r] # "none"
    BY RunsAssumption DEF IdsInOrder, RunIds
  <2>2. owner[r] = p /\ ~Exists(r) => run[r] = "gone"
    BY <2>1 DEF Exists, RunStatus
  <2>3. run'[r] = IF owner[r] = p THEN "gone" ELSE run[r]
    BY <2>2 DEF DeleteRuns, RunsOf
  <2> QED
    BY <2>3 DEF Result, Inflight
<1>3. Service!Delete(p)
  BY <1>1, <1>2 DEF Service!Delete
<1> QED
  BY <1>3 DEF Served, Service!ANext

\* INSERT INTO backtest_runs is an accepted run under the next id.
LEMMA ServedCreateRun ==
    ASSUME TableInv, NEW p \in Portfolios, CanCreateRun(p), CreateRun(p)
    PROVE  Served
<1> USE RunsAssumption DEF TableInv, TablesOK, CreateRun
<1>1. last + 1 \in RunIds
  BY DEF RunIds
<1>2. Known' = Known /\ Known[p] = "live"
  BY DEF Known, Live, CanCreateRun
<1>3. Result' = [Result EXCEPT ![last + 1] = "inflight"]
  BY <1>1 DEF Result, Inflight
<1>4. \A q \in RunIds : ~(owner[q] = p /\ Result[q] = "inflight")
  BY DEF CanCreateRun, NoneInflight, RunsOf, Exists, Inflight, Result, RunStatus
<1>5. \A q \in RunIds : Result[q] = "unused" <=> q >= last + 1
  <2> TAKE q \in RunIds
  <2>1. Result[q] = "unused" <=> run[q] = "none"
    BY DEF Result, Inflight, RunStatus
  <2>2. run[q] = "none" <=> q > last
    BY DEF IdsInOrder
  <2> QED
    BY <2>1, <2>2 DEF RunIds
<1>6. Service!Submit(p, last + 1)
  BY <1>2, <1>3, <1>4, <1>5 DEF Service!Submit
<1> QED
  BY <1>1, <1>6 DEF Served, Service!ANext

\* Writing "failed" into a row that exists ends it, or takes back a success.
LEMMA ServedRunFailed ==
    ASSUME TableInv, NEW r \in RunIds, run' = SetRun(r, "failed"), Known' = Known,
           UNCHANGED <<owner, active>>
    PROVE  Served
<1> USE DEF TableInv, TablesOK, SetRun
<1>1. CASE ~Exists(r) \/ run[r] = "failed"
  <2>1. Result' = Result
    BY <1>1 DEF Result, Inflight, Exists
  <2> QED
    BY <2>1 DEF Served, Service!avars
<1>2. CASE Exists(r) /\ run[r] # "failed"
  <2>1. Result' = [Result EXCEPT ![r] = "failed"]
    BY <1>2 DEF Result, Inflight
  <2>2. Result[r] = "inflight" \/ Result[r] = "success"
    BY <1>2 DEF Result, Inflight, Exists
  <2>3. Service!Fail(r) \/ Service!Retract(r)
    BY <2>1, <2>2 DEF Service!Fail, Service!Retract
  <2> QED
    BY <2>3 DEF Served, Service!ANext
<1> QED
  BY <1>1, <1>2

\* MarkRunningTx is not seen: the row was queued, and in flight it stays.
LEMMA ServedMarkRunning ==
    ASSUME TableInv, NEW r \in RunIds, owner[r] \in Portfolios, RowIs(r, "queued"),
           MarkRunningTx(owner[r], r)
    PROVE  Served
<1>1. Result' = Result
  BY DEF Result, Inflight, MarkRunningTx, SetRun, RowIs, TableInv, TablesOK, Exists
<1> QED
  BY <1>1, ServedStatus DEF MarkRunningTx

\* MarkReadyTx ends a run that is in flight and shows it, or finds both rows gone.
LEMMA ServedMarkReady ==
    ASSUME TableInv, NEW r \in RunIds, owner[r] \in Portfolios, RowIs(r, "running"),
           MarkReadyTx(owner[r], r)
    PROVE  Served
<1> USE DEF TableInv, TablesOK, MarkReadyTx, SetStatus, SetRun
<1>1. Known' = Known
  BY DEF Known, Live
<1>2. CASE run[r] = "running"
  <2>1. Exists(r) /\ Live(owner[r])
    BY <1>2 DEF RowsHavePortfolio, Exists
  <2>2. Result' = [Result EXCEPT ![r] = "success"] /\ Result[r] = "inflight"
    BY <1>2, <2>1 DEF Result, Inflight
  <2>3. Service!Succeed(r)
    BY <1>1, <2>1, <2>2 DEF Service!Succeed
  <2> QED
    BY <2>3 DEF Served, Service!ANext
<1>3. CASE run[r] = "gone" /\ status[owner[r]] = "deleted"
  <2>1. ~Exists(r) /\ ~Live(owner[r])
    BY <1>3 DEF Exists, Live
  <2>2. Result' = Result
    BY <2>1 DEF Result, Inflight
  <2> QED
    BY <1>1, <2>1, <2>2 DEF Served, Service!avars
<1> QED
  BY <1>2, <1>3 DEF RowIs

\* MarkFailedTx.
LEMMA ServedMarkFailed ==
    ASSUME TableInv, NEW r \in RunIds, owner[r] \in Portfolios, MarkFailedTx(owner[r], r)
    PROVE  Served
<1>1. Known' = Known
  BY DEF Known, Live, MarkFailedTx, SetStatus, TableInv, TablesOK
<1> QED
  BY <1>1, ServedRunFailed DEF MarkFailedTx

\* MarkAllRunningAsFailed.
LEMMA ServedSweep ==
    ASSUME TableInv, MarkAllRunningAsFailed
    PROVE  Served
<1>1. Known' = Known
  BY DEF Known, Live, MarkAllRunningAsFailed, TableInv, TablesOK
<1>2. Result' = [r \in RunIds |-> IF Result[r] = "inflight" THEN "failed" ELSE Result[r]]
  BY DEF Result, Inflight, MarkAllRunningAsFailed, TableInv, TablesOK, RunStatus
<1>3. Service!Interrupt
  BY <1>1, <1>2 DEF Service!Interrupt, MarkAllRunningAsFailed
<1> QED
  BY <1>3 DEF Served, Service!ANext

\* PruneRuns forgets ended runs; the newest run of the portfolio is never one of them.
LEMMA ServedPrune ==
    ASSUME TableInv, NEW p \in Portfolios, PruneRuns(p)
    PROVE  Served
<1> DEFINE V == PruneVictims(p)
<1> USE DEF TableInv, TablesOK, PruneRuns, DeleteRuns
<1>1. Known' = Known
  BY DEF Known, Live
<1>2. \A r \in RunIds : Result'[r] = IF r \in V THEN "gone" ELSE Result[r]
  BY DEF Result, Inflight
<1>3. \A r \in V : r \in RunIds /\ owner[r] = p /\ Result[r] \in {"success", "failed"}
  BY VictimEnded DEF Result, Inflight, Exists
<1>4. ASSUME NEW r \in V
      PROVE  \E q \in RunIds : q > r /\ owner[q] = owner[r] /\ Result'[q] # "gone"
  <2>1. r \in RunsOf(p) /\ RunsOf(p) \subseteq RunIds
    BY DEF PruneVictims, RunsOf
  <2>2. PICK q \in RunsOf(p) : \A x \in RunsOf(p) : x <= q
    BY <2>1, GreatestRun
  <2>3. q \notin V
    BY <2>2, VictimHasNewer DEF RunsOf, RunIds
  <2>4. q \in RunIds /\ owner[q] = p /\ Exists(q)
    BY DEF RunsOf
  <2>5. q # r /\ r <= q
    BY <2>1, <2>2, <2>3
  <2>6. Result'[q] # "gone"
    BY <1>2, <2>3, <2>4 DEF Result, Inflight, Exists
  <2> QED
    BY <1>3, <2>4, <2>5, <2>6 DEF RunIds
<1>5. Result' \in [RunIds -> {"unused", "inflight", "success", "failed", "gone"}]
  BY DEF Result, Inflight, RunStatus
<1>6. Service!Forget
  BY <1>1, <1>2, <1>3, <1>4, <1>5 DEF Service!Forget, Service!Results
<1> QED
  BY <1>6 DEF Served, Service!ANext

-----------------------------------------------------------------------------
(* The actions. *)

\* The handlers and upgraders.
LEMMA ServedClientStart ==
    ASSUME IInv, NEW c \in Clients, ClientStart(c)
    PROVE  Served
<1> USE DEF IInv
<1>1. PICK p \in Portfolios :
        \/ Create(c, p) \/ RequestRun(c, p) \/ LoadUpgradeTargets(c, p)
        \/ Delete(c, p) \/ UpdateRunRetention(c, p)
  BY DEF ClientStart
<1>2. CASE Create(c, p)
  BY <1>2, ServedUnchanged, ServedInsertPortfolio DEF Create, Apply
<1>3. CASE RequestRun(c, p) \/ LoadUpgradeTargets(c, p)
  BY <1>3, ServedUnchanged DEF RequestRun, LoadUpgradeTargets
<1>4. CASE Delete(c, p)
  BY <1>4, ServedUnchanged, ServedDelete DEF Delete, Apply
<1>5. CASE UpdateRunRetention(c, p)
  BY <1>5 DEF UpdateRunRetention, Served, Service!avars, Known, Result, Live, Inflight
<1> QED
  BY <1>1, <1>2, <1>3, <1>4, <1>5

\* A client that holds a row holds it as queued.
LEMMA ClientHolds ==
    ASSUME IInv, NEW c \in Clients, HoldsClient(c)
    PROVE  client[c].run \in RunIds
BY RunsAssumption DEF IInv, HolderInv, HeldIdsUsed, TableInv, TablesOK, RunIds

\* Dispatcher.Submit and what follows it.
LEMMA ServedClientStep ==
    ASSUME IInv, NEW c \in Clients, ClientStep(c)
    PROVE  Served
<1> DEFINE p == client[c].p
<1> USE DEF IInv
<1>0. client[c].pc # "idle" => p \in Portfolios
  BY DEF HolderInv, ClientsHaveTarget
<1>1. CASE ApplyUpgrade(c)
  <2>1. p \in Portfolios
    BY <1>0, <1>1 DEF ApplyUpgrade, Serving
  <2>2. CASE UNCHANGED tables
    BY <2>2, ServedUnchanged
  <2>3. CASE status' = SetStatus(p, "pending") /\ UNCHANGED <<active, run, owner>>
    <3>1. Result' = Result
      BY <2>3 DEF Result, Inflight
    <3> QED
      BY <2>1, <2>3, <3>1, ServedStatus
  <2> QED
    BY <1>1, <2>2, <2>3 DEF ApplyUpgrade, Apply
<1>2. CASE SubmitInsert(c)
  <2>1. p \in Portfolios
    BY <1>0, <1>2 DEF SubmitInsert, Serving
  <2> QED
    BY <1>2, <2>1, ServedUnchanged, ServedCreateRun DEF SubmitInsert, Apply
<1>3. CASE SubmitEnqueue(c) \/ RemoveDir(c)
  BY <1>3, ServedUnchanged DEF SubmitEnqueue, RemoveDir
<1>4. CASE SubmitReject(c)
  <2>1. client[c].run \in RunIds
    BY <1>4, ClientHolds DEF SubmitReject, Serving, HoldsClient
  <2>2. CASE UNCHANGED tables
    BY <2>2, ServedUnchanged
  <2>3. CASE UpdateRunFailed(client[c].run)
    <3>1. Known' = Known
      BY <2>3 DEF UpdateRunFailed, Known, Live
    <3> QED
      BY <2>1, <2>3, <3>1, ServedRunFailed DEF UpdateRunFailed
  <2> QED
    BY <1>4, <2>2, <2>3 DEF SubmitReject, Apply
<1>5. CASE Rollback(c)
  <2>1. p \in Portfolios
    BY <1>0, <1>5 DEF Rollback, Serving
  <2> QED
    BY <1>5, <2>1, ServedUnchanged, ServedDelete DEF Rollback, Apply
<1> QED
  BY <1>1, <1>2, <1>3, <1>4, <1>5 DEF ClientStep

\* orchestrator.Run.
LEMMA ServedWorkerStep ==
    ASSUME IInv, NEW w \in Workers, WorkerStep(w)
    PROVE  Served
<1> DEFINE r == worker[w].run
<1> USE DEF IInv
<1>0. ASSUME NEW pc, At(w, pc), pc # "idle"
      PROVE  r \in RunIds /\ owner[r] \in Portfolios
  BY <1>0, WorkerFacts
<1>1. CASE UNCHANGED tables
  BY <1>1, ServedUnchanged
<1>2. CASE Load(w)
  <2>1. r \in RunIds
    BY <1>0, <1>2 DEF Load
  <2>2. CASE UpdateRunFailed(r)
    <3>1. Known' = Known
      BY <2>2 DEF UpdateRunFailed, Known, Live
    <3> QED
      BY <2>1, <2>2, <3>1, ServedRunFailed DEF UpdateRunFailed
  <2> QED
    BY <1>1, <1>2, <2>2 DEF Load, Apply
<1>3. CASE MarkRunning(w)
  <2>1. r \in RunIds /\ owner[r] \in Portfolios
    BY <1>0, <1>3 DEF MarkRunning
  <2>2. RowIs(r, "queued")
    BY <1>3 DEF MarkRunning, At, HeldStatus
  <2> QED
    BY <1>1, <1>3, <2>1, <2>2, ServedMarkRunning DEF MarkRunning, Apply
<1>4. CASE MarkReady(w)
  <2>1. r \in RunIds /\ owner[r] \in Portfolios
    BY <1>0, <1>4 DEF MarkReady
  <2>2. RowIs(r, "running")
    BY <1>4 DEF MarkReady, At, HeldStatus
  <2> QED
    BY <1>1, <1>4, <2>1, <2>2, ServedMarkReady DEF MarkReady, Apply
<1>5. CASE Fail(w)
  <2>1. r \in RunIds /\ owner[r] \in Portfolios
    BY <1>0, <1>5 DEF Fail
  <2> QED
    BY <1>1, <1>5, <2>1, ServedMarkFailed DEF Fail, Apply
<1>6. CASE Prune(w)
  <2>1. owner[r] \in Portfolios
    BY <1>0, <1>6 DEF Prune
  <2> QED
    BY <1>1, <1>6, <2>1, ServedPrune DEF Prune, Apply
<1>7. CASE \/ TakeTask(w) \/ Prepare(w) \/ RunBacktest(w) \/ Publish(w)
           \/ RemoveSnapshot(w) \/ Complete(w)
  BY <1>1, <1>7 DEF TakeTask, Prepare, RunBacktest, Publish, RemoveSnapshot, Complete
<1> QED
  BY <1>2, <1>3, <1>4, <1>5, <1>6, <1>7 DEF WorkerStep

\* Every step of the detailed specification is a step of the service or none.
LEMMA StepServed == IInv /\ [Next]_vars => [Service!ANext]_(Service!avars)
<1> SUFFICES ASSUME IInv, [Next]_vars PROVE Served
  BY DEF Served
<1>1. ASSUME NEW c \in Clients, ClientStart(c) \/ ClientStep(c) PROVE Served
  BY <1>1, ServedClientStart, ServedClientStep
<1>2. ASSUME NEW w \in Workers, WorkerStep(w) PROVE Served
  BY <1>2, ServedWorkerStep
<1>3. CASE Crash \/ Boot
  BY <1>3, ServedUnchanged DEF Crash, Boot
<1>4. CASE StartupSweep
  BY <1>4, ServedUnchanged, ServedSweep DEF StartupSweep, Apply, IInv
<1>5. CASE UNCHANGED vars
  BY <1>5, ServedUnchanged DEF vars, tables
<1> QED
  BY <1>1, <1>2, <1>3, <1>4, <1>5 DEF Next

\* The backtest service, with its queue, its workers, its sweep and every failure
\* of a transaction, keeps the promise of RunService: runs are accepted one at a
\* time and under growing ids, end once, are shown when they succeed, and are
\* forgotten only with a newer run left or with their portfolio.
THEOREM Refinement == Spec => RunServiceKept
<1>1. Init => Service!AInit
  BY DEF Init, Service!AInit, Known, Result, Live, Inflight
<1> QED
  BY <1>1, StepServed, Invariance, PTL DEF Spec, RunServiceKept, Service!ASpec
=============================================================================
