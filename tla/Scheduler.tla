------------------------------ MODULE Scheduler ------------------------------
(***************************************************************************)
(* The nightly scheduler: it sleeps until 8 PM Eastern of a trading day,    *)
(* claims the open-ended portfolios that have had no scheduled run on the   *)
(* current calendar day and submits them to the dispatcher, retrying while  *)
(* the dispatcher's channel is full.  Users start manual runs, workers run  *)
(* what is queued, the clock goes on, and the server may be restarted.      *)
(*                                                                         *)
(* Dispatcher.Submit and orchestrator.Run, which BacktestRuns takes apart,  *)
(* are single steps here.  An instant is a day and one of its halves: before *)
(* (2d) or from (2d + 1) 8 PM on.                                            *)
(***************************************************************************)
EXTENDS Integers, Sequences, FiniteSets

CONSTANTS
    Portfolios,     \* open-ended portfolios, all of them ready at first
    TradingDays,    \* days the market calendar of tradecron has open
    LastDay,        \* bound: the clock stops on this day
    Workers,        \* how many runs the dispatcher executes at a time
    QueueCap,       \* capacity of the dispatcher's channel
    BatchSize,      \* Config.BatchSize
    Retention,      \* run_retention of the portfolios
    MaxManual,      \* bound: manual runs
    MaxFaults,      \* bound: restarts of the server and failures of the
                    \* statements that start and end a run
    HardErrors      \* whether ClaimDue may fail, and Submit but for a full queue

ASSUME SchedulerAssumption ==
    /\ LastDay \in Nat \ {0} /\ TradingDays \subseteq 1..LastDay
    /\ Workers \in Nat \ {0} /\ QueueCap \in Nat \ {0} /\ BatchSize \in Nat \ {0}
    /\ Retention \in Nat \ {0}
    /\ MaxManual \in Nat /\ MaxFaults \in Nat
    /\ HardErrors \in BOOLEAN

VARIABLES
    now,            \* the instant
    status,         \* portfolios.status
    runs,           \* backtest_runs of each portfolio, oldest first
    queue,          \* the dispatcher's channel: portfolios whose run is queued
    working,        \* portfolios whose run a worker executes
    sch,            \* the scheduler
    manuals,        \* manual runs so far
    faults,         \* restarts and failures of a run's statements so far
    served,         \* history: the days on which a scheduled run has started
    left            \* history: the portfolios the last pass left without a run

vars == <<now, status, runs, queue, working, sch, manuals, faults, served, left>>

Days     == 1..LastDay
Instants == 2..(2 * LastDay + 1)
Day(t)   == t \div 2
Never    == 2 * LastDay + 2

\* A row ends as success or failed and leaves its portfolio ready or failed;
\* ClaimDue treats the two alike, and so they are one value here.
NotStarted == 0
Row      == [trigger : {"scheduled", "manual"}, day : Days \cup {NotStarted},
             status : {"queued", "running", "ended"}]
PC       == {"off", "sleep", "claim", "submit", "wait"}
SchState == [pc : PC, fire : Instants \cup {Never}, until : Instants \cup {Never},
             ids : SUBSET Portfolios, dispatched : BOOLEAN, full : BOOLEAN]

TypeOK ==
    /\ now \in Instants
    /\ status \in [Portfolios -> {"running", "done"}]
    /\ runs \in [Portfolios -> Seq(Row)]
    /\ queue \in Seq(Portfolios) /\ Len(queue) <= QueueCap
    /\ sch \in SchState
    /\ working \subseteq Portfolios
    /\ manuals \in 0..MaxManual /\ faults \in 0..MaxFaults
    /\ served \in [Portfolios -> SUBSET Days]
    /\ left \subseteq Portfolios

-----------------------------------------------------------------------------
(* The schedule "0 20 * * *" on trading days. *)

Fires == {2 * d + 1 : d \in TradingDays}

\* TradeCron.Next, the first fire after t.
NextFire(t) ==
    IF \E f \in Fires : f > t
    THEN CHOOSE f \in Fires : f > t /\ \A g \in Fires : g > t => f <= g
    ELSE Never

\* mostRecentFire and sameDay: a fire of today that has passed.
FiredToday(t) == \E f \in Fires : f <= t /\ Day(f) = Day(t)

-----------------------------------------------------------------------------
(* The tables and the dispatcher. *)

Newest(p)   == runs[p][Len(runs[p])]
Has(p, st)  == Len(runs[p]) > 0 /\ Newest(p).status = st
Inflight(p) == Has(p, "queued") \/ Has(p, "running")

\* Mutant: without the guard on scheduled runs of the day.
ClaimDue_AnyDay == {p \in Portfolios : status[p] = "done" /\ ~Inflight(p)}

ClaimDue ==
    {p \in Portfolios :
        /\ status[p] = "done"
        /\ ~\E i \in 1..Len(runs[p]) :
              runs[p][i].trigger = "scheduled" /\ runs[p][i].day = Day(now)
        /\ ~Inflight(p)}

NewRow(trigger, st) == [trigger |-> trigger, day |-> NotStarted, status |-> st]

\* A row rejected by the full queue never starts.  More than Retention of them
\* in a row change nothing: what is older goes at the next prune either way.
AddRejected(s, row) ==
    IF Len(s) >= Retention /\ \A i \in (Len(s) - Retention + 1)..Len(s) : s[i] = row
    THEN s
    ELSE Append(s, row)

\* Mutant: one task more than the channel holds.
Accept_OffByOne(p, trigger) ==
    /\ Len(queue) <= QueueCap
    /\ queue' = Append(queue, p)
    /\ runs' = [runs EXCEPT ![p] = Append(runs[p], NewRow(trigger, "queued"))]
    /\ UNCHANGED faults

\* Dispatcher.Submit when the portfolio has no run in flight.
Accept(p, trigger) ==
    /\ Len(queue) < QueueCap
    /\ queue' = Append(queue, p)
    /\ runs' = [runs EXCEPT ![p] = Append(runs[p], NewRow(trigger, "queued"))]
    /\ UNCHANGED faults

\* The channel is full: UpdateRunFailed ends the row, or fails and leaves it
\* queued, a row without a task.
Reject(p, trigger) ==
    /\ Len(queue) >= QueueCap
    /\ \/ /\ runs' = [runs EXCEPT ![p] = AddRejected(runs[p], NewRow(trigger, "ended"))]
          /\ UNCHANGED faults
       \/ /\ faults < MaxFaults /\ faults' = faults + 1
          /\ runs' = [runs EXCEPT ![p] = Append(runs[p], NewRow(trigger, "queued"))]
    /\ UNCHANGED queue

-----------------------------------------------------------------------------
(* The scheduler: Scheduler.Run and dispatchDue. *)

AtPC(pc) == sch.pc = pc

\* dispatchDue returns, and Run computes the next fire from the current time.
Return == [pc |-> "sleep", fire |-> NextFire(now), until |-> Never, ids |-> {},
           dispatched |-> FALSE, full |-> FALSE]

Pass(until) == [pc |-> "claim", fire |-> Never, until |-> until, ids |-> {},
                dispatched |-> FALSE, full |-> FALSE]

\* The timer of Run.
Fire ==
    /\ AtPC("sleep")
    /\ sch.fire <= now
    /\ sch' = Pass(NextFire(sch.fire))
    /\ left' = {}
    /\ UNCHANGED <<now, status, runs, queue, manuals, faults, working, served>>

\* Not due while a manual run, or a scheduled one of an earlier day, is in flight.
Busy == {p \in Portfolios :
           /\ Inflight(p)
           /\ \/ Newest(p).trigger = "manual"
              \/ Newest(p).day \notin {NotStarted, Day(now)}}

\* ClaimDue with its LIMIT; which portfolios come first depends on last_run_at.
Claim ==
    /\ AtPC("claim")
    /\ IF ClaimDue = {}
       THEN sch' = Return /\ left' = Busy
       ELSE \E ids \in SUBSET ClaimDue :
              /\ Cardinality(ids) = (IF Cardinality(ClaimDue) < BatchSize
                                     THEN Cardinality(ClaimDue) ELSE BatchSize)
              /\ sch' = [sch EXCEPT !.pc = "submit", !.ids = ids,
                                    !.dispatched = FALSE, !.full = FALSE]
              /\ UNCHANGED left
    /\ UNCHANGED <<now, status, runs, queue, manuals, faults, working, served>>

\* A failed query ends the pass.
ClaimFails ==
    /\ AtPC("claim") /\ HardErrors
    /\ sch' = Return
    /\ left' = Portfolios
    /\ UNCHANGED <<now, status, runs, queue, manuals, faults, working, served>>

\* One Submit of the batch: queued, refused as full, or refused with another
\* error, such as the unique index when a run is in flight.
SubmitClaimed ==
    /\ AtPC("submit")
    /\ \E p \in sch.ids :
         \/ /\ ~Inflight(p) /\ Accept(p, "scheduled")
            /\ sch' = [sch EXCEPT !.ids = @ \ {p}, !.dispatched = TRUE]
         \/ /\ ~Inflight(p) /\ Reject(p, "scheduled")
            /\ sch' = [sch EXCEPT !.ids = @ \ {p}, !.full = TRUE]
         \/ /\ Inflight(p) \/ HardErrors
            /\ sch' = [sch EXCEPT !.ids = @ \ {p}]
            /\ UNCHANGED <<runs, queue, faults>>
    /\ UNCHANGED <<now, status, manuals, working, served, left>>

\* Mutant: a full queue ends the pass.
BatchDone_NoRetry ==
    /\ AtPC("submit") /\ sch.ids = {}
    /\ sch' = IF sch.dispatched THEN [sch EXCEPT !.pc = "claim"] ELSE Return
    /\ left' = Busy
    /\ UNCHANGED <<now, status, runs, queue, manuals, faults, working, served>>

\* Mutant: a batch of errors is claimed again at once.
BatchDone_Spin ==
    /\ AtPC("submit") /\ sch.ids = {}
    /\ sch' = [sch EXCEPT !.pc = "claim"]
    /\ UNCHANGED <<now, status, runs, queue, manuals, faults, working, served, left>>

BatchDone ==
    /\ AtPC("submit") /\ sch.ids = {}
    /\ sch' = IF sch.full THEN [sch EXCEPT !.pc = "wait"]
              ELSE IF sch.dispatched THEN [sch EXCEPT !.pc = "claim"]
              ELSE Return
    /\ left' = IF ~sch.full /\ ~sch.dispatched THEN Portfolios ELSE left
    /\ UNCHANGED <<now, status, runs, queue, manuals, faults, working, served>>

\* TickInterval later: the next fire ends the pass.
Retry ==
    /\ AtPC("wait")
    /\ sch' = IF now >= sch.until THEN Return ELSE [sch EXCEPT !.pc = "claim"]
    /\ left' = IF now >= sch.until THEN Portfolios ELSE left
    /\ UNCHANGED <<now, status, runs, queue, manuals, faults, working, served>>

-----------------------------------------------------------------------------
(* Everyone else. *)

\* POST /portfolios/{slug}/runs
ManualRun(p) ==
    /\ sch.pc # "off"
    /\ manuals < MaxManual
    /\ status[p] # "running" /\ ~Inflight(p)
    /\ Accept(p, "manual") \/ Reject(p, "manual")
    /\ manuals' = manuals + 1
    /\ UNCHANGED <<now, status, working, sch, served, left>>

\* The newest row of s with another status, or started on day d.
Ended(s)      == [s EXCEPT ![Len(s)] = [@ EXCEPT !.status = "ended"]]
Started(s, d) == [s EXCEPT ![Len(s)] = [@ EXCEPT !.status = "running", !.day = d]]

Keep(s) == IF Len(s) <= Retention THEN s ELSE SubSeq(s, Len(s) - Retention + 1, Len(s))

\* A worker takes a task and MarkRunningTx sets started_at.
StartRun ==
    /\ queue # <<>> /\ Cardinality(working) < Workers
    /\ LET p == Head(queue)
       IN /\ runs' = [runs EXCEPT ![p] = Started(runs[p], Day(now))]
          /\ status' = [status EXCEPT ![p] = "running"]
          /\ working' = working \cup {p}
          /\ served' = IF Newest(p).trigger = "scheduled"
                       THEN [served EXCEPT ![p] = @ \cup {Day(now)}] ELSE served
    /\ queue' = Tail(queue)
    /\ UNCHANGED <<now, sch, manuals, faults, left>>

\* The run ends before that: the portfolio cannot be loaded or MarkRunningTx
\* fails.  MarkFailedTx ends the row, whose started_at stays NULL, unless it fails
\* too; PruneRuns follows.  (That the portfolio is already running, the third
\* exit, does not happen: RowsInv.)
FailRun ==
    /\ faults < MaxFaults /\ faults' = faults + 1
    /\ queue # <<>> /\ Cardinality(working) < Workers
    /\ LET p == Head(queue)
       IN \/ /\ runs' = [runs EXCEPT ![p] = Keep(Ended(runs[p]))]
             /\ left' = IF Newest(p).trigger = "scheduled" THEN left \cup {p} ELSE left
          \/ /\ runs' = [runs EXCEPT ![p] = Keep(runs[p])]
             /\ UNCHANGED left
    /\ queue' = Tail(queue)
    /\ UNCHANGED <<now, status, working, sch, manuals, served>>

\* MarkReadyTx or MarkFailedTx, then PruneRuns.  A MarkFailedTx that fails leaves
\* row and portfolio running until the next start of the server.
EndRun(p) ==
    /\ p \in working
    /\ \/ /\ status' = [status EXCEPT ![p] = "done"]
          /\ runs' = [runs EXCEPT ![p] = Keep(Ended(runs[p]))]
          /\ UNCHANGED faults
       \/ /\ faults < MaxFaults /\ faults' = faults + 1
          /\ runs' = [runs EXCEPT ![p] = Keep(runs[p])]
          /\ UNCHANGED status
    /\ working' = working \ {p}
    /\ UNCHANGED <<now, queue, sch, manuals, served, left>>

\* The server stops; its channel and its workers are gone.
Crash ==
    /\ sch.pc # "off"
    /\ faults < MaxFaults /\ faults' = faults + 1
    /\ sch' = [Return EXCEPT !.pc = "off"]
    /\ queue' = <<>> /\ working' = {}
    /\ UNCHANGED <<now, status, runs, manuals, served, left>>

\* A restarted server fails what was left in flight, and the scheduler catches
\* up a fire of today.
Boot ==
    /\ AtPC("off")
    /\ status' = [p \in Portfolios |-> "done"]
    /\ runs' = [p \in Portfolios |->
                  IF Inflight(p) THEN Ended(runs[p]) ELSE runs[p]]
    /\ sch' = IF FiredToday(now) THEN Pass(NextFire(now)) ELSE Return
    /\ left' = {}
    /\ UNCHANGED <<now, queue, manuals, faults, working, served>>

\* The clock, which waits for nobody: a pass may still be at work, or a timer be
\* late, when the next fire is due.
Tick ==
    /\ now < 2 * LastDay + 1
    /\ now' = now + 1
    /\ UNCHANGED <<status, runs, queue, sch, manuals, faults, working, served, left>>

-----------------------------------------------------------------------------

Init ==
    /\ now = 2
    /\ status = [p \in Portfolios |-> "done"]
    /\ runs = [p \in Portfolios |-> <<>>]
    /\ queue = <<>>
    /\ sch = [Return EXCEPT !.pc = "off"]
    /\ working = {}
    /\ manuals = 0 /\ faults = 0
    /\ served = [p \in Portfolios |-> {}] /\ left = {}

SchedulerStep == Fire \/ Claim \/ ClaimFails \/ SubmitClaimed \/ BatchDone \/ Retry

TakeTask == StartRun \/ FailRun

WorkerStep == TakeTask \/ \E p \in Portfolios : EndRun(p)

Next ==
    \/ SchedulerStep \/ WorkerStep \/ Crash \/ Boot \/ Tick
    \/ \E p \in Portfolios : ManualRun(p)

Spec == Init /\ [][Next]_vars

\* The scheduler's goroutine and the workers go on, a stopped server is
\* restarted, and time passes.
FairSpec ==
    Spec /\ WF_vars(SchedulerStep) /\ WF_vars(TakeTask)
         /\ (\A p \in Portfolios : WF_vars(EndRun(p)))
         /\ WF_vars(Boot) /\ WF_vars(Tick)

-----------------------------------------------------------------------------
(* Correctness. *)

Scheduled(p) == Has(p, "queued") /\ Newest(p).trigger = "scheduled"

Starts(p) == Scheduled(p) /\ Has(p, "running")'

\* dispatchDue skips portfolios that already ran today: no portfolio starts a
\* second scheduled run on one calendar day, whatever the re-claiming, the
\* failures and the restarts, as long as its manual runs are fewer than
\* run_retention.  That many of them make PruneRuns delete the row of the
\* scheduled run, and with it ClaimDue's only memory of it.
OncePerDay ==
    [][\A p \in Portfolios :
         Starts(p) /\ manuals < Retention => Day(now) \notin served[p]]_vars

\* When the pass of a trading day is over, every portfolio that is not in
\* flight has had its scheduled run of the day, also after queue-full
\* rejections, failed runs, failed submissions and a restart in the middle of
\* the pass.  A portfolio goes without for four reasons only: another run of
\* it was in flight when the pass claimed for the last time, the claim or every
\* submission of a batch failed, the next fire ended the pass, or its run failed
\* before it started, after that last claim.
DailyRunServed ==
    sch.pc = "sleep" /\ now \in Fires /\ sch.fire > now =>
        \A p \in Portfolios \ left :
            status[p] = "done" /\ ~Inflight(p) => Day(now) \in served[p]

\* dispatchDue neither spins nor waits for ever: a pass ends, unless runs keep
\* failing before they start.  ClaimDue returns such a portfolio again at once,
\* and the loop looks at the next fire only after a full queue; MaxFaults bounds
\* those failures here.
PassEnds == (sch.pc \in {"claim", "submit", "wait"}) ~> (sch.pc \in {"sleep", "off"})

-----------------------------------------------------------------------------
(* The inductive invariant behind the safety properties. *)

\* Only the newest row of a portfolio is in flight, and a scheduled row that
\* has started is in the history.
RowOK(p, i) ==
    LET row == runs[p][i] IN
    /\ i < Len(runs[p]) => row.status = "ended"
    /\ row.status = "running" => row.day # NotStarted
    /\ row.status = "queued" => row.day = NotStarted
    /\ row.trigger = "scheduled" /\ row.day # NotStarted => row.day \in served[p]

\* A task of the channel is the queued row of a portfolio, each of another.
Waiting == {p \in Portfolios : Has(p, "queued")}

QueueInv ==
    /\ sch.pc = "off" => queue = <<>> /\ working = {}
    /\ \A i \in 1..Len(queue) : queue[i] \in Waiting
    /\ \A i, j \in 1..Len(queue) : queue[i] = queue[j] => i = j

RowsInv == \A p \in Portfolios :
    /\ \A i \in 1..Len(runs[p]) : RowOK(p, i)
    /\ status[p] = "running" => Has(p, "running")
    /\ \A d \in served[p] : d <= Day(now)

\* ClaimDue remembers: whoever had a scheduled run today still has its row,
\* with no more rows behind it than there were manual runs.
Remembered(p) == \E i \in 1..Len(runs[p]) :
    /\ runs[p][i].trigger = "scheduled" /\ runs[p][i].day = Day(now)
    /\ Len(runs[p]) - i <= manuals

\* As long as it does, neither a claimed portfolio nor one whose scheduled run
\* waits in the channel has had a run today.
OnceInv == manuals < Retention =>
    \A p \in Portfolios :
        /\ Day(now) \in served[p] => Remembered(p)
        /\ p \in sch.ids \/ Scheduled(p) => Day(now) \notin served[p]

ClaimedInv == \A p \in sch.ids : ~Scheduled(p)

\* A sleeping scheduler has not missed a fire to come, and when it sleeps
\* through the rest of a trading evening, its pass is done.
SleepInv == sch.pc = "sleep" =>
    /\ \A f \in Fires : f > now => sch.fire <= f
    /\ now \in Fires /\ sch.fire > now =>
          \A p \in Portfolios \ left : Day(now) \in served[p] \/ Scheduled(p)

\* A worker runs what is marked as running.
WorkInv == \A p \in working : Has(p, "running")

IInv == TypeOK /\ QueueInv /\ WorkInv /\ RowsInv /\ OnceInv /\ ClaimedInv /\ SleepInv
=============================================================================
