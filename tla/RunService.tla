----------------------------- MODULE RunService -----------------------------
(***************************************************************************)
(* What the backtest service promises the users of its API, without queue,  *)
(* workers, files or transactions.  A run is accepted only for a portfolio  *)
(* that exists and has no run in flight, under an id that is newer than     *)
(* every id before it.  It ends once; a success becomes what the portfolio  *)
(* shows.  Ended runs are forgotten, the newest run of a portfolio never,   *)
(* and a run in flight only with its portfolio.                             *)
(***************************************************************************)
EXTENDS Integers

CONSTANTS
    Portfolios,     \* portfolio ids
    RunIds,         \* run ids, positive integers; 0 stands for no run
    NoPortfolio     \* whose run an unused id is

VARIABLES
    known,          \* each portfolio: "none", "live" or "deleted"
    of,             \* the portfolio of each run
    result,         \* what has become of each run
    shown           \* the run whose snapshot each portfolio shows, or 0

avars == <<known, of, result, shown>>

Results == {"unused", "inflight", "success", "failed", "gone"}

\* POST /portfolios
Create(p) ==
    /\ known[p] = "none"
    /\ known' = [known EXCEPT ![p] = "live"]
    /\ UNCHANGED <<of, result, shown>>

Submit(p, r) ==
    /\ known[p] = "live"
    /\ \A q \in RunIds : ~(of[q] = p /\ result[q] = "inflight")
    /\ \A q \in RunIds : result[q] = "unused" <=> q >= r
    /\ of' = [of EXCEPT ![r] = p]
    /\ result' = [result EXCEPT ![r] = "inflight"]
    /\ UNCHANGED <<known, shown>>

\* The run in flight ends; a success is shown.
Succeed(r) ==
    /\ result[r] = "inflight"
    /\ result' = [result EXCEPT ![r] = "success"]
    /\ shown' = [shown EXCEPT ![of[r]] = r]
    /\ UNCHANGED <<known, of>>

Fail(r) ==
    /\ result[r] = "inflight"
    /\ result' = [result EXCEPT ![r] = "failed"]
    /\ UNCHANGED <<known, of, shown>>

\* A restart fails whatever is in flight.
Interrupt ==
    /\ result' = [r \in RunIds |-> IF result[r] = "inflight" THEN "failed" ELSE result[r]]
    /\ UNCHANGED <<known, of, shown>>

\* The server, never told that its success was recorded, records a failure.
Retract(r) ==
    /\ result[r] = "success"
    /\ result' = [result EXCEPT ![r] = "failed"]
    /\ UNCHANGED <<known, of, shown>>

\* Some ended runs go, each of them with a newer run of its portfolio left.
Forget ==
    /\ UNCHANGED <<known, of, shown>>
    /\ \A r \in RunIds : result'[r] # result[r] =>
         /\ result[r] \in {"success", "failed"} /\ result'[r] = "gone"
         /\ \E q \in RunIds : q > r /\ of[q] = of[r] /\ result'[q] # "gone"
    /\ result' \in [RunIds -> Results]

\* DELETE /portfolios/{slug}: its runs go with it, the one in flight too.
Delete(p) ==
    /\ known[p] = "live"
    /\ known' = [known EXCEPT ![p] = "deleted"]
    /\ result' = [r \in RunIds |-> IF of[r] = p THEN "gone" ELSE result[r]]
    /\ UNCHANGED <<of, shown>>

AInit ==
    /\ known = [p \in Portfolios |-> "none"]
    /\ of = [r \in RunIds |-> NoPortfolio]
    /\ result = [r \in RunIds |-> "unused"]
    /\ shown = [p \in Portfolios |-> 0]

ANext ==
    \/ Forget \/ Interrupt
    \/ \E p \in Portfolios : Create(p) \/ Delete(p) \/ \E r \in RunIds : Submit(p, r)
    \/ \E r \in RunIds : Succeed(r) \/ Fail(r) \/ Retract(r)

ASpec == AInit /\ [][ANext]_avars
=============================================================================
