--------------------------- MODULE RunRefinement ---------------------------
(***************************************************************************)
(* BacktestRuns implements RunService.  The mapping looks only at the two   *)
(* tables, as the API does: queued and running rows are in flight, whoever  *)
(* holds them.                                                              *)
(***************************************************************************)
EXTENDS BacktestRuns

Known == [p \in Portfolios |-> IF Live(p) THEN "live" ELSE status[p]]

Result == [r \in RunIds |-> IF run[r] = "none" THEN "unused"
                            ELSE IF Inflight(r) THEN "inflight" ELSE run[r]]

Service == INSTANCE RunService WITH
    known <- Known, of <- owner, result <- Result, shown <- active

\* The clients, the task channel, the workers, the sweep at start-up and the
\* tables together keep the promise of RunService, through crashes, failed
\* transactions and lost acknowledgements.
RunServiceKept == Service!ASpec
=============================================================================
