--------------------------- MODULE MCBacktestRuns ---------------------------
(* Instances of BacktestRuns for TLC. *)
EXTENDS RunRefinement, TLC

Symmetry == Permutations(Portfolios) \cup Permutations(Clients) \cup Permutations(Workers)
=============================================================================
