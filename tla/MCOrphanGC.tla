----------------------------- MODULE MCOrphanGC -----------------------------
(* Instances of OrphanGC for TLC. *)
EXTENDS OrphanGC, TLC

Symmetry == Permutations(Portfolios) \cup Permutations(Clients) \cup Permutations(Workers)
=============================================================================
