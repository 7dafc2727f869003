-------------------------- MODULE MCStrategyRegistry --------------------------
EXTENDS StrategyRegistry

(* The repository is named after the short code of its binary, so that     *)
(* failures and installs meet in one row, or it is not.                    *)
MCRepos == {"bond"}
MCName == [bond |-> "bond"]
MCShortCodes == {[bond |-> "bond"], [bond |-> "bnd"]}
=============================================================================
