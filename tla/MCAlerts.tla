------------------------------ MODULE MCAlerts ------------------------------
EXTENDS Alerts, TLC

(* Two trading days; the week and the month end on the second, the         *)
(* strategy trades on the first.                                           *)
MCTradingDays == {1, 2}
MCWeekEnds == {2}
MCFireDays == {1}

(* A request names no recipients, both, or one of them twice.              *)
Nobody == [q \in Recipients |-> 0]
Both == [q \in Recipients |-> 1]
Twice == [q \in Recipients |-> IF q = "r" THEN 2 ELSE 0]

MCBodies == {[freq |-> "daily", rcpts |-> Both], [freq |-> "daily", rcpts |-> Twice],
             [freq |-> "weekly", rcpts |-> Both], [freq |-> "monthly", rcpts |-> Nobody],
             [freq |-> "none", rcpts |-> Twice]}

Perms == Permutations(Notifiers)
=============================================================================
