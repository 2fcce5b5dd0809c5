-------------------------- MODULE MCAnalyticsRuns --------------------------
(* Instances of AnalyticsRuns for TLC. *)
EXTENDS AnalyticsRuns, TLC

CONSTANTS a1, a2, w1, w2

NoAccounts == {}
OneAccount == {a1}
TwoAccounts == {a1, a2}
OneWorker == {w1}
TwoWorkers == {w1, w2}

Symmetry == Permutations(TwoAccounts) \cup Permutations(TwoWorkers)
=============================================================================
