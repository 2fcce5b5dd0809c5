--------------------------- MODULE MCJobPipeline ---------------------------
(* Instances of JobPipeline for TLC. *)
EXTENDS JobPipeline, TLC

CONSTANTS j1, w1, w2, d1, d2, r1

OneJob == {j1}
NoJobs == {}
TwoWorkers == {w1, w2}
OneWorker == {w1}
TwoDispatchers == {d1, d2}
OneDispatcher == {d1}
OneReconciler == {r1}

Symmetry == Permutations(TwoWorkers) \cup Permutations(TwoDispatchers)
=============================================================================
