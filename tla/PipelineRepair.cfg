CONSTANTS
  j1 = j1  w1 = w1  w2 = w2  d1 = d1  d2 = d2  r1 = r1
  None = None  Created = Created  Elsewhere = Elsewhere
  Jobs <- OneJob
  Workers <- OneWorker
  Dispatchers <- TwoDispatchers
  Reconcilers <- OneReconciler
  DefaultMaxAttempts = 1
  AttemptLimit = 2
  FaultBudget = 1
  LegacyJobs <- NoJobs
  InspectedJobs <- OneJob
  SideResultJobs <- OneJob
SPECIFICATION Spec
CHECK_DEADLOCK FALSE
SYMMETRY Symmetry
INVARIANT RepairsAreSound
