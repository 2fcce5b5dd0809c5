\* One job, two handler slots, one dispatcher, one reconciler.
CONSTANTS
  j1 = j1  w1 = w1  w2 = w2  d1 = d1  d2 = d2  r1 = r1
  None = None  Created = Created  Elsewhere = Elsewhere
  Jobs <- OneJob
  Workers <- TwoWorkers
  Dispatchers <- OneDispatcher
  Reconcilers <- OneReconciler
  DefaultMaxAttempts = 2
  AttemptLimit = 3
  FaultBudget = 1
  LegacyJobs <- NoJobs
  InspectedJobs <- NoJobs
  SideResultJobs <- NoJobs
SPECIFICATION Spec
SYMMETRY Symmetry
INVARIANTS AttemptsAccounted ResultMatchesAttempt
PROPERTIES NeverStealsHealthyLease ImplementsContract HandlersSeeTheirJobs
CHECK_DEADLOCK FALSE
