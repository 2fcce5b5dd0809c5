CONSTANTS
  j1 = j1  w1 = w1  w2 = w2  d1 = d1  d2 = d2  r1 = r1
  None = None  Created = Created  Elsewhere = Elsewhere
  Jobs <- OneJob
  Workers <- OneWorker
  Dispatchers <- OneDispatcher
  Reconcilers <- OneReconciler
  DefaultMaxAttempts = 1
  AttemptLimit = 2
  FaultBudget = 1
  LegacyJobs <- OneJob
  InspectedJobs <- NoJobs
  SideResultJobs <- NoJobs
SPECIFICATION LiveSpec
CHECK_DEADLOCK FALSE
PROPERTIES EveryJobSettles CancellationTakesEffect
