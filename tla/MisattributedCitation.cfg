\* Conversations alone: one of them, one strategy replaced by another.
SPECIFICATION Spec
CONSTANTS
  Scenes = {"chat"}
  Null = Null
  Missing = Missing
  Impossible = Impossible
  TooLarge = TooLarge
  Nobody = Nobody
  MaxAttempts = 2
  Analysers = {w1, w2}
  MaxAsset = 2
  MaxFiles = 3
  AnalysisFaults = 1
  sampleThresholds <- MCThresholds
  minimumPublicationDates = 2
  Posts = {p1, p2, p3}
  Accounts = {w1, w2}
  FeatureValues = {"x", "y"}
  MetricValues = {1, 4}
  MaxRevisions = 1
  MaxRuns = 2
  CategoryCap <- MCCap
  EligibilityThresholds <- MCEligibility
  PostsCap = 2
  StatisticsCap = 2
  TokenBudget = 6
  StrategyRequesters = {r1}
  StrategyWriters = {w1, w2}
  EvidenceSets <- MCEvidence
  MaxCalculations = 2
  MaxGenerations = 2
  StrategyFaults = 1
  Turns = {w1, w2}
  Conversations = {c1}
  MessageLimit = 3
  HourlyLimit = 1
  ContextBudget = 5
  StrategyEvidence <- MCManifests
  Emails = {e1, e2, x}
  ApprovedEmails = {e1, e2}
  Subjects = {w1, w2}
  Browsers = {w1, w2}
  SessionMaxAge = 2
  MaxTime = 2
  MaxStatusChanges = 1
  RetryBudget = 8
  JitterPercents = {0, 100}
  RetryAfterSeconds = {Null, 90000}
  HandlerDurations = {1000, 50000000}
  MaxManualRetries = 1
  PartCount = 3
  RetriesPerPart = 2
  Loops = {1, 2}
  MaxIntents = 2
  MaxAborts = 2
  Queues = {q1, q2}
  Schedulers <- MCSchedulers
  SnapshotLists <- MCSnapshotLists
  WindowCalls <- MCWindowCalls
  MetricCalls <- MCMetricCalls
  CohortCalls <- MCCohortCalls
  ProposedAnalyses <- MCProposedAnalyses
  ProbedDurations = {40}
SYMMETRY MCSymmetry
INVARIANT CitationsKeepTheirMeaning
CHECK_DEADLOCK FALSE
