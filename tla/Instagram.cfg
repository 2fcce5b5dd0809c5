\* Two attempts at everything that may overlap, and faults enough for one to be
\* late or dead while the other goes on.
SPECIFICATION Spec
CONSTANTS
  Scenes = {"sync", "snapshots", "comments", "connection", "import", "provider"}
  Null = Null
  MaxAttempts = 2
  KeySets <- MCKeySets
  Slots = {w1, w2}
  FirstDay = 3
  MaxDay = 4
  FirstMedia = {2}
  MediaItems <- MCMediaItems
  BootstrapDays = 1
  OverlapDays = 1
  PageSize = 1
  MaximumPages = 2
  SyncFaults = 2
  AgePoints <- MCAges
  PostItem <- MCPostItem
  Observers = {w1, w2}
  ObservationFaults = 1
  CommentDays = 2
  CommentCount = 3
  CommentPageSize = 1
  MaximumCommentPages = 2
  CommentHorizonDays = 2
  CommentFaults = 2
  ProviderAccounts = {p1, p2}
  Admins = {u1}
  Callbacks = {c1}
  Maintainers = {w1, w2}
  TimePoints <- MCTime
  MaxTokens = 3
  MaxConnections = 2
  GrantDays = {60}
  ConnectionAttemptLimit = 1
  ConnectionFaults = 1
  Importers = {w1, w2}
  ImportFaults = 3
  InsightCalls <- MCInsightCalls
  Downloads <- HopChains
  JudgedFiles <- MCJudgedFiles
  ProbeLimits <- MCProbeLimits
  Seals <- MCSeals
  TokenCalls <- TokenAnswers
  Threads <- MCThreads
SYMMETRY MCSymmetry
INVARIANTS
  
  
  
  
  OneUsableToken
  OneImportedObject
  
PROPERTIES
  TokensAdvance
CHECK_DEADLOCK FALSE
