CONSTANTS
  a1 = a1  a2 = a2  w1 = w1  w2 = w2
  None = None
  Pooled = Pooled
  Accounts <- TwoAccounts
  Analysed <- NoAccounts
  Workers <- TwoWorkers
  Families = 1
  MaxAttempts = 2
  MaxChanges = 3
  FaultBudget = 1
  OperatorBudget = 0
SPECIFICATION Spec
SYMMETRY Symmetry
INVARIANT RunsConsistent
PROPERTY PublishedScopesStayPublished
CHECK_DEADLOCK FALSE
