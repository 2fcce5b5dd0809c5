CONSTANTS
  a1 = a1  a2 = a2  w1 = w1  w2 = w2
  None = None
  Pooled = Pooled
  Accounts <- OneAccount
  Analysed <- OneAccount
  Workers <- TwoWorkers
  Families = 1
  MaxAttempts = 1
  MaxChanges = 3
  FaultBudget = 1
  OperatorBudget = 1
SPECIFICATION LiveSpec
PROPERTIES AccountPublicationsAdvance DirtyAccountsRecalculated
CHECK_DEADLOCK FALSE
