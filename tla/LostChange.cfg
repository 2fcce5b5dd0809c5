CONSTANTS
  a1 = a1  a2 = a2  w1 = w1  w2 = w2
  None = None
  Pooled = Pooled
  Accounts <- OneAccount
  Analysed <- OneAccount
  Workers <- OneWorker
  Families = 1
  MaxAttempts = 1
  MaxChanges = 3
  FaultBudget = 0
  OperatorBudget = 0
SPECIFICATION Spec
PROPERTY MidRunChangesSurvive
CHECK_DEADLOCK FALSE
