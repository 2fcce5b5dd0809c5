CONSTANTS
  i1 = i1  i2 = i2  p1 = p1  q1 = q1  q2 = q2  c1 = c1  v1 = v1
  None = None
  Intents <- OneIntent
  Posts <- OnePost
  Requests <- OneRequest
  Cleaners <- OneCleaner
  Validators <- OneValidator
  FaultBudget = 2
SPECIFICATION LiveSpec
PROPERTIES UploadsSettle
CHECK_DEADLOCK FALSE
