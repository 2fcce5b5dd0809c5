CONSTANTS
  i1 = i1  i2 = i2  p1 = p1  q1 = q1  q2 = q2  c1 = c1  v1 = v1
  None = None
  Intents <- TwoIntents
  Posts <- OnePost
  Requests <- TwoRequests
  Cleaners <- OneCleaner
  Validators <- OneValidator
  FaultBudget = 1
SPECIFICATION Spec
SYMMETRY Symmetry
INVARIANT UploadsConsistent
PROPERTIES DecisionsStand
CHECK_DEADLOCK FALSE
