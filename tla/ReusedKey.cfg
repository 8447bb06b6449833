SPECIFICATION Spec
CONSTANTS
  In = "in"
  Human = "human"
  None = none
  Keys = {k1}
  Values = {v1}
  Capacity = 2
  CommitAttempts = 1
  Gates = FALSE
  Split = FALSE
  Reader = FALSE
  MaxSends = 3
  MaxOut = 0
  EarlyAt = {}
  MaxSegment = 1
PROPERTIES
  ReusedKeyQueuesNothing
CHECK_DEADLOCK FALSE
