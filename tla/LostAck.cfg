SPECIFICATION FairHandleSpec
CONSTANTS
  In = "in"
  Human = "human"
  None = none
  Keys = {}
  Values = {v1}
  Capacity = 1
  CommitAttempts = 1
  Gates = FALSE
  Split = FALSE
  Reader = FALSE
  MaxSends = 1
  MaxOut = 2
  EarlyAt = {}
  MaxSegment = 0
  MaxCrashes = 0
  MaxLost = 1
  MaxSendsIfFaulty = 1
PROPERTIES
  EmitGetsRoom
CHECK_DEADLOCK FALSE
