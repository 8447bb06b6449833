SPECIFICATION Spec
CONSTANTS
  In = "in"
  Human = "human"
  None = none
  Keys = {}
  Values = {v1}
  Capacity = 2
  CommitAttempts = 2
  Gates = FALSE
  Split = TRUE
  Reader = TRUE
  MaxSends = 2
  MaxOut = 3
  EarlyAt = {2}
  MaxSegment = 2
INVARIANTS
  UnackedKept
  BufferedOutputReported
  StoreAgrees
  TurnOrder
CHECK_DEADLOCK FALSE
