SPECIFICATION FairHandleSpec
CONSTANTS
  In = "in"
  Human = "human"
  None = none
  Keys = {}
  Values = {v1}
  Capacity = 1
  CommitAttempts = 1
  Gates = FALSE
  Split = FALSE
  Reader = FALSE
  MaxSends = 2
  MaxOut = 2
  EarlyAt = {2}
  MaxSegment = 1
  MaxCrashes = 1
  MaxLost = 1
  MaxSendsIfFaulty = 1
PROPERTIES
  NoEventSkipped
  SessionMoves
  CloseArrives
CHECK_DEADLOCK FALSE
