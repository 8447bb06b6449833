SPECIFICATION Spec
CONSTANTS
  In = "in"
  Human = "human"
  None = none
  Keys = {k1}
  Values = {v1, v2}
  Capacity = 2
  CommitAttempts = 1
  Gates = TRUE
  Split = FALSE
  Reader = FALSE
  MaxSends = 4
  MaxOut = 0
  EarlyAt = {}
  MaxSegment = 2
INVARIANTS
  TypeOK
  InboxFIFO
  MessagesNamed
PROPERTIES
  ImplementsMailbox
CHECK_DEADLOCK FALSE
