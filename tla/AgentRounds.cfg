SPECIFICATION Spec
CONSTANTS
  Tools <- MCTools
  Wire <- MCWire
  Limit <- MCLimit
  NoLimit = nolimit
  Granted <- MCGranted
  Reads <- MCReads
  Retryable <- MCRetryable
  Budget = 6
  ThinkCost = 1
  MaxRounds = 2
  ContinueAfter = 1
  RequireToolCall = FALSE
  HasSchema = FALSE
  OutputRetries = 0
  HasToolSchemas = TRUE
  UseStore = FALSE
  Attempts = 2
  CommitAttempts = 1
  MaxMany = 2
INVARIANTS
  AccountsKept
  TraceFaithful
  WritesAlone
