SPECIFICATION FairSpec
CONSTANTS
  Tools <- EndTools
  Wire <- EndWire
  Limit <- EndLimit
  NoLimit = nolimit
  Granted = {"send"}
  Reads = {}
  Retryable = {}
  Budget = 6
  ThinkCost = 1
  MaxRounds = 4
  ContinueAfter = 2
  RequireToolCall = TRUE
  HasSchema = TRUE
  OutputRetries = 1
  HasToolSchemas = TRUE
  UseStore = TRUE
  Attempts = 1
  CommitAttempts = 2
  MaxMany = 1
INVARIANTS
  StateCarried
  EndsProperly
PROPERTIES
  ImplementsLedger
  Settles
