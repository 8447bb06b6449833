SPECIFICATION FairSpec
CONSTANTS
  Requests = {q1, q2}
  Releases = {a, b}
  None = none
  BatchSize = 2
  Budgets <- MCBudgets
INVARIANTS StartsOnce StreamComplete
PROPERTIES FinalSticks RunsSettle
CHECK_DEADLOCK FALSE
