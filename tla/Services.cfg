SPECIFICATION Spec
CONSTANTS
  Windows <- MCWindows
  NoBound = nobound
  Never = never
  MaxSignals = 3
  MaxAge = 2
  Waiters = {w1, w2, w3}
  MaxBatch = 2
  Callers = {k1, k2}
  Unopened = unopened
  Watched = k1
  Models <- MCModels
  Chain <- MCChain
  ProviderOf <- MCProviderOf
  Attempts <- MCAttempts
  Threshold = 2
  Cooldown = 1
  Skills = {s1, s2}
  NoSkill = noskill
  MaxAsks = 2
  ErrorBudget = 2
  OutputRetries = 2
  Keys = {key}
  None = none
  Capacity = 2
  MaxErrors = 2
  MaxTurns = 2
  MaxSends = 3
  MaxCloses = 2
  MaxEmits = 1
  Bundles <- MCBundles
  SourcesOf <- MCSourcesOf
  MaxSweeps = 1
  MaxByHand = 1
  Versions <- MCBundles
  Absent = absent
  Pures <- MCPures
  SourceOf <- MCSourceOf
  Runs = {r1, r2}
  Inline = {r1}
  Bodies <- MCBodies
  Bound = 2
  Items = 2
  Shapes <- MCShapes
  MaxCalls = 5
  Segments = 2
  Submissions = {j1, j2}
  MaxCrashes = 2
  MaxRounds = 2
  CallLimit = 2
  TurnBudget = 5
  ThinkCost = 1
  ToolCost = 1
  MaxInputs = 2
  Recorded <- MCRecorded
  InputOf <- MCInputOf
  StepOf <- MCStepOf
  ResultOf <- MCResultOf
INVARIANTS
  WalkFaithful
  OneCall
  RunsItsPures
  TurnsTakeOneMessage
  ReplayFaithful
PROPERTIES
  SweepsSpare
  SubmissionsSettle
  WindowKept
  CallsReturn
  ProviderRecovers
  LocalSessionEnds
  CmaTurnsEnd
CHECK_DEADLOCK FALSE
