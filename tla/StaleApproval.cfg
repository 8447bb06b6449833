SPECIFICATION FairSpec
CONSTANTS
  Nodes <- MCNodes
  Root = 1
  Programs <- MCPrograms
  Tools <- MCTools
  CallLimit <- MCLimit
  Dangerous = {"d"}
  RaceSafe = {"t"}
  MaxParallel = 2
  MaxSegments = 2
PROPERTY DecisionForItsGate
