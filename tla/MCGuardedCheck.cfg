SPECIFICATION CheckSpec
CONSTANTS
  MaxChain = 2
  RuleFiles <- MCRules
  Trees <- MCTrees
  TreeRoot <- MCTreeRoot
  ViewRoot <- MCViewRoot
  Lines <- MCLines
  Batches <- MCBatches
  Found <- MCFound
  MaxDefects = 3
  SarifBudget = 4
  Sizes <- MCSizes
  ReadAs <- NoNames
  Colons = {}
INVARIANTS GuardIsExact EveryWayAgrees
CHECK_DEADLOCK FALSE
