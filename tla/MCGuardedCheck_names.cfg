SPECIFICATION CheckSpec
CONSTANTS
  MaxChain = 2
  RuleFiles <- MCRules
  Trees <- MCTrees
  TreeRoot <- MCTreeRoot
  ViewRoot <- MCViewRoot
  Lines <- MCLines
  Batches <- MCBatches
  Found <- MCFound
  MaxDefects = 3
  SarifBudget = 4
  Sizes <- MCSizes
  ReadAs <- Hashed
  Colons = {}
INVARIANT EveryWayAgrees
CHECK_DEADLOCK FALSE
