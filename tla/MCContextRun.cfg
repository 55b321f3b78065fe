CONSTANTS
  Budget <- MCBudget
  Output <- MCOutput
  PipeSize = 1
  Chunk = 2
SPECIFICATION Spec
CHECK_DEADLOCK TRUE
INVARIANTS KeptBounded VerdictIsRight NoLeftovers
PROPERTIES RunReturns FullPipeDrains
