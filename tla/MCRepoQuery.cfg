CONSTANTS
  MaxOps = 4
  Budget = 26
  Base = 3
  Separator = 1
  Held <- MCHeld
  HeldUpTo <- MCHeldUpTo
  DeadlineSize <- MCDeadlineSize
  OwnSize <- MCOwnSize
  ResultSizes = {2, 3, 5, 6, 30}
  Deadline = 3
  MaxOpTime = 2
SPECIFICATION Spec
CHECK_DEADLOCK TRUE
INVARIANTS WithinBudget RefusalsAreASuffix HonestTruncation MissIsNeverAnswered
