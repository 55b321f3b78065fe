SPECIFICATION MCSpec
CONSTANTS
  Size = 7
  Chunk = 7
  Limit = 4
  Budget = 3
  Requests <- MCRequests
INVARIANTS CutIsExact GrepIsTrue SliceIsExact RowsAreAPrefix
CHECK_DEADLOCK FALSE
