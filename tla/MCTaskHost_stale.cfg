CONSTANTS
  c1 = c1 c2 = c2
  Commits = {c1, c2}
  None = None Absent = Absent Empty = Empty Torn = Torn
  Requests <- MCRequests
  MaxFaults = 1
SPECIFICATION Spec
CHECK_DEADLOCK TRUE
INVARIANT NeverAnotherCommit
