CONSTANTS
  c1 = c1 c2 = c2
  Commits = {c1, c2}
  None = None Absent = Absent Empty = Empty Torn = Torn
  Requests <- MCRequests
  MaxFaults = 2
SPECIFICATION Spec
INVARIANTS ReadsOwnCommit CoherentWithoutFaults MissReportedExactly CredentialedIsServed
PROPERTIES SyncIsReadOnly AlwaysReturns
CHECK_DEADLOCK TRUE
