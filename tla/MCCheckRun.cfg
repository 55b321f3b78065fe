CONSTANTS
  NFiles = 4
  NDirs = 3
  Parent <- MCParent
  DirOf <- MCDirOf
  NameBytes <- MCNameBytes
  Tools <- MCTools
  MaxBatchFiles = 2
  MaxBatchBytes = 4
  MaxFindings = 2
  Reports <- MCReports
SPECIFICATION Spec
CHECK_DEADLOCK TRUE
INVARIANTS CheckedOnce SkippedAddsUp NoUnsafeConfigRuns OneConfigPerRun RefusalIsVisible FailureIsVisible CutIsTold
