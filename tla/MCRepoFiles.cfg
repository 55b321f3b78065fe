SPECIFICATION MCSpec
CONSTANTS
  ReadBudget = 4
  MaxWindows = 2
  Envelope = 1
  Nodes = 4
  Contents <- MCContents
  Limits = {1, 3, 20}
  MaxEntries = 3
  MaxUnreadable = 1
  MaxLost = 1
  Reads <- MCReads
INVARIANTS GrepIsHonest LsIsHonest ReadIsHonest
CHECK_DEADLOCK FALSE
