SPECIFICATION MCSpec
CONSTANTS
  Pieces = 2
  Outputs = 2
  Messages = 2
  PipeSize = 1
  JqLimit = 1
INVARIANTS NoPartialAnswer CauseIsNamed NothingLeftRunning
PROPERTIES AlwaysEnds
CHECK_DEADLOCK FALSE
