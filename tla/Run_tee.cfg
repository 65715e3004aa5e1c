SPECIFICATION Spec
CONSTANTS
  Outputs <- OutputsDef
  PipeSize = 2
  ReadSize = 2
  MaxCommands = 2
  MaxTees = 3
  MaxScopes = 1
INVARIANTS
  NothingLost
  ResultsInOrder
PROPERTIES
  CommandsReturn
  LinesReachLog
CHECK_DEADLOCK FALSE
