SPECIFICATION Spec
CONSTANTS
  Programs <- ProgramsDef
  Name <- NameDef
INVARIANTS
  AccessesChecked
  CallsTakenOver
CHECK_DEADLOCK FALSE
