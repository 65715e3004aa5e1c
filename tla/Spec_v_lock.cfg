SPECIFICATION Spec
CONSTANTS
  Rank = {a, b, c}
  MaxFaults = 0
INVARIANT LockExcludes
CHECK_DEADLOCK FALSE
