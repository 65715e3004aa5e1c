SPECIFICATION BenchSpec
CONSTANTS
  Rank = {a, b}
  MaxFaults = 1
  Workloads = 2
  MaxReports = 2
  MaxEvents = 3
INVARIANTS
  LockExcludes
  LockReleased
  RunsListed
  ReportsRight
PROPERTY JobEnds
CHECK_DEADLOCK FALSE
