CONSTANTS
  j1 = j1
  j2 = j2
  j3 = j3
  Job = {j1, j2, j3}
  nnodes <- MCnnodes
  parallelmax = 2
  Chunk = 2
  MaxOutput <- MCMaxOutput
  Undecodable = {}
  HangUpAfterExit = TRUE
SPECIFICATION FairSpec
CHECK_DEADLOCK FALSE
INVARIANTS
  RunningWithinMax
  OutputSaved
  PollerAlive
PROPERTIES
  WaitAllReturns
