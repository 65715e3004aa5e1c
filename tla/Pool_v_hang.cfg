CONSTANTS
  j1 = j1
  j2 = j2
  j3 = j3
  Job = {j1, j2, j3}
  nnodes <- MCnnodes
  parallelmax = 2
  Chunk = 1
  MaxOutput <- MCOneUnit
  Undecodable = {}
  HangUpAfterExit = FALSE
SPECIFICATION FairSpec
CHECK_DEADLOCK FALSE
PROPERTY WaitAllReturns
