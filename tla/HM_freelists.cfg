CONSTANTS
  RZ = 8
  Arena = 136
  Request = {3, 8, 9}
  MEMORY_LIST = 2
  standardPreAllocSize = 2
  Builds <- MCBuilds
SPECIFICATION Spec
INVARIANTS
  EveryBlockOnce
  LiveBlockGuarded
  FreedBlockReported
