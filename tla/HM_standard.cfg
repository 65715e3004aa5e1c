CONSTANTS
  RZ = 8
  Arena = 88
  Thread = {t1, t2}
  Block <- MCBlocks
  Builds <- MCBuilds
  MaxStores = 1
SPECIFICATION Spec
INVARIANTS
  AccessesAnswered
  
PROPERTY RefinesRedZones
SYMMETRY Threads
