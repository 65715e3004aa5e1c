CONSTANTS
  RZ = 2
  PAGESZ = 16
  HASHSZ = 4
  PageBucket <- MCPageBucket
  Block <- CrossBlocks
  Thread = {t1, t2}
  NoThread = NoThread
  OwnerChecked = FALSE
  PreInit = TRUE
  MaxFail = 0
SPECIFICATION Spec
INVARIANT MutualExclusion
