CONSTANTS
  RZ = 2
  PAGESZ = 16
  HASHSZ = 4
  PageBucket <- MCPageBucket
  Block <- FailCross
  Thread = {t1}
  NoThread = NoThread
  OwnerChecked = FALSE
  PreInit = FALSE
  MaxFail = 2
SPECIFICATION FairSpec
INVARIANT IdleHoldsNoLock
PROPERTY EveryCallReturns
CHECK_DEADLOCK FALSE
