CONSTANTS
  RZ = 2
  PAGESZ = 16
  HASHSZ = 4
  PageBucket <- MCPageBucket
  Block <- ListBlocks
  Thread = {t1, t2}
  NoThread = NoThread
  OwnerChecked = TRUE
  PreInit = TRUE
  MaxFail = 0
  Checker = {c1}
  Access <- ListAccess
SPECIFICATION ListSpec
INVARIANTS
  TypeOK
  MutualExclusion
  ListsOrdered
  TableMatchesHeap
  ListsComputeTable
  CalmChecksAnswer
PROPERTIES
  RefinesRedZones
  LocksReleased
CHECK_DEADLOCK FALSE
