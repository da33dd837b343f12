CONSTANTS
  Threads = {t1, t2}
  NoThread = NoThread
  Blocks <- OneBlock
  Regions <- TwoRegions
  MaxAllocs = 2
  MaxRoots = 2
  Disabling = TRUE
  Printable = {2}
  ShortStacks = TRUE
SPECIFICATION FairSpec
CHECK_DEADLOCK FALSE
INVARIANTS RecordsFollowHeap RootsExact
PROPERTIES CheckIsASnapshot LockReleased
