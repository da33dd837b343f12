CONSTANTS
  Threads = {t1, t2}
  NoThread = NoThread
  Blocks <- LongAndShort
  Regions <- OneRegion
  MaxAllocs = 2
  MaxRoots = 1
  Disabling = FALSE
  Printable = {3}
  ShortStacks = FALSE
SPECIFICATION Spec
SYMMETRY Symmetry
CHECK_DEADLOCK FALSE
INVARIANTS TypeOK
PROPERTIES ReadsOwnedMemory NoReachableLeak
