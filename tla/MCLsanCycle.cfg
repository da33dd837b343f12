CONSTANTS
  Threads = {t1, t2}
  NoThread = NoThread
  Blocks <- TwoBlocks
  Regions <- OneRegion
  MaxAllocs = 2
  MaxRoots = 1
  Disabling = FALSE
  Printable = {2, 3}
  ShortStacks = FALSE
SPECIFICATION Spec
SYMMETRY Symmetry
CHECK_DEADLOCK FALSE
PROPERTIES EveryLeakReported
