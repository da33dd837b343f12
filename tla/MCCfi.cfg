CONSTANTS
  Threads = {t1, t2}
  Sizes = {1, 4}
  Pool = 12
  Alignment = 4
  SizeMod = 64
  k1 = k1
  k2 = k2
  Keys = {k1, k2}
  Bucket <- MCBucket
  EntrySize = 4
  Printable = {k1}
  Null = Null
SPECIFICATION CfiSpec
SYMMETRY Symmetry
CHECK_DEADLOCK FALSE
INVARIANTS TypeOK NoSpaceLost CfiTypeOK ListsEnd KeptStayIn NoFalseAlarm
PROPERTIES ImplementsRegionAlloc
