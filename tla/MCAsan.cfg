CONSTANTS
  Threads = {t1, t2}
  NoThread = NoThread
  Granules = 3
  Grain = 4
  Regions <- SomeRegions
  Globals <- SomeGlobals
  Frames <- SomeFrames
  Accesses <- SomeAccesses
  MapFails = TRUE
  Printable <- LongAddresses
  ShortStacks = TRUE
SPECIFICATION FairSpec
CHECK_DEADLOCK FALSE
INVARIANTS TypeOK ShadowExact AccessJudged
PROPERTIES ErrorsAbort
