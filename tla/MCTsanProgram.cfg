CONSTANTS
  Threads = {t1, t2}
  NoThread = NoThread
  Addr <- TwoMutexes
  Mutexes <- TwoMutexes
  Ranges <- AnnouncedWord
  MaxThreads = 3
  ShadowEntries = 2
  MaxMutexes = 2
  ShadowHash <- AllAtOne
  MutexHash <- AllAtOne
  MaxClock = 4
  Announced <- OneAnnounced
  Prompt = FALSE
SPECIFICATION ProgramSpec
SYMMETRY Symmetry
CHECK_DEADLOCK FALSE
INVARIANTS MutexTableExact
PROPERTIES NoReportOfQuietThread
