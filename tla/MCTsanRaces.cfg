CONSTANTS
  Threads = {t1, t2}
  NoThread = NoThread
  Addr <- OneAddr
  Mutexes <- OneMutex
  Ranges <- DatumOnly
  MaxThreads = 3
  ShadowEntries = 2
  MaxMutexes = 1
  ShadowHash <- AllAtZero
  MutexHash <- AllAtZero
  MaxClock = 4
  Announced <- None
  Prompt = TRUE
SPECIFICATION ProgramSpec
CHECK_DEADLOCK FALSE
PROPERTIES ReportsExactlyRaces
