CONSTANTS
  Threads = {t1, t2, t3}
  NoThread = NoThread
  Addr <- ThreeAddrs
  Mutexes <- LastMutex
  Ranges <- FirstTwoOrLast
  MaxThreads = 3
  ShadowEntries = 2
  MaxMutexes = 1
  ShadowHash <- AllAtOne
  MutexHash <- AllAtZero
  MaxClock = 2
SPECIFICATION Spec
SYMMETRY Symmetry
CHECK_DEADLOCK FALSE
INVARIANTS TypeOK DistinctTids NoPhantomRace ClockLead OneShadowPerAddress LockDiscipline
PROPERTIES FailStop ClocksGrow ImplementsRaceLog DroppedOnlyWhenFull
