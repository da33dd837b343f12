SPECIFICATION FairSpec
CONSTANTS
  t1 = t1
  t2 = t2
  Threads = {t1, t2}
  IntBits = 4
  LongBits = 8
  Null = "null"
  NoThread = NoThread
  Handlers <- MCHandlers
  Printed <- MCPrinted
  Locations <- MCLocations
  Types <- MCTypes
  Pointers <- MCPointers
  Numbers <- MCNumbers
  Stacks <- MCStacks
INVARIANTS TypeOK TextAsInC ReportsWhole
PROPERTIES ReportEndsInAbort
CHECK_DEADLOCK FALSE
