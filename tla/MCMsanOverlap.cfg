CONSTANTS
  Threads = {t1}
  NoThread = NoThread
  Addrs <- ToFive
  Ranges <- FirstAndLast
  Seeds = {}
  Stored = {}
  Gap = 8
  MapSize = 64
  OriginSize = 2
  MaxOrigins = 4
  MapFails = FALSE
  Printable = {}
SPECIFICATION Spec
CHECK_DEADLOCK FALSE
INVARIANTS ShadowExact
