CONSTANTS
  Threads = {t1, t2}
  NoThread = NoThread
  Addrs <- TwoAddrs
  Ranges <- OneAndBoth
  Seeds = {3}
  Stored = {2, 3}
  Gap = 8
  MapSize = 64
  OriginSize = 2
  MaxOrigins = 4
  MapFails = TRUE
  Printable = {1}
SPECIFICATION Spec
SYMMETRY Symmetry
CHECK_DEADLOCK FALSE
INVARIANTS TypeOK ShadowExact OriginExact CounterBounded NoTornReport
PROPERTIES CheckExact
