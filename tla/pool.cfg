\* Three threads and a limit of one connection: two can wait while the third holds it.
CONSTANTS
  Threads = {t1, t2, t3}
  Conns = {c1, c2, c3}
  NoConn = NoConn
  MinConnections = 1
  MaxConnections = 1
  NullReplyOnLoss = TRUE
SPECIFICATION FairSpec
INVARIANTS
  Exclusive
  ActiveCount
  LiveBound
  OnlyWasteLeavesSleepers
PROPERTIES
  Lends
  GetReturns
  ShutdownEndsWaits
CHECK_DEADLOCK FALSE
