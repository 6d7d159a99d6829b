\* Two clients, two requests in all, room for one connection or both, and a stop.
CONSTANTS
  Clients = {c1, c2}
  MaxRequests = 2
  Limits = {1, 2}
SPECIFICATION FairSpec
INVARIANT
  HlsInv
PROPERTIES
  Stops
  
\* The server may never be stopped, and is joined once.
CHECK_DEADLOCK FALSE
