\* Two clients and two requests, of either client or one of each, pipelined or not.
CONSTANTS
  Clients = {c1, c2}
  MaxRequests = 2
  MaxAcceptErrors = 1
  Idle = Idle
SPECIFICATION FairSpec
INVARIANTS
  InStep
PROPERTIES
  SessionsEnd
  AllAccepted
\* All connections may be over and every client silent.
CHECK_DEADLOCK FALSE
