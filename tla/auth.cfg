\* The HTTP thread and one gRPC thread; database and Redis may fail.
CONSTANTS
  HttpThreads = {h1}
  GrpcThreads = {g1}
  Emails = {e1, e2}
  Passwords = {p1, p2}
  OtherTypes = {"other"}
  MaxCodes = 2
  MaxIds = 2
  Faults = TRUE
SPECIFICATION Spec
SYMMETRY Symmetry
INVARIANTS
  StoredWasReportedSent
  
  SightedTokensNameAccounts
PROPERTY
  OverwriteOnlyIfBlind
CHECK_DEADLOCK FALSE
