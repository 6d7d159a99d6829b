\* A look-up that fails lets a registration overwrite an account.
CONSTANTS
  HttpThreads = {h1}
  GrpcThreads = {g1}
  Emails = {e1}
  Passwords = {p1, p2}
  OtherTypes = {"other"}
  MaxCodes = 2
  MaxIds = 2
  Faults = TRUE
SPECIFICATION Spec
SYMMETRY Symmetry
INVARIANT
  TokensNameAccounts
CHECK_DEADLOCK FALSE
