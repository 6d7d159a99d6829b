\* A refused recipient leaves its transaction to the next mail.
CONSTANT
  MaxMails = 2
SPECIFICATION Spec
INVARIANT
  UsableConnection
CHECK_DEADLOCK FALSE
