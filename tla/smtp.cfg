\* Four mails: refused, parted from with a 421, broken off, and sent again.
CONSTANT
  MaxMails = 4
SPECIFICATION FairSpec
INVARIANT
  SessionInv
PROPERTIES
  Implements
  Answered
\* The queue may be destroyed, or idle for ever with a dead connection.
CHECK_DEADLOCK FALSE
