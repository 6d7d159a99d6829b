\* Files of at most five packets; both codecs hold back frames.
CONSTANTS
  MaxPackets = 5
  DecoderDelay = 1
  EncoderDelay = 2
SPECIFICATION Spec
INVARIANTS
  Conservation
  NeverRefused
  SuccessIsWhole
  FormatIsKnown
  LeakBound
\* A call that has returned is over.
CHECK_DEADLOCK FALSE
