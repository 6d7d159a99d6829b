\* Two producers whose calls can fill the ring, overfill it and begin a second lap.
CONSTANTS
  Producers = {p1, p2}
  Capacity = 3
  MaxCalls = 2
  Raw = Raw
SPECIFICATION Spec
SYMMETRY Symmetry
INVARIANTS
  Fifo
  FirstSuccessMeansMailed
  OnlyHasteTerminates
  StopDrains
  RingCounts
  OnlyTheGapLosesWakeups
\* The queue may be idle, or destroyed, for ever.
CHECK_DEADLOCK FALSE
