\* One producer, a ring used more than once, in memory that was zero at first.
CONSTANTS
  Producers = {p1}
  Capacity = 3
  MaxCalls = 4
  Raw = Raw
SPECIFICATION FreshSpec
INVARIANT
  SuccessMeansMailed
CHECK_DEADLOCK FALSE
