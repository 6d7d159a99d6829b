SPECIFICATION FairSpec
CONSTANTS
  Workers = {w1, w2}
  Clients = {c1, c2}
  MaxCalls = 2
  NoTask = NoTask
INVARIANTS
  WakeupsCoverWork
  NobodySleepsPastStop
PROPERTIES
  Executes
  NothingForgotten
  DestructionEnds
