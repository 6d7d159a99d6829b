\* Two callers, two videos, bodies of up to two chunks, one crash, either kind of table.
CONSTANTS
  Callers = {c1, c2}
  MaxVideos = 2
  MaxChunks = 2
  Nobody = Nobody
  IdColumn = {TRUE, FALSE}
  MaxCrashes = 1
SPECIFICATION Spec
SYMMETRY Symmetry
INVARIANTS
  LibraryInv
  RowHasVideo
  SuccessIsStored
  LeftoversKnown
CHECK_DEADLOCK FALSE
VIEW View
