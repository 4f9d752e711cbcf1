\* The block level of the heap: every order of calls in four pages of memory.
CONSTANTS
  StartAddr = 1
  InitSize = 7
  MaxAddr = 16
  MemTop = 24
  PageFrames = 8
  ListMin = 3
  ListMax = 5
  Word = 4096
  Requests <- MCRequests
SPECIFICATION Spec
INVARIANTS
  TypeOK
  Tiling
  Coalesced
  LiveBacked
  UsedIsLive
  LostOnlyAtBoundary
  WholeWhenAllFreed
PROPERTIES
  OthersKeepTheirBlock
  Promised
\* After a hang or a wild write nothing more is modelled.
CHECK_DEADLOCK FALSE
