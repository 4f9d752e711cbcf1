\* heap_alloc of an aligned block.
CONSTANTS
  StartAddr = 1
  InitSize = 7
  MaxAddr = 16
  MemTop = 24
  PageFrames = 8
  ListMin = 3
  ListMax = 5
  Word = 4096
  Requests <- MCRequests
SPECIFICATION IndexSpec
PROPERTY CutsInside
\* After a hang or a wild access nothing more is modelled.
CHECK_DEADLOCK FALSE
