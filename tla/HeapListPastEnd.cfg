\* heap_insert of a block of exactly HEAP_LIST_MAX.
CONSTANTS
  StartAddr = 1
  InitSize = 7
  MaxAddr = 16
  MemTop = 24
  PageFrames = 8
  ListMin = 3
  ListMax = 5
  Word = 4096
  Requests <- MCRequests
SPECIFICATION IndexSpec
INVARIANT LargestListed
\* After a hang or a wild access nothing more is modelled.
CHECK_DEADLOCK FALSE
