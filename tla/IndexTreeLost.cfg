\* The slot that the last list shares with the tree.
CONSTANTS
  StartAddr = 1
  InitSize = 7
  MaxAddr = 16
  MemTop = 24
  PageFrames = 8
  ListMin = 3
  ListMax = 5
  Word = 4096
  Requests <- MCRequests
SPECIFICATION IndexSpec
INVARIANT TreeComplete
\* After a hang or a wild access nothing more is modelled.
CHECK_DEADLOCK FALSE
