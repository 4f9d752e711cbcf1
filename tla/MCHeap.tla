------------------------------- MODULE MCHeap -------------------------------
(***************************************************************************)
(* A small heap for TLC: pages of 8 frames, three of them; heap_t takes    *)
(* one frame of the first.  A request needs 3 frames (the least), 6 (a     *)
(* size for the tree) or 9 (more than a page), with or without alignment;  *)
(* lists end at 5 frames.                                                  *)
(***************************************************************************)
EXTENDS Heap

MCRequests == {16, 64, 112}
=============================================================================
