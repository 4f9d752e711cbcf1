---------------------------- MODULE MCHeapIndex ----------------------------
(***************************************************************************)
(* The index over the same small heap: lists for blocks of 2 and 3 frames, *)
(* the slot that blocks of 4 share with the root of the tree, and nodes of *)
(* the tree from 6 frames on.                                              *)
(***************************************************************************)
EXTENDS HeapIndex

MCRequests == {16, 64, 112}
=============================================================================
