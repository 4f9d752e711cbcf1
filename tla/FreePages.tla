------------------------------ MODULE FreePages ------------------------------
(***************************************************************************)
(* The index of free page blocks (paging.c): segregated lists for blocks   *)
(* of few pages and a search tree for the others.  A block is known by the *)
(* page it starts at; 0 is the null pointer.  Blocks are created and       *)
(* inserted by page_init and looked up by page_alloc.  page_free_remove,   *)
(* page_tree_delete and the two merges are never called.                   *)
(***************************************************************************)
EXTENDS Integers, Sequences, FiniteSets

CONSTANT PAGE_LIST_MAX  \* the largest list size, in pages

ASSUME ListMax == PAGE_LIST_MAX \in Nat \ {0, 1}

PAGE_LIST_COUNT == PAGE_LIST_MAX - 1

\* The index: the lists (newest first), the root of the tree, the blocks with
\* their sizes in pages and links, and whether a list past the end of the array
\* has been written.
EmptyIndex ==
  [list |-> [i \in 0 .. PAGE_LIST_COUNT - 1 |-> <<>>],
   root |-> 0,
   node |-> <<>>,
   past_end |-> FALSE]

Node(size) == [size |-> size, smaller |-> 0, larger |-> 0, child |-> 0, parent |-> 0]

Listed(size) == size <= PAGE_LIST_MAX

Blocks(index) == DOMAIN index.node
SizeOf(index, b) == index.node[b].size

\* Where the walk of page_tree_insert stops: at a block of the same size, or at
\* one whose neighbour on the side of the new size is on the other side of it.
StopAt(index, at, size) ==
  LET stop[b \in Blocks(index)] ==
        LET n == index.node[b] IN
        IF n.size > size /\ n.smaller # 0 /\ SizeOf(index, n.smaller) >= size
          THEN stop[n.smaller]
        ELSE IF n.size < size /\ n.larger # 0 /\ SizeOf(index, n.larger) <= size
          THEN stop[n.larger]
        ELSE b
  IN stop[at]

\* Mutant of TreeInsert: what is larger than the block it stops at is linked on
\* the wrong side of it.
TreeInsertSwapped(index, b) ==
  LET size == SizeOf(index, b)
      at   == StopAt(index, index.root, size)
      n    == index.node[at]
  IN IF index.root = 0 THEN [index EXCEPT !.root = b]
     ELSE [index EXCEPT !.node[b].smaller = n.smaller, !.node[n.smaller].larger = b,
                        !.node[at].smaller = b, !.node[b].larger = at]

\* page_tree_insert, behind the test of the size.  A link of the null block is none.
TreeInsert(index, b) ==
  LET size == SizeOf(index, b)
      at   == StopAt(index, index.root, size)
      n    == index.node[at]
  IN
  IF index.root = 0 THEN [index EXCEPT !.root = b]
  ELSE IF n.size > size THEN
    [index EXCEPT !.node[b].smaller = n.smaller, !.node[n.smaller].larger = b,
                  !.node[at].smaller = b, !.node[b].larger = at]
  ELSE IF n.size < size THEN
    [index EXCEPT !.node[b].larger = n.larger, !.node[n.larger].smaller = b,
                  !.node[at].larger = b, !.node[b].smaller = at]
  ELSE
    [index EXCEPT !.node[n.child].parent = b, !.node[b].child = n.child,
                  !.node[at].child = b, !.node[b].parent = at]

\* page_create_block and page_free_insert.  The array of lists is one or two
\* entries short of its largest index.
FreeInsert(index, b, size) ==
  LET new == [index EXCEPT !.node = [x \in Blocks(index) \union {b} |->
                                       IF x = b THEN Node(size) ELSE index.node[x]]]
  IN
  IF ~Listed(size) THEN TreeInsert(new, b)
  ELSE IF size < PAGE_LIST_COUNT
    THEN [new EXCEPT !.list[size] = <<b>> \o new.list[size]]
  ELSE [new EXCEPT !.past_end = TRUE]

\* page_free_search: the first list that holds a block of at least the size,
\* then the tree.
WalkUp(index, at, size) ==
  LET up[b \in {0} \union Blocks(index)] ==
        IF b = 0 \/ SizeOf(index, b) >= size THEN b ELSE up[index.node[b].larger]
  IN up[at]

WalkDown(index, at, size) ==
  LET down[b \in Blocks(index)] ==
        LET below == index.node[b].smaller IN
        IF SizeOf(index, b) > size /\ below # 0 /\ SizeOf(index, below) >= size
          THEN down[below] ELSE b
  IN down[at]

TreeSearch(index, size) ==
  IF SizeOf(index, index.root) < size
    THEN WalkUp(index, index.root, size)
  ELSE WalkDown(index, index.root, size)

ListsFor(index, size) ==
  {i \in 0 .. PAGE_LIST_COUNT - 1 : Listed(size) /\ i >= size /\ index.list[i] # <<>>}

\* A null root is followed: what it finds at address 0 is anybody's guess, so the
\* search has no answer the model could give.
FreeSearchDefined(index, size) == ListsFor(index, size) # {} \/ index.root # 0

FreeSearch(index, size) ==
  IF ListsFor(index, size) # {}
    THEN Head(index.list[CHOOSE i \in ListsFor(index, size) :
                           \A j \in ListsFor(index, size) : i <= j])
  ELSE TreeSearch(index, size)

-----------------------------------------------------------------------------
(* What the index is for *)

\* The block of a search is free, large enough and of the least such size.
BestFit(index, size) ==
  LET fitting == {b \in Blocks(index) : SizeOf(index, b) >= size}
      found   == FreeSearch(index, size)
  IN IF fitting = {} THEN found = 0
     ELSE /\ found \in fitting
          /\ \A b \in fitting : SizeOf(index, found) <= SizeOf(index, b)
=============================================================================
