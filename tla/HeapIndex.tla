------------------------------ MODULE HeapIndex ------------------------------
(***************************************************************************)
(* The index of free blocks of loader/heap.c: heap->free[], the segregated *)
(* lists and the search tree, pointer by pointer, under the calls of Heap. *)
(*                                                                         *)
(* A list item keeps prev_block and next_block in the words where a tree   *)
(* node keeps smaller_block and larger_block, and the tree's root is the   *)
(* last slot of heap->free; the list of blocks of ListMax - 1 frames uses  *)
(* that slot too.  So one record stands for both kinds: "back" is          *)
(* prev_block or smaller_block, "fwd" is next_block or larger_block.       *)
(*                                                                         *)
(* The "tree" is a doubly linked row sorted by size, entered at the root;  *)
(* blocks of equal size hang in a chain of children below one of them.     *)
(*                                                                         *)
(* The module says which block Heap's search returns, and when Heap's      *)
(* IndexGoesWild happens: at the first access through a stale link, one    *)
(* that no longer leads to a free block that leads back, or through a root *)
(* that is no longer a free block of the tree's slot.                      *)
(***************************************************************************)
EXTENDS Heap, FiniteSets

ASSUME HeapAboveNull == StartAddr > 0

VARIABLES
  free,        \* heap->free: the head of each list, the tree's root last
  link         \* the links stored in the free blocks, by block address

ivars == <<blocks, end_addr, spin, damage, live, free, link>>

Null  == 0
\* What a word of a block holds before the index has written it.
Junk  == -1
\* Where a stale link leads, and the outcome of a search that followed one.
Lost  == -2

ListCount == ListMax - ListMin
Root      == ListCount

\* HEAP_SIZE_IDX
SizeIdx(size) == IF size <= ListMax THEN size - Overhead ELSE -1

\* The index as a value that the helpers below pass on; "ok" turns FALSE at the
\* first access through a link that is stale.
Index == [free |-> free, link |-> link, ok |-> TRUE]

IsNode(ix, p) == p \in DOMAIN ix.link

Bad(ix) == [ix EXCEPT !.ok = FALSE]

\* p->field = v
Store(ix, p, field, v) == [ix EXCEPT !.link[p][field] = v]

\* if (p != 0) p->field = v
StoreIf(ix, p, field, v) == IF p = Null THEN ix ELSE Store(ix, p, field, v)

SetHead(ix, slot, p) == [ix EXCEPT !.free[slot] = p]

\* The link "field" of p, with the link "opposite" of where it leads for the way back.
\* A link of p to itself leads nowhere: a walk that followed it would go round.
Led(ix, p, field, opposite) ==
  LET q == ix.link[p][field] IN
  IF q = Null \/ (q # p /\ IsNode(ix, q) /\ ix.link[q][opposite] = p) THEN q ELSE Lost

\* The root is a free block of the slot it shares with a list, if there is one.
Rooted(ix) ==
  LET root == ix.free[Root] IN
  root = Null \/ (IsNode(ix, root) /\ ix.link[root].size >= ListMax - 1)

\* The places a walk through the index can be at.
Places(ix) == DOMAIN ix.link \union {Null, Lost}

\* Where a walk from start comes to stand, one step being "step"; Lost when it
\* still moves after as many steps as there are places, so that it goes round.
Walk(step, start) ==
  LET last == Cardinality(DOMAIN step)
      end[n \in 0 .. last] ==
        [p \in DOMAIN step |-> IF step[p] = p THEN p
                              ELSE IF n = 0 THEN Lost
                              ELSE end[n - 1][step[p]]]
  IN end[last][start]

Drop(ix, p) == [ix EXCEPT !.link = [q \in DOMAIN ix.link \ {p} |-> ix.link[q]]]

-----------------------------------------------------------------------------
(* heap_insert and heap_remove on the lists *)

Node(size, back, fwd, child, parent) ==
  [size |-> size, back |-> back, fwd |-> fwd, child |-> child, parent |-> parent]

With(ix, p, node) ==
  [ix EXCEPT !.link = [q \in DOMAIN ix.link \union {p} |->
                         IF q = p THEN node ELSE ix.link[q]]]

\* Push in front.  The words past the two links keep what they held, "rest";
\* only in the tree's slot are they ever read.
ListInsert(ix, p, size, rest) ==
  LET slot == SizeIdx(size)
      head == ix.free[slot]
      past == IF size >= ListMax - 1 THEN rest ELSE Junk
      in   == With(ix, p, Node(size, Null, head, past, past))
  IN SetHead(StoreIf(in, head, "back", p), slot, p)

\* Mutant of ListRemove: the next item keeps its prev_block.
ListRemoveOneWay(ix, p) ==
  LET n == ix.link[p] IN
  Drop(IF n.back = Null THEN SetHead(ix, SizeIdx(n.size), n.fwd)
                        ELSE Store(ix, n.back, "fwd", n.fwd), p)

ListRemove(ix, p) ==
  LET n    == ix.link[p]
      slot == SizeIdx(n.size)
      a    == StoreIf(ix, n.fwd, "back", n.back)
      b    == IF n.back = Null THEN SetHead(a, slot, n.fwd) ELSE Store(a, n.back, "fwd", n.fwd)
  IN Drop(b, p)

-----------------------------------------------------------------------------
(* The tree *)

\* The step of heap_tree_insert's walk from the node at: on towards blocks of this
\* size, unless the next node lies beyond it.
InsertStep(ix, size) ==
  [at \in Places(ix) |->
     IF ~IsNode(ix, at) THEN at
     ELSE LET back == Led(ix, at, "back", "fwd")
              fwd  == Led(ix, at, "fwd", "back")
          IN IF /\ ix.link[at].size > size
                /\ back = Lost \/ (back # Null /\ ix.link[back].size >= size)
               THEN back
             ELSE IF /\ ix.link[at].size < size
                     /\ fwd = Lost \/ (fwd # Null /\ ix.link[fwd].size <= size)
               THEN fwd
             ELSE at]

\* p goes next to the node at, on the side of its size, or first below it.
Beside(ix, at, p, size) ==
  LET n == ix.link[at] IN
  IF n.size > size
    THEN Store(StoreIf(With(ix, p, Node(size, n.back, at, Null, Null)), n.back, "fwd", p),
               at, "back", p)
  ELSE IF n.size < size
    THEN Store(StoreIf(With(ix, p, Node(size, at, n.fwd, Null, Null)), n.fwd, "back", p),
               at, "fwd", p)
  ELSE Store(StoreIf(With(ix, p, Node(size, Null, Null, n.child, at)), n.child, "parent", p),
             at, "child", p)

\* heap_tree_insert
TreeInsert(ix, p, size) ==
  IF ix.free[Root] = Null
    THEN SetHead(With(ix, p, Node(size, Null, Null, Null, Null)), Root, p)
  ELSE LET at == Walk(InsertStep(ix, size), ix.free[Root])
       IN IF at = Lost THEN Bad(ix) ELSE Beside(ix, at, p, size)

\* heap_tree_delete.  A child that takes the place of its parent keeps its
\* parent_block; when it is deleted in turn it is taken for a child of whatever
\* is at that address now, and stays in the row of the tree.
TreeDelete(ix, p) ==
  LET n == ix.link[p]
      \* the node's neighbours come to point at each other, or at its child
      bridged ==
        IF n.child # Null
          THEN Store(Store(StoreIf(StoreIf(ix, n.fwd, "back", n.child), n.back, "fwd", n.child),
                           n.child, "fwd", n.fwd),
                     n.child, "back", n.back)
          ELSE StoreIf(StoreIf(ix, n.fwd, "back", n.back), n.back, "fwd", n.fwd)
      replacement ==
        IF n.child # Null THEN n.child ELSE IF n.back # Null THEN n.back ELSE n.fwd
  IN Drop(IF n.parent # Null
            THEN StoreIf(Store(ix, n.parent, "child", n.child), n.child, "parent", n.parent)
          ELSE IF ix.free[Root] = p THEN SetHead(bridged, Root, replacement)
          ELSE bridged, p)

\* heap_insert (of a block shorter than ListMax, or longer) and heap_remove
Insert(ix, b, rest) ==
  IF b.size >= ListMax - 1 /\ ~Rooted(ix) THEN Bad(ix)
  ELSE IF SizeIdx(b.size) >= 0 THEN ListInsert(ix, b.addr, b.size, rest)
  ELSE TreeInsert(ix, b.addr, b.size)

\* The neighbours that p's links lead to lead back to p.  A removal writes into
\* each of them, so where this fails it writes into what is not its neighbour.
LinkedBack(ix, p) ==
  /\ Led(ix, p, "fwd", "back") # Lost
  /\ Led(ix, p, "back", "fwd") # Lost
  /\ SizeIdx(ix.link[p].size) < 0 =>
       Led(ix, p, "child", "parent") # Lost /\ Led(ix, p, "parent", "child") # Lost

Remove(ix, p) ==
  IF ~LinkedBack(ix, p) THEN Bad(ix)
  ELSE IF SizeIdx(ix.link[p].size) >= 0 THEN ListRemove(ix, p)
  ELSE TreeDelete(ix, p)

-----------------------------------------------------------------------------
(* heap_search *)

OnBoundary(p) == Aligned(p + 1)

\* Mutant of CutFits: the left part need not be able to stand as a block.
CutFitsAnyLeft(p, size, bsize) ==
  \E left \in ToBoundary(Block(p, size, FALSE)) : Minus(size, left) >= bsize

\* What both aligned searches ask of a block that is not on a boundary.
CutFits(p, size, bsize) ==
  \E left \in ToBoundary(Block(p, size, FALSE)) :
     left >= ListMin /\ Minus(size, left) >= bsize

\* What both aligned searches look for.
CutsAligned(p, bsize) == OnBoundary(p) \/ CutFits(p, link[p].size, bsize)

IsStop(p) == p \in {Null, Lost}

\* The aligned walk of one list, from the item p: its last item is not tried.
AlignedInList(p, bsize) ==
  Walk([q \in Places(Index) |->
          IF IsStop(q) THEN q
          ELSE IF link[q].fwd = Null THEN Null
          ELSE IF CutsAligned(q, bsize) THEN q
          ELSE Led(Index, q, "fwd", "back")], p)

\* The aligned walk of a node and its chain of children.
AlignedBelow(p, bsize) ==
  Walk([q \in Places(Index) |->
          IF IsStop(q) \/ CutsAligned(q, bsize) THEN q
          ELSE Led(Index, q, "child", "parent")], p)

\* The aligned walk of the nodes from p on, with their children.
AlignedInTree(p, bsize) ==
  LET main == Walk([q \in Places(Index) |->
                      IF IsStop(q) \/ AlignedBelow(q, bsize) # Null THEN q
                      ELSE Led(Index, q, "fwd", "back")], p)
  IN IF IsStop(main) THEN main ELSE AlignedBelow(main, bsize)

\* "Move our search pointer to the first suitable entry": the first node from p
\* towards larger blocks that is long enough.
FirstSuitable(p, bsize) ==
  Walk([q \in Places(Index) |->
          IF IsStop(q) \/ link[q].size >= bsize THEN q
          ELSE Led(Index, q, "fwd", "back")], p)

\* "Then we try to find a smaller one that will not waste too much space."
SmallestFrom(p, bsize) ==
  Walk([q \in Places(Index) |->
          IF IsStop(q) \/ link[q].size = bsize THEN q
          ELSE LET back == Led(Index, q, "back", "fwd")
               IN IF back = Lost \/ (back # Null /\ link[back].size >= bsize) THEN back
                  ELSE q], p)

\* The first node of the tree that is long enough.
First(bsize) == IF Rooted(Index) THEN FirstSuitable(free[Root], bsize) ELSE Lost

\* Mutant of TreeSearch: the first node that is long enough is taken.
TreeSearchFirst(bsize, align) ==
  LET first == First(bsize) IN
  IF IsStop(first) \/ ~align THEN first ELSE AlignedInTree(first, bsize)

\* heap_tree_search and heap_tree_search_aligned
TreeSearch(bsize, align) ==
  LET first == First(bsize) IN
  IF IsStop(first) THEN first
  ELSE IF align THEN AlignedInTree(first, bsize)
  ELSE SmallestFrom(first, bsize)

\* What heap_search takes from the list i, if anything.
InList(i, bsize, align) ==
  IF free[i] = Null \/ ~align \/ OnBoundary(free[i]) THEN free[i]
  ELSE AlignedInList(free[i], bsize)

\* heap_search from the list idx on; past the last list, the tree.
SearchFrom(idx, bsize, align) ==
  LET found == IF idx < 0 THEN {}
               ELSE {i \in idx .. ListCount - 1 : InList(i, bsize, align) # Null}
  IN IF found = {} THEN TreeSearch(bsize, align)
     ELSE InList(CHOOSE i \in found : \A j \in found : i <= j, bsize, align)

\* Mutant of Search: the list of the very size is skipped.
SearchPastList(bsize, align) == SearchFrom(SizeIdx(bsize) + 1, bsize, align)

Search(bsize, align) == SearchFrom(SizeIdx(bsize), bsize, align)

-----------------------------------------------------------------------------
(* The calls of Heap with the index they work on *)

Keep(ix) == free' = ix.free /\ link' = ix.link

KeepIndex == UNCHANGED <<free, link>>

\* Mutant of InsertParts: the left part of an aligned cut is not put back.
InsertRestOnly(ix, b, bytes, align, rest) ==
  LET bsize == BlockSize(bytes)
      left  == CHOOSE l \in LeftSizes(b, align) : TRUE
      other == RestPart(b, left, bsize)
  IN IF ~ix.ok \/ left + bsize > b.size \/ other = {} \/ ListMax \in SizesOf(other) THEN ix
     ELSE Insert(ix, CHOOSE r \in other : TRUE, rest)

\* The two heap_insert calls of heap_alloc, made when neither hangs and the cut
\* stays inside b.
InsertParts(ix, b, bytes, align, rest) ==
  LET bsize == BlockSize(bytes)
      left  == CHOOSE l \in LeftSizes(b, align) : TRUE
      parts == LeftPart(b, left) \union RestPart(b, left, bsize)
      one   == IF left = 0 THEN ix ELSE Insert(ix, Block(b.addr, left, FALSE), rest)
  IN IF \/ ~ix.ok \/ left = 1 \/ left + bsize > b.size \/ ListMax \in SizesOf(parts)
       THEN ix
     ELSE IF Splits(b.size - left, bsize)
       THEN Insert(one, CHOOSE r \in RestPart(b, left, bsize) : TRUE, rest)
     ELSE one

\* heap_search finds a block.
IndexAllocFound(bytes, align) ==
  /\ Ready
  /\ LET found == Search(BlockSize(bytes), align) IN
     \E b \in blocks, rest \in {Null, Junk} :
       /\ b.addr = found
       /\ LET after == InsertParts(Remove(Index, b.addr), b, bytes, align, rest)
          IN IF after.ok
               THEN /\ Place(blocks \ {b}, b, bytes, align)
                    /\ UNCHANGED end_addr
                    /\ Keep(after)
               ELSE IndexGoesWild /\ KeepIndex

\* heap_search finds nothing; heap_extend gets pages, heap_merge_left takes the
\* last free block.
IndexAllocExtended(bytes, align) ==
  /\ Ready
  /\ Search(BlockSize(bytes), align) = Null
  /\ \E rest \in {Null, Junk} :
       LET first == StartMerged(end_addr)
           b     == Block(first, end_addr + PageAlign(BlockSize(bytes)) - first, FALSE)
           taken == IF first = end_addr THEN Index ELSE Remove(Index, first)
           after == InsertParts(taken, b, bytes, align, rest)
       IN IF after.ok
            THEN HeapAllocExtended(bytes, align) /\ Keep(after)
            ELSE IndexGoesWild /\ KeepIndex

IndexAllocFaults(bytes, align) ==
  /\ Ready
  /\ Search(BlockSize(bytes), align) = Null
  /\ HeapAllocFaults(bytes)
  /\ KeepIndex

\* heap_search reads a link of what is no longer a free block.
IndexSearchLost(bytes, align) ==
  /\ Ready
  /\ Search(BlockSize(bytes), align) = Lost
  /\ IndexGoesWild
  /\ KeepIndex

\* heap_remove of the left neighbour, then of the right one, then heap_insert.
IndexFree(a) ==
  /\ Ready
  /\ \E b \in BlocksAt(a.ptr), rest \in {Null, Junk} :
       LET first   == StartMerged(b.addr)
           last    == EndMerged(EndOf(b))
           noLeft  == IF first = b.addr THEN Index ELSE Remove(Index, first)
           noRight == IF last = EndOf(b) THEN noLeft ELSE Remove(noLeft, EndOf(b))
           after   == IF noRight.ok /\ last - first # ListMax
                        THEN Insert(noRight, Block(first, last - first, FALSE), rest)
                        ELSE noRight
       IN IF after.ok
            THEN HeapFree(a) /\ Keep(after)
            ELSE IndexGoesWild /\ KeepIndex

IndexInit ==
  /\ Init
  /\ free = [i \in 0 .. ListCount |-> IF i = Root THEN StartAddr ELSE Null]
  /\ link = [p \in {StartAddr} |-> Node(InitSize, Null, Null, Null, Null)]

IndexNext ==
  \/ \E bytes \in Requests, align \in BOOLEAN : IndexAllocFound(bytes, align)
  \/ \E bytes \in Requests, align \in BOOLEAN : IndexAllocExtended(bytes, align)
  \/ \E bytes \in Requests, align \in BOOLEAN : IndexAllocFaults(bytes, align)
  \/ \E bytes \in Requests, align \in BOOLEAN : IndexSearchLost(bytes, align)
  \/ \E a \in live : IndexFree(a)
  \/ \E a \in live, bytes \in Requests : HeapReallocInPlace(a, bytes) /\ KeepIndex
  \/ \E a \in live, bytes \in Requests : HeapReallocMoves(a, bytes) /\ KeepIndex

IndexSpec == IndexInit /\ [][IndexNext]_ivars

-----------------------------------------------------------------------------
(* Correctness, up to the first hang or wild access *)

\* Shape of the state: every free block is a node with the block's size.
IndexTypeOK ==
  /\ free \in [0 .. ListCount -> Nat]
  /\ Ready => /\ DOMAIN link = {b.addr : b \in {c \in blocks : ~c.used}}
              /\ \A b \in blocks : ~b.used => link[b.addr].size = b.size

\* The free blocks that belong in the list i.
Items(i) == {p \in DOMAIN link : link[p].size = i + Overhead}

\* The list i, followed from its head, is this row, and back.
IsRow(i, row, last) ==
  /\ free[i] = IF last = 0 THEN Null ELSE row[1]
  /\ \A k \in 1 .. last :
       /\ link[row[k]].back = IF k = 1 THEN Null ELSE row[k - 1]
       /\ link[row[k]].fwd = IF k = last THEN Null ELSE row[k + 1]

\* Each list below the tree's slot holds exactly the free blocks of its size, each
\* once, linked both ways: heap_insert and heap_remove never lose or duplicate one.
ListsExact ==
  Ready => \A i \in 0 .. ListCount - 1 :
    LET last == Cardinality(Items(i)) IN
    \E row \in [1 .. last -> Items(i)] :
      /\ IsRow(i, row, last)
      /\ \A p \in Items(i) : \E k \in 1 .. last : row[k] = p

\* heap_search without alignment wastes as little as a longer search could: no
\* free block of a listed size that fits is smaller than the block returned, and
\* the heap is not extended while there is one.
ListsBestFit ==
  Ready => \A bytes \in Requests :
    LET bsize == BlockSize(bytes)
        found == Search(bsize, FALSE)
        fits  == {b \in blocks : ~b.used /\ b.size >= bsize /\ b.size < ListMax - 1}
    IN fits # {} => /\ found \in DOMAIN link
                    /\ \A b \in fits : link[found].size <= b.size

\* heap.c on heap_tree_delete, "There should never be any larger or smaller
\* blocks for childs".
ChildHasNoNeighbours ==
  Ready => \A p \in DOMAIN link :
    link[p].size > ListMax /\ link[p].parent # Null =>
      link[p].back = Null /\ link[p].fwd = Null

\* A set of free blocks that no link of its members leads out of.
Closed(S) ==
  \A p \in S, q \in DOMAIN link : q \in {link[p].back, link[p].fwd, link[p].child} => q \in S

\* heap.h on heap_t.free, "Free block list + tree in the last item": every free
\* block is in a list or can be reached from the tree's root.
TreeComplete ==
  Ready => \A p \in DOMAIN link, S \in SUBSET DOMAIN link :
             /\ link[p].size >= ListMax - 1
             /\ Closed(S)
             /\ free[Root] \in DOMAIN link => free[Root] \in S
             => p \in S

\* While the tree is whole (every node reached from the root, every link led
\* back), heap_search without alignment returns the smallest free block that
\* fits, and finds none only if none fits: heap_tree_search stops at the best
\* fit wherever in the sorted row the root is.
TreeBestFit ==
  Ready /\ TreeComplete /\ (\A p \in DOMAIN link : LinkedBack(Index, p)) =>
    \A bytes \in Requests :
      LET found == Search(BlockSize(bytes), FALSE)
          fits  == {b \in blocks : ~b.used /\ b.size >= BlockSize(bytes)}
      IN IF fits = {} THEN found = Null
         ELSE found \in DOMAIN link /\ \A b \in fits : link[found].size <= b.size

\* The calls with this index are calls of Heap: the block a search returns is
\* one Heap allows.
HeapSpec == Spec
=============================================================================
