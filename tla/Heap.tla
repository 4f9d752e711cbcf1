-------------------------------- MODULE Heap --------------------------------
(***************************************************************************)
(* The kernel heap of the loader (loader/heap.c) at the level of its       *)
(* blocks: the memory from heap->start_addr to heap->end_addr is a row of  *)
(* blocks, each with a header and a footer, split by heap_alloc and merged *)
(* by heap_free.                                                           *)
(*                                                                         *)
(* Addresses and sizes are in frames of 16 bytes, the unit HEAP_ALIGN      *)
(* leaves; requests are in bytes.  One action is one call, taken whole:    *)
(* there is one CPU and no interrupt handler of the loader calls the heap, *)
(* except the page fault handler when it has to build a page table, and    *)
(* that nested call finds heap->flags.locked set and waits for ever.       *)
(*                                                                         *)
(* Which of the suitable free blocks heap_search returns, whether it finds *)
(* one at all, and whether the index of free blocks (the segregated lists  *)
(* and the tree) is still sound, is decided in HeapIndex.  Here the search *)
(* picks any suitable block or none, and any call may turn out to follow a *)
(* stale link of the index.                                                *)
(***************************************************************************)
EXTENDS Integers

CONSTANTS
  StartAddr,   \* heap->start_addr: the frame after heap_t
  InitSize,    \* frames of the first block (PAGE_SIZE - sizeof(heap_t))
  MaxAddr,     \* heap->max_addr
  MemTop,      \* bound of the model: no pages are granted past it.  The code
               \* has no such check, page_alloc grants at any end_addr
  PageFrames,  \* PAGE_SIZE in frames
  ListMin,     \* HEAP_LIST_MIN in frames: 3
  ListMax,     \* HEAP_LIST_MAX in frames: 66
  Word,        \* number of frame counts a uint64 can hold: 2^60
  Requests     \* the byte sizes callers ask for

\* Bytes in a frame, and the frames of a header and a footer.
FrameBytes == 16
Overhead   == 2

ASSUME HeapNumbers ==
  /\ StartAddr \in Nat /\ InitSize \in Nat /\ MaxAddr \in Nat /\ MemTop \in Nat
  /\ PageFrames \in Nat /\ ListMin \in Nat /\ ListMax \in Nat
  /\ Word \in Nat
  /\ Requests \subseteq Nat \ {0}

ASSUME HeapShape ==
  /\ ListMin = Overhead + 1
  /\ ListMin < ListMax /\ ListMax < InitSize
  /\ ListMin <= PageFrames
  /\ StartAddr + InitSize <= MemTop /\ MemTop < Word

VARIABLES
  blocks,      \* the blocks met when memory is walked header by header
  end_addr,    \* heap->end_addr
  spin,        \* the function that never returns, with heap->flags.locked
               \* set, or "none"
  damage,      \* the first access outside a free block: made by heap_alloc
               \* when it cuts ("cut"), by the index ("index"), or "none"
  live         \* the allocations callers hold: pointer, bytes, alignment

vars == <<blocks, end_addr, spin, damage, live>>

-----------------------------------------------------------------------------
(* Blocks *)

Block(addr, size, used) == [addr |-> addr, size |-> size, used |-> used]

\* HEAP_RIGHT_HEADER: the frame after the block.
EndOf(b) == b.addr + b.size

\* HEAP_GET_PAYLOAD
PayloadOf(b) == b.addr + 1

Aligned(frame) == frame % PageFrames = 0

\* HEAP_BSIZE(HEAP_SIZE_ALIGN(bytes))
BlockSize(bytes) == (bytes + FrameBytes - 1) \div FrameBytes + Overhead

\* uint64 subtraction
Minus(a, b) == IF b <= a THEN a - b ELSE a - b + Word

\* What HEAP_CHECK_HEADER, HEAP_CHECK_FOOTER and HEAP_GET_USED let the merges
\* take.  The list links of a block of two frames lie over its own footer, so
\* once it is in a list its footer is no longer recognised.
Mergeable(b) == ~b.used /\ b.size >= ListMin

\* The distances from b's payload to a page boundary, when it is not on one.
ToBoundary(b) == {d \in 1 .. PageFrames - 1 : Aligned(PayloadOf(b) + d)}

\* Mutant of LeftSizes: heap_alloc hands out the block without aligning it.
LeftSizesUnaligned(b, align) == {0}

\* left_size in heap_alloc: what an aligned request leaves on the left of b.
LeftSizes(b, align) ==
  IF align /\ ~Aligned(PayloadOf(b)) THEN ToBoundary(b) ELSE {0}

\* Mutant of Suitable: a block in use is still found by heap_search.
SuitableWhileUsed(bsize, align) ==
  {b \in blocks : b.size >= bsize /\ (align => Aligned(PayloadOf(b)))}

\* The blocks heap_search may return for a request.
Suitable(bsize, align) ==
  {b \in blocks :
     /\ ~b.used
     /\ b.size >= bsize
     /\ align => \/ Aligned(PayloadOf(b))
                 \/ \E left \in ToBoundary(b) :
                       left >= ListMin /\ Minus(b.size, left) >= bsize}

\* PAGE_SIZE_ALIGN
PageAlign(frames) == ((frames + PageFrames - 1) \div PageFrames) * PageFrames

-----------------------------------------------------------------------------
(* How a call ends *)

Ready == spin = "none" /\ damage = "none"

\* No call comes back from either.
Hang(where) == spin' = where /\ UNCHANGED <<blocks, damage, live>>
Ruin(cause) == damage' = cause /\ UNCHANGED <<blocks, spin, live>>

\* The end of a call that puts blocks of sizes "inserted" into the index.  For
\* ListMax frames heap_insert takes the list one past the end of heap->free; its
\* "head" is the magic of the first block, the write through it faults, and the
\* page fault handler waits for the lock this call holds.
Finish(inserted, newBlocks, newLive) ==
  IF ListMax \in inserted
    THEN Hang("heap_insert")
    ELSE /\ blocks' = newBlocks
         /\ live' = newLive
         /\ UNCHANGED <<spin, damage>>

\* Some call follows a link of the index to what is no longer a free block.
IndexGoesWild ==
  /\ Ready
  /\ Ruin("index")
  /\ UNCHANGED end_addr

-----------------------------------------------------------------------------
(* heap_alloc *)

\* Mutant of Splits: the rest need only hold a header and a footer.
SplitsShort(size, bsize) == size - bsize >= Overhead

\* heap_split_block splits only when the rest can stand as a free block.
Splits(size, bsize) == size - bsize >= ListMin

LeftPart(b, left) == IF left = 0 THEN {} ELSE {Block(b.addr, left, FALSE)}

\* Mutant of UsedPart: a rest too short to be split off is cut away all the same.
UsedPartExact(b, left, bsize) == Block(b.addr + left, bsize, TRUE)

UsedPart(b, left, bsize) ==
  Block(b.addr + left,
        IF Splits(b.size - left, bsize) THEN bsize ELSE b.size - left,
        TRUE)

RestPart(b, left, bsize) ==
  IF Splits(b.size - left, bsize)
    THEN {Block(b.addr + left + bsize, b.size - left - bsize, FALSE)}
    ELSE {}

SizesOf(S) == {b.size : b \in S}

\* The second half of heap_alloc: b, no longer in "others" nor in the index, is
\* cut for the request.  A left part of one frame has its footer over its own
\* header; one longer than b, or a rest of negative size, is written outside b.
Place(others, b, bytes, align) ==
  LET bsize == BlockSize(bytes) IN
  \E left \in LeftSizes(b, align) :
    LET used  == UsedPart(b, left, bsize)
        spare == LeftPart(b, left) \union RestPart(b, left, bsize)
    IN \/ /\ left = 1 \/ left > b.size
          /\ Ruin("cut")
       \/ /\ left # 1 /\ left <= b.size /\ left + bsize > b.size
          /\ IF left = ListMax THEN Hang("heap_insert") ELSE Ruin("cut")
       \/ /\ left # 1 /\ left + bsize <= b.size
          /\ Finish(SizesOf(spare),
                    others \union spare \union {used},
                    live \union {[ptr   |-> PayloadOf(used),
                                  bytes |-> bytes,
                                  align |-> align]})

\* heap_alloc when heap_search finds a block.
HeapAllocFound(bytes, align) ==
  /\ Ready
  /\ \E b \in Suitable(BlockSize(bytes), align) :
        Place(blocks \ {b}, b, bytes, align)
  /\ UNCHANGED end_addr

\* Mutant of FreeLeftOf: the first block of the heap is never taken.
FreeLeftNotFirst(addr) ==
  {l \in blocks : Mergeable(l) /\ EndOf(l) = addr /\ l.addr > StartAddr}

\* The free block heap_merge_left finds in front of addr, if any.
FreeLeftOf(addr) == {l \in blocks : Mergeable(l) /\ EndOf(l) = addr}

\* Mutants of FreeRightAt: a least block is not merged; a used block is.
FreeRightLonger(addr) ==
  {r \in blocks : Mergeable(r) /\ r.addr = addr /\ r.size > ListMin}
FreeRightEvenUsed(addr) == {r \in blocks : r.size >= ListMin /\ r.addr = addr}

\* The free block heap_merge_right finds at addr, if any.
FreeRightAt(addr) == {r \in blocks : Mergeable(r) /\ r.addr = addr}

\* Where the block that starts at addr starts after heap_merge_left, and where
\* the one that ends before addr ends after heap_merge_right.
StartMerged(addr) ==
  IF FreeLeftOf(addr) = {} THEN addr ELSE (CHOOSE l \in FreeLeftOf(addr) : TRUE).addr

\* Mutant of EndMerged: the merge steps back over the right block.
EndMergedBack(addr) ==
  IF FreeRightAt(addr) = {} THEN addr
  ELSE LET r == CHOOSE x \in FreeRightAt(addr) : TRUE IN r.addr - r.size

EndMerged(addr) ==
  IF FreeRightAt(addr) = {} THEN addr ELSE EndOf(CHOOSE r \in FreeRightAt(addr) : TRUE)

\* heap_alloc when heap_search finds nothing and heap_extend is granted pages.
HeapAllocExtended(bytes, align) ==
  LET grow  == PageAlign(BlockSize(bytes))
      lefts == FreeLeftOf(end_addr)
      first == StartMerged(end_addr)
  IN /\ Ready
     /\ end_addr + grow <= MemTop
     /\ end_addr' = end_addr + grow
     /\ Place(blocks \ lefts,
              Block(first, end_addr + grow - first, FALSE), bytes, align)

\* heap_extend when page_alloc has to build a page table: the nested heap_alloc
\* waits for ever, before end_addr has moved.  Or when it maps the first page
\* only: the footer of the new block faults after end_addr has moved, and the
\* page fault handler waits for the lock or maps nothing, again and again.
\* (When page_alloc refuses, heap_alloc returns 0 and nothing has changed.)
HeapAllocFaults(bytes) ==
  LET grow == PageAlign(BlockSize(bytes)) IN
  /\ Ready
  /\ Hang("heap_extend")
  /\ \/ UNCHANGED end_addr
     \/ /\ grow > PageFrames
        /\ end_addr + grow <= MemTop
        /\ end_addr' = end_addr + grow

-----------------------------------------------------------------------------
(* heap_free and heap_realloc *)

\* The block whose payload a caller's pointer addresses (HEAP_PAYLOAD_HEADER).
BlocksAt(ptr) == {b \in blocks : PayloadOf(b) = ptr}

\* heap_free of a pointer a caller holds: merge left, merge right, insert.
HeapFree(a) ==
  /\ Ready
  /\ \E b \in BlocksAt(a.ptr) :
       LET merged == FreeLeftOf(b.addr) \union FreeRightAt(EndOf(b))
           first  == StartMerged(b.addr)
           free   == Block(first, EndMerged(EndOf(b)) - first, FALSE)
       IN Finish({free.size},
                 (blocks \ (merged \union {b})) \union {free},
                 live \ {a})
  /\ UNCHANGED end_addr

\* Mutant of Capacity: the header and the footer are counted as payload.
CapacityWithOverhead(b) == b.size * FrameBytes

\* heap_alloc_size
Capacity(b) == (b.size - Overhead) * FrameBytes

\* HEAP_ALIGN: heap_realloc rounds the new size down, not up.
RoundedDown(bytes) == (bytes \div FrameBytes) * FrameBytes

\* heap_realloc when the block is long enough: the pointer stays.
HeapReallocInPlace(a, bytes) ==
  /\ Ready
  /\ \E b \in BlocksAt(a.ptr) : Capacity(b) > RoundedDown(bytes)
  /\ live' = (live \ {a}) \union {[a EXCEPT !.bytes = bytes]}
  /\ UNCHANGED <<blocks, end_addr, spin, damage>>

\* heap_realloc otherwise: it takes the lock and calls heap_alloc, which waits
\* for the lock.
HeapReallocMoves(a, bytes) ==
  /\ Ready
  /\ \E b \in BlocksAt(a.ptr) : Capacity(b) <= RoundedDown(bytes)
  /\ Hang("heap_realloc")
  /\ UNCHANGED end_addr

-----------------------------------------------------------------------------

\* heap_create: one free block, put in the tree.
Init ==
  /\ blocks = {Block(StartAddr, InitSize, FALSE)}
  /\ end_addr = StartAddr + InitSize
  /\ spin = "none"
  /\ damage = "none"
  /\ live = {}

Next ==
  \/ \E bytes \in Requests, align \in BOOLEAN : HeapAllocFound(bytes, align)
  \/ \E bytes \in Requests, align \in BOOLEAN : HeapAllocExtended(bytes, align)
  \/ \E bytes \in Requests : HeapAllocFaults(bytes)
  \/ \E a \in live : HeapFree(a)
  \/ \E a \in live, bytes \in Requests : HeapReallocInPlace(a, bytes)
  \/ \E a \in live, bytes \in Requests : HeapReallocMoves(a, bytes)
  \/ IndexGoesWild

Spec == Init /\ [][Next]_vars

-----------------------------------------------------------------------------
(* Correctness.  Every property speaks of the heap between two calls, up to *)
(* the first call that hangs or writes outside its block.                   *)

\* Shape of the state.
TypeOK ==
  /\ blocks \subseteq [addr : Nat, size : Nat, used : BOOLEAN]
  /\ end_addr \in Nat
  /\ spin \in {"none", "heap_extend", "heap_insert", "heap_realloc"}
  /\ damage \in {"none", "cut", "index"}
  /\ live \subseteq [ptr : Nat, bytes : Requests, align : BOOLEAN]

\* No two blocks of B share a frame.
BlocksApart(B) ==
  \A b, c \in B : b = c \/ EndOf(b) <= c.addr \/ EndOf(c) <= b.addr

\* The blocks of B lie in the heap that ends at "end", and each of its frames
\* is in one of them.
BlocksCover(B, end) ==
  /\ \A b \in B : StartAddr <= b.addr /\ b.size >= Overhead /\ EndOf(b) <= end
  /\ \A f \in StartAddr .. end - 1 : \E b \in B : b.addr <= f /\ f < EndOf(b)

\* heap_split_block, heap_merge_left, heap_merge_right and heap_extend keep the
\* heap an exact row of blocks: walking it by sizes from start_addr meets every
\* header and stops at end_addr.  (The walk is what heap_list and both merges
\* rely on.)
Tiling == Ready => BlocksApart(blocks) /\ BlocksCover(blocks, end_addr)

\* heap_free, heap_extend and the cuts of heap_alloc never leave two free
\* blocks side by side that the merges would take: free memory is always as
\* unfragmented as the layout of the used blocks allows.
Coalesced ==
  Ready => \A b, c \in blocks : Mergeable(b) /\ Mergeable(c) => EndOf(b) # c.addr

\* What each caller holds is backed: its pointer is the payload of a used block
\* that is long enough, also after heap_realloc kept the pointer, and lies on a
\* page boundary if that was asked for.
LiveBacked ==
  Ready => \A a \in live :
    /\ \E b \in blocks : b.used /\ PayloadOf(b) = a.ptr /\ BlockSize(a.bytes) <= b.size
    /\ a.align => Aligned(a.ptr)

\* Nothing is used that nobody holds, and no block is held twice: every used
\* block can still be given back by heap_free.
UsedIsLive ==
  Ready =>
    /\ \A b \in blocks : b.used => \E a \in live : a.ptr = PayloadOf(b)
    /\ \A a1, a2 \in live : a1.ptr = a2.ptr => a1 = a2

\* The two-frame pieces no merge ever takes back (lost for good) appear only in
\* front of a page-aligned payload: one per aligned request that grew the heap.
LostOnlyAtBoundary ==
  Ready => \A b \in blocks : b.size < ListMin => ~b.used /\ Aligned(EndOf(b) + 1)

\* heap_free gives everything back: once all allocations are freed and nothing
\* was lost at a page boundary, the heap is one free block again.
WholeWhenAllFreed ==
  Ready /\ live = {} /\ (\A b \in blocks : b.size >= ListMin) =>
    blocks = {Block(StartAddr, end_addr - StartAddr, FALSE)}

\* A call on one allocation leaves the block under every other one as it is, so
\* that heap_alloc_size of a pointer never changes while it is held.
OthersKeepTheirBlock ==
  [][\A b \in blocks : b.used /\ b \notin blocks' =>
        \A a \in live' : a.ptr # PayloadOf(b)]_vars

\* heap.h on heap_t.max_addr, "Maximum address of the heap": heap_extend never
\* takes the heap past it.
StaysBelowMax == end_addr <= MaxAddr

\* heap.h on heap_realloc, "@return new pointer to the memory block allocated
\* or 0": the call comes back.
ReallocReturns == spin # "heap_realloc"

\* heap.h on HEAP_LIST_MAX, "Maximum free block size listed in segregated lists
\* (larger ones go to a search tree)": heap_insert has a list for that size.
LargestListed == spin # "heap_insert"

\* The comment of both aligned searches in heap.c, "the block will suite fine
\* after alignament": heap_alloc cuts a block they found inside its bounds.
CutsInside == [][damage' = "cut" => end_addr' # end_addr]_vars

\* The detailed heap gives its callers what Allocator promises.
Promise == INSTANCE Allocator WITH Lo <- StartAddr + 1, Hi <- MemTop

Promised == Promise!Spec
=============================================================================
