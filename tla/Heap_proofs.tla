----------------------------- MODULE Heap_proofs -----------------------------
(***************************************************************************)
(* Proofs about the block level of the heap, for every page size, list     *)
(* limit, memory size and set of requests.                                 *)
(***************************************************************************)
EXTENDS Heap, TLAPS

BlockSet == [addr : Nat, size : Nat, used : BOOLEAN]

-----------------------------------------------------------------------------
(* Sizes *)

\* HEAP_BSIZE: a block for a request of at least one byte can also stand as a
\* free block once it is given back.
LEMMA BlockSizeBound ==
  \A bytes \in Requests : BlockSize(bytes) \in Nat /\ BlockSize(bytes) >= ListMin
BY HeapNumbers, HeapShape DEF BlockSize, Overhead, FrameBytes

\* heap_realloc keeps the pointer only if the block holds the new size, although
\* it compares with the new size rounded down: the comparison is strict.
LEMMA CapacityEnough ==
  ASSUME NEW size \in Nat, NEW bytes \in Nat,
         (size - Overhead) * FrameBytes > RoundedDown(bytes)
  PROVE  BlockSize(bytes) <= size
BY DEF BlockSize, Overhead, FrameBytes, RoundedDown

\* PAGE_SIZE_ALIGN yields a number of frames.
LEMMA PageAlignNat ==
  ASSUME NEW n \in Nat
  PROVE  PageAlign(n) \in Nat
<1>1. PageFrames \in Nat /\ PageFrames > 0
  BY HeapNumbers, HeapShape DEF Overhead
<1>2. (n + PageFrames - 1) \div PageFrames \in Nat
  BY <1>1
<1>3. QED
  BY <1>1, <1>2 DEF PageAlign

-----------------------------------------------------------------------------
(* Rows of blocks *)

\* What split and merge have in common: some blocks that make up the frames from
\* lo to hi, or lie at the end of the heap and are prolonged to hi, give way to
\* others that make up the same frames.  The heap stays an exact row.
LEMMA Replace ==
  ASSUME NEW B \in SUBSET BlockSet, NEW Old \in SUBSET B, NEW New \in SUBSET BlockSet,
         NEW lo \in Nat, NEW hi \in Nat, NEW end \in Nat, NEW newEnd \in Nat,
         BlocksApart(B), BlocksCover(B, end),
         StartAddr <= lo, hi <= newEnd, end <= newEnd,
         newEnd = end \/ (newEnd = hi /\ lo <= end),
         \A o \in Old : lo <= o.addr /\ EndOf(o) <= hi,
         \A x \in B \ Old : EndOf(x) <= lo \/ hi <= x.addr,
         BlocksApart(New),
         \A n \in New : lo <= n.addr /\ n.size >= Overhead /\ EndOf(n) <= hi,
         \A f \in lo .. hi - 1 : \E n \in New : n.addr <= f /\ f < EndOf(n)
  PROVE  BlocksApart((B \ Old) \union New) /\ BlocksCover((B \ Old) \union New, newEnd)
<1> DEFINE C == (B \ Old) \union New
<1> USE HeapNumbers DEF BlockSet
<1>1. BlocksApart(C)
  BY DEF BlocksApart, EndOf
<1>2. \A b \in C : StartAddr <= b.addr /\ b.size >= Overhead /\ EndOf(b) <= newEnd
  BY DEF BlocksCover, EndOf, Overhead
<1>3. ASSUME NEW f \in StartAddr .. newEnd - 1
      PROVE  \E b \in C : b.addr <= f /\ f < EndOf(b)
  <2>1. CASE f \in lo .. hi - 1
    BY <2>1
  <2>2. CASE ~(f \in lo .. hi - 1)
    <3>1. f \in StartAddr .. end - 1
      BY <2>2
    <3>2. PICK b \in B : b.addr <= f /\ f < EndOf(b)
      BY <3>1 DEF BlocksCover
    <3>3. b \notin Old
      BY <2>2, <3>2 DEF EndOf
    <3>4. QED
      BY <3>2, <3>3
  <2>3. QED
    BY <2>1, <2>2
<1>4. QED
  BY <1>1, <1>2, <1>3 DEF BlocksCover

\* heap_merge_left and heap_extend: at most one free block ends where another
\* block starts, and the merged block starts where that one does.
LEMMA LeftNeighbour ==
  ASSUME blocks \in SUBSET BlockSet, BlocksApart(blocks), BlocksCover(blocks, end_addr),
         NEW addr \in Nat, addr >= StartAddr
  PROVE  /\ StartMerged(addr) \in Nat
         /\ StartAddr <= StartMerged(addr) /\ StartMerged(addr) <= addr
         /\ \/ FreeLeftOf(addr) = {} /\ StartMerged(addr) = addr
            \/ \E l \in blocks : /\ FreeLeftOf(addr) = {l} /\ Mergeable(l)
                                 /\ EndOf(l) = addr /\ StartMerged(addr) = l.addr
<1> USE HeapNumbers DEF BlockSet
<1>1. CASE FreeLeftOf(addr) = {}
  BY <1>1 DEF StartMerged
<1>2. CASE FreeLeftOf(addr) # {}
  <2> DEFINE l == CHOOSE x \in FreeLeftOf(addr) : TRUE
  <2>1. l \in FreeLeftOf(addr)
    BY <1>2
  <2>2. \A x \in FreeLeftOf(addr) : x = l
    BY <2>1 DEF FreeLeftOf, BlocksApart, BlocksCover, EndOf, Overhead
  <2>3. FreeLeftOf(addr) = {l}
    BY <2>1, <2>2
  <2>4. StartMerged(addr) = l.addr
    BY <1>2 DEF StartMerged
  <2>5. /\ l \in blocks /\ Mergeable(l) /\ EndOf(l) = addr
        /\ l.addr \in Nat /\ l.size \in Nat /\ StartAddr <= l.addr
    BY <2>1 DEF FreeLeftOf, BlocksCover
  <2>6. l.addr <= addr
    BY <2>5 DEF EndOf
  <2> HIDE DEF l
  <2>7. QED
    BY <2>3, <2>4, <2>5, <2>6
<1>3. QED
  BY <1>1, <1>2

\* heap_merge_right: the same on the other side.
LEMMA RightNeighbour ==
  ASSUME blocks \in SUBSET BlockSet, BlocksApart(blocks), BlocksCover(blocks, end_addr),
         NEW addr \in Nat, addr <= end_addr, end_addr \in Nat
  PROVE  /\ EndMerged(addr) \in Nat
         /\ addr <= EndMerged(addr) /\ EndMerged(addr) <= end_addr
         /\ \/ FreeRightAt(addr) = {} /\ EndMerged(addr) = addr
            \/ \E r \in blocks : /\ FreeRightAt(addr) = {r} /\ Mergeable(r)
                                 /\ r.addr = addr /\ EndMerged(addr) = EndOf(r)
<1> USE HeapNumbers DEF BlockSet
<1>1. CASE FreeRightAt(addr) = {}
  BY <1>1 DEF EndMerged
<1>2. CASE FreeRightAt(addr) # {}
  <2> DEFINE r == CHOOSE x \in FreeRightAt(addr) : TRUE
  <2>1. r \in FreeRightAt(addr)
    BY <1>2
  <2>2. \A x \in FreeRightAt(addr) : x = r
    BY <2>1 DEF FreeRightAt, BlocksApart, BlocksCover, EndOf, Overhead
  <2>3. FreeRightAt(addr) = {r}
    BY <2>1, <2>2
  <2>4. EndMerged(addr) = EndOf(r)
    BY <1>2 DEF EndMerged
  <2>5. /\ r \in blocks /\ Mergeable(r) /\ r.addr = addr
        /\ r.size \in Nat /\ EndOf(r) <= end_addr
    BY <2>1 DEF FreeRightAt, BlocksCover
  <2>6. EndOf(r) \in Nat /\ addr <= EndOf(r)
    BY <2>5 DEF EndOf
  <2> HIDE DEF r
  <2>7. QED
    BY <2>3, <2>4, <2>5, <2>6
<1>3. QED
  BY <1>1, <1>2

-----------------------------------------------------------------------------
(* The cut of heap_alloc *)

\* A block cut inside its bounds falls into pieces that make up its frames: what
\* heap_alloc and heap_split_block write neither overlaps nor leaves a hole.
LEMMA Pieces ==
  ASSUME NEW b \in BlockSet, NEW left \in Nat, NEW bsize \in Nat,
         bsize >= ListMin, left # 1, left + bsize <= b.size,
         NEW N, N = LeftPart(b, left) \union RestPart(b, left, bsize)
                      \union {UsedPart(b, left, bsize)}
  PROVE  /\ N \in SUBSET BlockSet
         /\ BlocksApart(N)
         /\ \A n \in N : b.addr <= n.addr /\ n.size >= Overhead /\ EndOf(n) <= EndOf(b)
         /\ \A f \in b.addr .. EndOf(b) - 1 : \E n \in N : n.addr <= f /\ f < EndOf(n)
<1> USE HeapNumbers, HeapShape DEF BlockSet, Block, Overhead
<1> DEFINE L == Block(b.addr, left, FALSE)
           U == UsedPart(b, left, bsize)
           R == Block(b.addr + left + bsize, b.size - left - bsize, FALSE)
<1>1. /\ b.addr \in Nat /\ b.size \in Nat
      /\ U.addr = b.addr + left /\ U \in BlockSet
      /\ Splits(b.size - left, bsize) => U.size = bsize
      /\ ~Splits(b.size - left, bsize) => U.size = b.size - left
      /\ U.size >= ListMin
  BY DEF UsedPart, Splits
<1>2. left # 0 => L \in BlockSet /\ L.addr = b.addr /\ L.size = left
  OBVIOUS
<1>3. Splits(b.size - left, bsize) =>
        /\ R \in BlockSet /\ R.addr = b.addr + left + bsize
        /\ R.size = b.size - left - bsize /\ R.size >= ListMin
  BY DEF Splits
<1>4. \A n \in N : \/ n = L /\ left # 0
                   \/ n = U
                   \/ n = R /\ Splits(b.size - left, bsize)
  BY DEF LeftPart, RestPart
<1>5. /\ U \in N
      /\ left # 0 => L \in N
      /\ Splits(b.size - left, bsize) => R \in N
  BY DEF LeftPart, RestPart
<1> HIDE DEF L, U, R
<1>6. N \in SUBSET BlockSet
  BY <1>1, <1>2, <1>3, <1>4
<1>7. BlocksApart(N)
  BY <1>1, <1>2, <1>3, <1>4 DEF BlocksApart, EndOf
<1>8. \A n \in N : b.addr <= n.addr /\ n.size >= Overhead /\ EndOf(n) <= EndOf(b)
  BY <1>1, <1>2, <1>3, <1>4 DEF EndOf
<1>9. ASSUME NEW f \in b.addr .. EndOf(b) - 1
      PROVE  \E n \in N : n.addr <= f /\ f < EndOf(n)
  <2>1. CASE f < b.addr + left
    BY <1>1, <1>2, <1>5, <2>1 DEF EndOf
  <2>2. CASE f >= b.addr + left /\ f < EndOf(U)
    BY <1>1, <1>5, <2>2
  <2>3. CASE f >= b.addr + left /\ f >= EndOf(U)
    BY <1>1, <1>3, <1>5, <2>3 DEF EndOf
  <2>4. QED
    BY <1>1, <2>1, <2>2, <2>3 DEF EndOf
<1>10. QED
  BY <1>6, <1>7, <1>8, <1>9

-----------------------------------------------------------------------------
(* The inductive invariant *)

\* Up to the first hang or wild access the heap is an exact row of blocks that
\* ends in memory, merged as far as it goes, and the used blocks and what the
\* callers hold correspond one to one.  No part is inductive alone: a merge is
\* inside the row only if rows are exact, a freed block is the caller's only if
\* pointers are unique, and a cut leaves no two free neighbours only if there
\* were none.
HeapInv ==
  /\ TypeOK
  /\ Tiling
  /\ Ready => StartAddr < end_addr /\ end_addr <= MemTop
  /\ Coalesced
  /\ LiveBacked
  /\ UsedIsLive
  /\ LostOnlyAtBoundary

\* heap_create: one free block from start_addr to end_addr.
LEMMA InitInv == Init => HeapInv
<1> SUFFICES ASSUME Init PROVE HeapInv
  OBVIOUS
<1> USE HeapNumbers, HeapShape DEF Init, Block, EndOf, Overhead
<1>1. TypeOK
  BY DEF TypeOK
<1>2. Tiling
  BY DEF Tiling, BlocksApart, BlocksCover
<1>3. StartAddr < end_addr /\ end_addr <= MemTop /\ Coalesced /\ LiveBacked /\ UsedIsLive /\ LostOnlyAtBoundary
  BY DEF Coalesced, LiveBacked, UsedIsLive, LostOnlyAtBoundary, Mergeable
<1>4. QED
  BY <1>1, <1>2, <1>3 DEF HeapInv

\* A call that does not come back, or writes outside its block, keeps the shape
\* of the state; nothing else is claimed of the heap it leaves.
LEMMA StopInv ==
  ASSUME HeapInv, end_addr' \in Nat,
         \/ Ruin("cut") \/ Ruin("index") \/ Hang("heap_insert")
         \/ Hang("heap_extend") \/ Hang("heap_realloc")
  PROVE  HeapInv'
BY DEF HeapInv, Ruin, Hang, TypeOK, Tiling, Coalesced, LiveBacked, UsedIsLive,
       LostOnlyAtBoundary, Ready

\* The second half of heap_alloc, wherever the block b came from: b stands for
\* the free blocks that are no longer among the others, it reaches at most the
\* new end of the heap, and no free block could be merged with it.
LEMMA PlaceInv ==
  ASSUME HeapInv, Ready,
         NEW others \in SUBSET blocks, NEW b \in BlockSet, NEW bytes \in Requests,
         NEW align \in BOOLEAN, end_addr' \in Nat,
         end_addr <= end_addr', end_addr' <= MemTop,
         StartAddr <= b.addr, EndOf(b) <= end_addr',
         end_addr' = end_addr \/ (end_addr' = EndOf(b) /\ b.addr <= end_addr),
         \A x \in blocks \ others : ~x.used /\ b.addr <= x.addr /\ EndOf(x) <= EndOf(b),
         \A x \in others : EndOf(x) <= b.addr \/ EndOf(b) <= x.addr,
         \A x \in others : Mergeable(x) => EndOf(x) # b.addr /\ x.addr # EndOf(b),
         Place(others, b, bytes, align)
  PROVE  HeapInv'
<1> USE HeapNumbers, HeapShape DEF BlockSet
<1> DEFINE bsize == BlockSize(bytes)
<1>1. bsize \in Nat /\ bsize >= ListMin
  BY BlockSizeBound
<1>2. b.addr \in Nat /\ b.size \in Nat /\ EndOf(b) \in Nat
  BY DEF EndOf
<1>3. PICK left \in LeftSizes(b, align) :
        LET used  == UsedPart(b, left, bsize)
            spare == LeftPart(b, left) \union RestPart(b, left, bsize)
        IN \/ Ruin("cut") \/ Hang("heap_insert")
           \/ /\ left # 1 /\ left + bsize <= b.size
              /\ blocks' = others \union spare \union {used}
              /\ live' = live \union {[ptr   |-> PayloadOf(used),
                                       bytes |-> bytes,
                                       align |-> align]}
              /\ UNCHANGED <<spin, damage>>
  BY DEF Place, Finish
<1>4. left \in Nat
  BY DEF LeftSizes, ToBoundary
<1> DEFINE U == UsedPart(b, left, bsize)
           L == LeftPart(b, left)
           R == RestPart(b, left, bsize)
           N == L \union R \union {U}
           a == [ptr |-> PayloadOf(U), bytes |-> bytes, align |-> align]
<1>5. CASE Ruin("cut") \/ Hang("heap_insert")
  BY <1>5, StopInv
<1>6. CASE /\ left # 1 /\ left + bsize <= b.size
           /\ blocks' = others \union (L \union R) \union {U}
           /\ live' = live \union {a}
           /\ UNCHANGED <<spin, damage>>
  <2>1. /\ N \in SUBSET BlockSet
        /\ BlocksApart(N)
        /\ \A n \in N : b.addr <= n.addr /\ n.size >= Overhead /\ EndOf(n) <= EndOf(b)
        /\ \A f \in b.addr .. EndOf(b) - 1 : \E n \in N : n.addr <= f /\ f < EndOf(n)
    BY <1>1, <1>4, <1>6, Pieces
  <2>2. U.used /\ U.addr = b.addr + left /\ U.size >= bsize /\ U.size \in Nat
    BY <1>1, <1>2, <1>4, <1>6 DEF UsedPart, Splits, Block, Overhead
  <2>3. \A n \in L : ~n.used /\ n.addr = b.addr /\ n.size = left /\ left # 0
    BY DEF LeftPart, Block
  <2>4. \A n \in R : ~n.used /\ n.addr = EndOf(U) /\ EndOf(n) = EndOf(b) /\ n.size >= ListMin
    BY <1>1, <1>2, <1>4, <1>6 DEF RestPart, UsedPart, Splits, Block, EndOf
  <2> HIDE DEF U, L, R, a
  <2>5. blocks' = (blocks \ (blocks \ others)) \union N
    BY <1>6
  <2>6. Ready'
    BY <1>6 DEF Ready
  <2>7. blocks \in SUBSET BlockSet /\ end_addr \in Nat /\ BlocksApart(blocks) /\ BlocksCover(blocks, end_addr)
    BY DEF HeapInv, TypeOK, Tiling
  <2>8. BlocksApart(blocks') /\ BlocksCover(blocks', end_addr')
    <3> DEFINE Old == blocks \ others
    <3>1. /\ Old \in SUBSET blocks
          /\ \A o \in Old : b.addr <= o.addr /\ EndOf(o) <= EndOf(b)
          /\ \A x \in blocks \ Old : EndOf(x) <= b.addr \/ EndOf(b) <= x.addr
      OBVIOUS
    <3> HIDE DEF Old, N
    <3>2. BlocksApart((blocks \ Old) \union N) /\ BlocksCover((blocks \ Old) \union N, end_addr')
      BY <1>2, <2>1, <2>7, <3>1, Replace
    <3>3. QED
      BY <2>5, <3>2 DEF Old
  <2>9. TypeOK'
    BY <1>1, <1>2, <1>4, <1>6, <2>1, <2>2, <2>5, <2>7 DEF HeapInv, TypeOK, a, PayloadOf
  <2>10. Coalesced'
    <3> SUFFICES ASSUME NEW x \in blocks', NEW y \in blocks',
                        Mergeable(x), Mergeable(y), EndOf(x) = y.addr
                 PROVE  FALSE
      BY DEF Coalesced
    <3>1. x # U /\ y # U
      BY <2>2 DEF Mergeable
    <3>2. x \in BlockSet /\ y \in BlockSet /\ x.size >= ListMin /\ y.size >= ListMin
      BY <2>1, <2>5, <2>7 DEF Mergeable
    <3>3. CASE x \in others /\ y \in others
      BY <3>3 DEF HeapInv, Coalesced
    <3>4. CASE x \in others /\ y \in L
      BY <2>3, <3>4
    <3>5. CASE x \in others /\ y \in R
      BY <1>2, <2>2, <2>4, <3>2, <3>5, <1>4, <1>1 DEF EndOf, Overhead
    <3>6. CASE x \in L /\ y \in others
      BY <1>1, <1>2, <1>4, <1>6, <2>3, <3>2, <3>6 DEF EndOf, Overhead
    <3>7. CASE x \in R /\ y \in others
      BY <2>4, <3>7
    <3>8. CASE x \in L \union R /\ y \in L \union R
      BY <1>1, <1>2, <1>4, <2>2, <2>3, <2>4, <3>2, <3>8 DEF EndOf, Overhead
    <3>9. QED
      BY <1>6, <3>1, <3>3, <3>4, <3>5, <3>6, <3>7, <3>8
  <2>11. LiveBacked'
    <3> SUFFICES ASSUME NEW c \in live'
                 PROVE  /\ \E x \in blocks' : /\ x.used /\ PayloadOf(x) = c.ptr
                                              /\ BlockSize(c.bytes) <= x.size
                        /\ c.align => Aligned(c.ptr)
      BY DEF LiveBacked
    <3>1. CASE c \in live
      BY <1>6, <3>1 DEF HeapInv, LiveBacked
    <3>2. CASE c = a
      <4>1. align => Aligned(PayloadOf(b) + left)
        BY <1>2, <1>3 DEF LeftSizes, ToBoundary, PayloadOf
      <4>2. PayloadOf(U) = PayloadOf(b) + left
        BY <1>2, <1>4, <2>2 DEF PayloadOf
      <4>3. QED
        BY <1>6, <2>2, <3>2, <4>1, <4>2 DEF a
    <3>3. QED
      BY <1>6, <3>1, <3>2
  <2>12. UsedIsLive'
    <3>1. \A x \in others : x.used => PayloadOf(x) # PayloadOf(U)
      BY <1>1, <1>2, <1>4, <1>6, <2>2, <2>7 DEF PayloadOf, EndOf, Overhead, BlocksCover
    <3>2. \A c \in live : c.ptr # a.ptr
      <4>1. \A c \in live : \E x \in blocks : x.used /\ PayloadOf(x) = c.ptr
        BY DEF HeapInv, LiveBacked
      <4>2. \A c \in live : \E x \in others : x.used /\ PayloadOf(x) = c.ptr
        BY <4>1
      <4>3. QED
        BY <3>1, <4>2 DEF a
    <3>3. ASSUME NEW x \in blocks', x.used
          PROVE  \E c \in live' : c.ptr = PayloadOf(x)
      <4>1. x \in others \/ x = U
        BY <1>6, <2>3, <2>4, <3>3
      <4>2. CASE x \in others
        BY <1>6, <4>2, <3>3 DEF HeapInv, UsedIsLive
      <4>3. CASE x = U
        <5>1. a \in live' /\ a.ptr = PayloadOf(U)
          BY <1>6 DEF a
        <5>2. QED
          BY <4>3, <5>1
      <4>4. QED
        BY <4>1, <4>2, <4>3
    <3>4. \A c1, c2 \in live' : c1.ptr = c2.ptr => c1 = c2
      BY <1>6, <3>2 DEF HeapInv, UsedIsLive
    <3>5. QED
      BY <3>3, <3>4 DEF UsedIsLive
  <2>13. LostOnlyAtBoundary'
    <3> SUFFICES ASSUME NEW x \in blocks', x.size < ListMin
                 PROVE  ~x.used /\ Aligned(EndOf(x) + 1)
      BY DEF LostOnlyAtBoundary
    <3>1. CASE x \in others
      BY <3>1 DEF HeapInv, LostOnlyAtBoundary
    <3>2. CASE x \in L
      <4>1. Aligned(PayloadOf(b) + left)
        BY <2>3, <3>2, <1>3 DEF LeftSizes, ToBoundary
      <4>2. EndOf(x) + 1 = PayloadOf(b) + left
        BY <1>2, <1>4, <2>3, <3>2 DEF EndOf, PayloadOf
      <4>3. QED
        BY <2>3, <3>2, <4>1, <4>2
    <3>3. x # U
      BY <1>1, <2>2
    <3>4. x \notin R
      BY <2>1, <2>4
    <3>5. QED
      BY <1>6, <3>1, <3>2, <3>3, <3>4
  <2>14. StartAddr < end_addr'
    BY <2>7 DEF HeapInv
  <2>15. QED
    BY <2>8, <2>9, <2>10, <2>11, <2>12, <2>13, <2>14 DEF HeapInv, Tiling
<1>7. QED
  BY <1>3, <1>5, <1>6

-----------------------------------------------------------------------------
(* The calls *)

\* heap_alloc with a block of the index.
LEMMA FoundInv ==
  ASSUME HeapInv, NEW bytes \in Requests, NEW align \in BOOLEAN,
         HeapAllocFound(bytes, align)
  PROVE  HeapInv'
<1> USE HeapNumbers, HeapShape
<1>1. /\ Ready /\ end_addr' = end_addr /\ end_addr \in Nat /\ end_addr <= MemTop
      /\ blocks \in SUBSET BlockSet
      /\ BlocksApart(blocks) /\ BlocksCover(blocks, end_addr) /\ Coalesced
  BY DEF HeapAllocFound, HeapInv, TypeOK, Tiling, BlockSet
<1>2. PICK b \in Suitable(BlockSize(bytes), align) :
        Place(blocks \ {b}, b, bytes, align)
  BY DEF HeapAllocFound
<1>3. b \in blocks /\ ~b.used /\ b.size >= BlockSize(bytes)
  BY <1>2 DEF Suitable
<1>4. Mergeable(b)
  BY <1>1, <1>3, BlockSizeBound DEF Mergeable, BlockSet
<1>5. \A x \in blocks \ {b} : EndOf(x) <= b.addr \/ EndOf(b) <= x.addr
  BY <1>1, <1>3 DEF BlocksApart
<1>6. \A x \in blocks \ {b} : Mergeable(x) => EndOf(x) # b.addr /\ x.addr # EndOf(b)
  BY <1>1, <1>3, <1>4 DEF Coalesced
<1>7. StartAddr <= b.addr /\ EndOf(b) <= end_addr
  BY <1>1, <1>3 DEF BlocksCover
<1>8. \A x \in blocks \ (blocks \ {b}) : ~x.used /\ b.addr <= x.addr /\ EndOf(x) <= EndOf(b)
  BY <1>1, <1>3 DEF BlockSet, EndOf
<1>9. QED
  BY <1>1, <1>2, <1>3, <1>5, <1>6, <1>7, <1>8, PlaceInv

\* heap_alloc with fresh pages, merged with the last free block.
LEMMA ExtendedInv ==
  ASSUME HeapInv, NEW bytes \in Requests, NEW align \in BOOLEAN,
         HeapAllocExtended(bytes, align)
  PROVE  HeapInv'
<1> USE HeapNumbers, HeapShape
<1> DEFINE grow  == PageAlign(BlockSize(bytes))
           lefts == FreeLeftOf(end_addr)
           first == StartMerged(end_addr)
           b     == Block(first, end_addr + grow - first, FALSE)
<1>1. /\ Ready /\ end_addr \in Nat /\ blocks \in SUBSET BlockSet
      /\ BlocksApart(blocks) /\ BlocksCover(blocks, end_addr) /\ Coalesced
  BY DEF HeapAllocExtended, HeapInv, TypeOK, Tiling, BlockSet
<1>2. grow \in Nat
  BY BlockSizeBound, PageAlignNat
<1>3. end_addr' = end_addr + grow /\ end_addr' <= MemTop
      /\ Place(blocks \ lefts, b, bytes, align)
  BY DEF HeapAllocExtended
<1>4. StartAddr < end_addr
  BY <1>1 DEF HeapInv
<1>5. /\ first \in Nat /\ StartAddr <= first /\ first <= end_addr
      /\ \/ lefts = {} /\ first = end_addr
         \/ \E l \in blocks : /\ lefts = {l} /\ Mergeable(l)
                              /\ EndOf(l) = end_addr /\ first = l.addr
  BY <1>1, <1>4, LeftNeighbour
<1> HIDE DEF grow, first, lefts
<1>6. b \in BlockSet /\ b.addr = first /\ EndOf(b) = end_addr'
  BY <1>1, <1>2, <1>3, <1>5 DEF Block, BlockSet, EndOf
<1> HIDE DEF b
<1>7. \A x \in blocks : x \in BlockSet /\ EndOf(x) <= end_addr /\ EndOf(x) \in Nat /\ x.size > 0
  BY <1>1 DEF BlocksCover, BlockSet, EndOf, Overhead
<1>8. \A x \in blocks \ (blocks \ lefts) : ~x.used /\ b.addr <= x.addr /\ EndOf(x) <= EndOf(b)
  <2>1. \A x \in lefts : ~x.used /\ x.addr = first
    BY <1>5 DEF Mergeable
  <2>2. QED
    BY <1>1, <1>2, <1>3, <1>5, <1>6, <1>7, <2>1 DEF BlockSet
<1>9. \A x \in blocks \ lefts : EndOf(x) <= b.addr \/ EndOf(b) <= x.addr
  BY <1>1, <1>5, <1>6, <1>7 DEF BlocksApart, BlockSet, EndOf
<1>10. \A x \in blocks \ lefts : Mergeable(x) => EndOf(x) # b.addr /\ x.addr # EndOf(b)
  <2>1. \A x \in blocks \ lefts : Mergeable(x) => EndOf(x) # first
    BY <1>1, <1>5 DEF Coalesced, lefts, FreeLeftOf
  <2>2. \A x \in blocks : x.addr # end_addr'
    BY <1>1, <1>2, <1>3, <1>7 DEF BlockSet, EndOf
  <2>3. QED
    BY <1>6, <2>1, <2>2
<1>11. /\ end_addr' \in Nat /\ end_addr <= end_addr'
       /\ blocks \ lefts \in SUBSET blocks
  BY <1>1, <1>2, <1>3
<1>12. QED
  BY <1>1, <1>3, <1>5, <1>6, <1>8, <1>9, <1>10, <1>11, PlaceInv

\* heap_free: the block and its free neighbours become one free block.
LEMMA FreeInv ==
  ASSUME HeapInv, NEW a \in live, HeapFree(a)
  PROVE  HeapInv'
<1> USE HeapNumbers, HeapShape
<1>1. /\ Ready /\ end_addr \in Nat /\ blocks \in SUBSET BlockSet
      /\ BlocksApart(blocks) /\ BlocksCover(blocks, end_addr) /\ Coalesced
      /\ LiveBacked /\ UsedIsLive /\ end_addr' = end_addr
  BY DEF HeapFree, HeapInv, TypeOK, Tiling, BlockSet
<1>2. PICK b \in BlocksAt(a.ptr) :
        LET merged == FreeLeftOf(b.addr) \union FreeRightAt(EndOf(b))
            first  == StartMerged(b.addr)
            free   == Block(first, EndMerged(EndOf(b)) - first, FALSE)
        IN Finish({free.size},
                  (blocks \ (merged \union {b})) \union {free},
                  live \ {a})
  BY DEF HeapFree
<1>3. b \in blocks /\ PayloadOf(b) = a.ptr
  BY <1>2 DEF BlocksAt
<1>4. /\ b \in BlockSet /\ b.addr \in Nat /\ b.size \in Nat
      /\ EndOf(b) \in Nat /\ b.size >= Overhead
      /\ StartAddr <= b.addr /\ EndOf(b) <= end_addr
  BY <1>1, <1>3 DEF BlockSet, EndOf, BlocksCover
<1>5. b.used
  <2>1. PICK x \in blocks : x.used /\ PayloadOf(x) = a.ptr
    BY <1>1 DEF LiveBacked
  <2>2. x = b
    BY <1>1, <1>3, <1>4, <2>1 DEF PayloadOf, BlocksApart, BlocksCover, EndOf, BlockSet, Overhead
  <2>3. QED
    BY <2>1, <2>2
<1> DEFINE lefts  == FreeLeftOf(b.addr)
           rights == FreeRightAt(EndOf(b))
           lo     == StartMerged(b.addr)
           hi     == EndMerged(EndOf(b))
           free   == Block(lo, hi - lo, FALSE)
           Old    == lefts \union rights \union {b}
<1>6. /\ lo \in Nat /\ StartAddr <= lo /\ lo <= b.addr
      /\ \/ lefts = {} /\ lo = b.addr
         \/ \E l \in blocks : /\ lefts = {l} /\ Mergeable(l)
                              /\ EndOf(l) = b.addr /\ lo = l.addr
  BY <1>1, <1>4, LeftNeighbour
<1>7. /\ hi \in Nat /\ EndOf(b) <= hi /\ hi <= end_addr
      /\ \/ rights = {} /\ hi = EndOf(b)
         \/ \E r \in blocks : /\ rights = {r} /\ Mergeable(r)
                              /\ r.addr = EndOf(b) /\ hi = EndOf(r)
  BY <1>1, <1>4, RightNeighbour
<1>8. \/ Hang("heap_insert")
      \/ /\ blocks' = (blocks \ Old) \union {free}
         /\ live' = live \ {a}
         /\ UNCHANGED <<spin, damage>>
  BY <1>2 DEF Finish
<1>9. CASE Hang("heap_insert")
  BY <1>1, <1>9, StopInv
<1>10. CASE /\ blocks' = (blocks \ Old) \union {free}
            /\ live' = live \ {a}
            /\ UNCHANGED <<spin, damage>>
  <2>1. /\ Old \in SUBSET blocks
        /\ \A x \in lefts : Mergeable(x) /\ EndOf(x) = b.addr
        /\ \A x \in rights : Mergeable(x) /\ x.addr = EndOf(b)
        /\ \A x \in blocks \ Old : Mergeable(x) => EndOf(x) # b.addr /\ x.addr # EndOf(b)
    BY <1>3 DEF FreeLeftOf, FreeRightAt
  <2>2. Ready'
    BY <1>1, <1>10 DEF Ready
  <2> HIDE DEF lefts, rights, lo, hi
  <2>3. b.size \in Nat /\ EndOf(b) = b.addr + b.size /\ b.addr < EndOf(b)
    BY <1>4 DEF EndOf, Overhead
  <2>4. /\ free \in BlockSet /\ free.addr = lo /\ EndOf(free) = hi /\ ~free.used
        /\ free.size = hi - lo /\ free.size >= Overhead
    BY <1>4, <1>6, <1>7, <2>3 DEF Block, BlockSet, EndOf, Overhead
  <2>5. \A x \in blocks : /\ x.addr \in Nat /\ EndOf(x) \in Nat /\ x.addr < EndOf(x)
    BY <1>1 DEF BlockSet, EndOf, BlocksCover, Overhead
  <2>6. \A o \in Old : lo <= o.addr /\ EndOf(o) <= hi
    BY <1>4, <1>6, <1>7, <2>1, <2>3, <2>5
  <2>7. \A x \in blocks \ Old : EndOf(x) <= lo \/ hi <= x.addr
    <3> SUFFICES ASSUME NEW x \in blocks \ Old PROVE EndOf(x) <= lo \/ hi <= x.addr
      OBVIOUS
    <3>1. EndOf(x) <= b.addr \/ EndOf(b) <= x.addr
      BY <1>1, <1>3 DEF BlocksApart
    <3>2. EndOf(x) <= b.addr => EndOf(x) <= lo
      BY <1>1, <1>3, <1>4, <1>6, <2>3, <2>5 DEF BlocksApart
    <3>3. EndOf(b) <= x.addr => hi <= x.addr
      BY <1>1, <1>3, <1>4, <1>7, <2>3, <2>5 DEF BlocksApart
    <3>4. QED
      BY <3>1, <3>2, <3>3
  <2> HIDE DEF free
  <2>8. BlocksApart(blocks') /\ BlocksCover(blocks', end_addr')
    <3> DEFINE New == {free}
    <3>1. BlocksApart(New)
      BY DEF BlocksApart
    <3>2. /\ New \in SUBSET BlockSet
          /\ \A n \in New : lo <= n.addr /\ n.size >= Overhead /\ EndOf(n) <= hi
      BY <1>6, <1>7, <2>4
    <3>3. \A f \in lo .. hi - 1 : \E n \in New : n.addr <= f /\ f < EndOf(n)
      BY <1>6, <1>7, <2>4
    <3> HIDE DEF Old, New
    <3>4. /\ Old \in SUBSET blocks
          /\ lo \in Nat /\ hi \in Nat /\ StartAddr <= lo /\ hi <= end_addr
          /\ end_addr <= end_addr
      BY <1>1, <1>6, <1>7, <2>1
    <3>5. BlocksApart((blocks \ Old) \union New) /\ BlocksCover((blocks \ Old) \union New, end_addr)
      BY <1>1, <2>6, <2>7, <3>1, <3>2, <3>3, <3>4, Replace
    <3>6. QED
      BY <1>1, <1>10, <3>5 DEF New
  <2>9. TypeOK'
    BY <1>1, <1>10, <2>4 DEF HeapInv, TypeOK, BlockSet
  <2>10. Coalesced'
    <3> SUFFICES ASSUME NEW x \in blocks', NEW y \in blocks',
                        Mergeable(x), Mergeable(y), EndOf(x) = y.addr
                 PROVE  FALSE
      BY DEF Coalesced
    <3>1. \A z \in blocks \ Old : Mergeable(z) => EndOf(z) # lo /\ z.addr # hi
      BY <1>1, <1>6, <1>7, <2>1 DEF Coalesced
    <3>2. ~(x = free /\ y = free)
      BY <1>4, <1>6, <1>7, <2>3, <2>4
    <3>3. QED
      BY <1>1, <1>10, <2>4, <3>1, <3>2 DEF Coalesced
  <2>11. \A c \in live : c # a => c.ptr # PayloadOf(b)
    BY <1>1, <1>3 DEF UsedIsLive
  <2>12. \A x \in Old : x.used => x = b
    BY <2>1 DEF Mergeable
  <2>13. LiveBacked'
    <3> SUFFICES ASSUME NEW c \in live \ {a}
                 PROVE  /\ \E x \in blocks' : /\ x.used /\ PayloadOf(x) = c.ptr
                                              /\ BlockSize(c.bytes) <= x.size
                        /\ c.align => Aligned(c.ptr)
      BY <1>10 DEF LiveBacked
    <3>1. PICK x \in blocks : /\ x.used /\ PayloadOf(x) = c.ptr
                              /\ BlockSize(c.bytes) <= x.size
      BY <1>1 DEF LiveBacked
    <3>2. x \notin Old
      BY <2>11, <2>12, <3>1
    <3>3. c.align => Aligned(c.ptr)
      BY <1>1 DEF LiveBacked
    <3>4. QED
      BY <1>10, <3>1, <3>2, <3>3
  <2>14. UsedIsLive'
    <3>1. ASSUME NEW x \in blocks', x.used
          PROVE  \E c \in live' : c.ptr = PayloadOf(x)
      <4>1. x \in blocks /\ x # b
        BY <1>10, <2>4, <3>1
      <4>2. PICK c \in live : c.ptr = PayloadOf(x)
        BY <1>1, <3>1, <4>1 DEF UsedIsLive
      <4>3. c # a
        BY <1>1, <1>3, <1>4, <2>5, <4>1, <4>2 DEF PayloadOf, BlocksApart
      <4>4. QED
        BY <1>10, <4>2, <4>3
    <3>2. \A c1, c2 \in live' : c1.ptr = c2.ptr => c1 = c2
      BY <1>1, <1>10 DEF UsedIsLive
    <3>3. QED
      BY <3>1, <3>2 DEF UsedIsLive
  <2>15. LostOnlyAtBoundary'
    <3>1. free.size >= ListMin
      <4>1. b.size >= ListMin
        <5>1. PICK x \in blocks : /\ x.used /\ PayloadOf(x) = a.ptr
                                  /\ BlockSize(a.bytes) <= x.size
          BY <1>1 DEF LiveBacked
        <5>2. x = b
          BY <1>1, <1>3, <1>4, <2>5, <5>1 DEF PayloadOf, BlocksApart
        <5>3. a.bytes \in Requests
          BY DEF HeapInv, TypeOK
        <5>4. QED
          <6>1. BlockSize(a.bytes) \in Nat /\ BlockSize(a.bytes) >= ListMin
            BY <5>3, BlockSizeBound
          <6>2. BlockSize(a.bytes) <= b.size
            BY <5>1, <5>2
          <6>3. QED
            BY <1>4, <6>1, <6>2
      <4>2. QED
        BY <1>4, <1>6, <1>7, <2>3, <2>4, <4>1
    <3>2. QED
      BY <1>1, <1>10, <2>4, <3>1 DEF HeapInv, LostOnlyAtBoundary, BlockSet
  <2>16. QED
    BY <1>1, <2>8, <2>9, <2>10, <2>13, <2>14, <2>15 DEF HeapInv, Tiling
<1>11. QED
  BY <1>8, <1>9, <1>10

\* heap_realloc that keeps the pointer: the block is long enough.
LEMMA ReallocInv ==
  ASSUME HeapInv, NEW a \in live, NEW bytes \in Requests,
         HeapReallocInPlace(a, bytes)
  PROVE  HeapInv'
<1> USE HeapNumbers
<1> DEFINE r == [a EXCEPT !.bytes = bytes]
<1>1. /\ Ready /\ Ready'
      /\ blocks' = blocks /\ end_addr' = end_addr
      /\ live' = (live \ {a}) \union {r}
      /\ UNCHANGED <<spin, damage>>
  BY DEF HeapReallocInPlace, Ready
<1>2. a \in [ptr : Nat, bytes : Requests, align : BOOLEAN]
  BY DEF HeapInv, TypeOK
<1>3. /\ r \in [ptr : Nat, bytes : Requests, align : BOOLEAN]
      /\ r.ptr = a.ptr /\ r.bytes = bytes /\ r.align = a.align
  BY <1>2
<1> HIDE DEF r
<1>4. TypeOK'
  BY <1>1, <1>3 DEF HeapInv, TypeOK
<1>5. Tiling' /\ Coalesced' /\ LostOnlyAtBoundary'
      /\ (Ready => StartAddr < end_addr /\ end_addr <= MemTop)'
  BY <1>1 DEF HeapInv, Tiling, Coalesced, LostOnlyAtBoundary
<1>6. LiveBacked'
  <2>1. PICK b \in BlocksAt(a.ptr) : Capacity(b) > RoundedDown(bytes)
    BY DEF HeapReallocInPlace
  <2>2. b \in blocks /\ PayloadOf(b) = a.ptr /\ b.addr \in Nat /\ b.size \in Nat
    BY <2>1 DEF BlocksAt, HeapInv, TypeOK
  <2>3. BlockSize(bytes) <= b.size
    BY <2>1, <2>2, CapacityEnough DEF Capacity
  <2>4. b.used
    <3>1. PICK x \in blocks : x.used /\ PayloadOf(x) = a.ptr
      BY <1>1 DEF HeapInv, LiveBacked
    <3>2. x = b
      BY <1>1, <2>2, <3>1 DEF HeapInv, TypeOK, Tiling, PayloadOf, BlocksApart,
                              BlocksCover, EndOf, Overhead
    <3>3. QED
      BY <3>1, <3>2
  <2>5. a.align => Aligned(a.ptr)
    BY <1>1 DEF HeapInv, LiveBacked
  <2>6. QED
    BY <1>1, <1>3, <2>2, <2>3, <2>4, <2>5 DEF HeapInv, LiveBacked
<1>7. UsedIsLive'
  BY <1>1, <1>3 DEF HeapInv, UsedIsLive
<1>8. QED
  BY <1>4, <1>5, <1>6, <1>7 DEF HeapInv

\* Every call keeps the invariant.
LEMMA NextInv == HeapInv /\ [Next]_vars => HeapInv'
<1> SUFFICES ASSUME HeapInv, [Next]_vars PROVE HeapInv'
  OBVIOUS
<1>1. ASSUME NEW bytes \in Requests, NEW align \in BOOLEAN, HeapAllocFound(bytes, align)
      PROVE  HeapInv'
  BY <1>1, FoundInv
<1>2. ASSUME NEW bytes \in Requests, NEW align \in BOOLEAN, HeapAllocExtended(bytes, align)
      PROVE  HeapInv'
  BY <1>2, ExtendedInv
<1>3. ASSUME NEW bytes \in Requests, HeapAllocFaults(bytes)
      PROVE  HeapInv'
  <2>1. end_addr \in Nat /\ PageAlign(BlockSize(bytes)) \in Nat
    BY BlockSizeBound, PageAlignNat DEF HeapInv, TypeOK
  <2>2. end_addr' \in Nat /\ Hang("heap_extend")
    BY <1>3, <2>1 DEF HeapAllocFaults
  <2>3. QED
    BY <2>2, StopInv
<1>4. ASSUME NEW a \in live, HeapFree(a)
      PROVE  HeapInv'
  BY <1>4, FreeInv
<1>5. ASSUME NEW a \in live, NEW bytes \in Requests, HeapReallocInPlace(a, bytes)
      PROVE  HeapInv'
  BY <1>5, ReallocInv
<1>6. ASSUME NEW a \in live, NEW bytes \in Requests, HeapReallocMoves(a, bytes)
      PROVE  HeapInv'
  BY <1>6, StopInv DEF HeapReallocMoves, HeapInv, TypeOK
<1>7. CASE IndexGoesWild
  BY <1>7, StopInv DEF IndexGoesWild, HeapInv, TypeOK
<1>8. CASE UNCHANGED vars
  BY <1>8 DEF vars, HeapInv, TypeOK, Tiling, Ready, Coalesced, LiveBacked, UsedIsLive,
              LostOnlyAtBoundary, BlocksApart, BlocksCover
<1>9. QED
  BY <1>1, <1>2, <1>3, <1>4, <1>5, <1>6, <1>7, <1>8 DEF Next

\* The invariant holds in every behaviour of the heap.
THEOREM HeapInvariant == Spec => []HeapInv
<1>1. HeapInv /\ [Next]_vars => HeapInv'
  BY NextInv
<1>2. QED
  BY InitInv, <1>1, PTL DEF Spec

\* Type correctness of the heap's state, for every page size, list limit and
\* memory size.
THEOREM TypeCorrect == Spec => []TypeOK
<1>1. HeapInv => TypeOK
  BY DEF HeapInv
<1>2. QED
  BY HeapInvariant, <1>1, PTL

\* heap_alloc, heap_free and heap_extend keep the memory of the heap an exact
\* row of blocks: no overlap, no hole, and the walk by sizes ends at end_addr.
THEOREM HeapTiled == Spec => []Tiling
<1>1. HeapInv => Tiling
  BY DEF HeapInv
<1>2. QED
  BY HeapInvariant, <1>1, PTL

\* Merging on heap_free and heap_extend is complete: free blocks that could be
\* merged are never neighbours.
THEOREM HeapCoalesced == Spec => []Coalesced
<1>1. HeapInv => Coalesced
  BY DEF HeapInv
<1>2. QED
  BY HeapInvariant, <1>1, PTL

\* Every pointer held by a caller of heap_alloc or heap_realloc is backed by a
\* used block that is long enough and lies on a page boundary if asked.
THEOREM PointersBacked == Spec => []LiveBacked
<1>1. HeapInv => LiveBacked
  BY DEF HeapInv
<1>2. QED
  BY HeapInvariant, <1>1, PTL

\* Used blocks and held pointers correspond one to one.
THEOREM NothingUsedIsLost == Spec => []UsedIsLive
<1>1. HeapInv => UsedIsLive
  BY DEF HeapInv
<1>2. QED
  BY HeapInvariant, <1>1, PTL

\* The two-frame pieces that heap_alloc loses lie in front of page boundaries.
THEOREM LossesAtBoundaries == Spec => []LostOnlyAtBoundary
<1>1. HeapInv => LostOnlyAtBoundary
  BY DEF HeapInv
<1>2. QED
  BY HeapInvariant, <1>1, PTL

\* With everything freed and nothing lost the heap is one free block again.
THEOREM FreeingRestores == Spec => []WholeWhenAllFreed
<1>1. HeapInv => WholeWhenAllFreed
  <2> SUFFICES ASSUME HeapInv, Ready, live = {}, \A b \in blocks : b.size >= ListMin
               PROVE  blocks = {Block(StartAddr, end_addr - StartAddr, FALSE)}
    BY DEF WholeWhenAllFreed
  <2> USE HeapNumbers, HeapShape
  <2>1. /\ blocks \in SUBSET BlockSet /\ end_addr \in Nat /\ StartAddr < end_addr
        /\ BlocksApart(blocks) /\ BlocksCover(blocks, end_addr)
    BY DEF HeapInv, TypeOK, Tiling, BlockSet
  <2>2. \A b \in blocks : Mergeable(b)
    BY DEF HeapInv, UsedIsLive, Mergeable
  <2>3. \A b \in blocks : EndOf(b) \in Nat /\ b.addr \in Nat /\ b.addr < EndOf(b)
    BY <2>1 DEF BlockSet, EndOf, BlocksCover, Overhead
  <2>4. ASSUME NEW b \in blocks
        PROVE  EndOf(b) = end_addr
    <3>1. CASE EndOf(b) < end_addr
      <4>1. PICK c \in blocks : c.addr <= EndOf(b) /\ EndOf(b) < EndOf(c)
        BY <2>1, <2>3, <3>1 DEF BlocksCover
      <4>2. c.addr = EndOf(b)
        BY <2>1, <2>3, <4>1 DEF BlocksApart
      <4>3. QED
        BY <2>2, <4>2 DEF HeapInv, Coalesced
    <3>2. QED
      BY <2>1, <2>3, <3>1 DEF BlocksCover
  <2>5. \A b, c \in blocks : b = c
    BY <2>1, <2>3, <2>4 DEF BlocksApart
  <2>6. \A b \in blocks : b.addr = StartAddr
    <3> SUFFICES ASSUME NEW b \in blocks PROVE b.addr = StartAddr
      OBVIOUS
    <3>1. StartAddr <= b.addr /\ StartAddr < end_addr
      BY <2>1, <2>3, <2>4 DEF BlocksCover
    <3>2. PICK c \in blocks : c.addr <= StartAddr
      BY <2>1, <3>1 DEF BlocksCover
    <3>3. QED
      BY <2>1, <2>3, <2>5, <3>1, <3>2
  <2>7. \A b \in blocks : b = Block(StartAddr, end_addr - StartAddr, FALSE)
    BY <2>1, <2>2, <2>3, <2>4, <2>6 DEF BlockSet, Block, EndOf, Mergeable
  <2>8. blocks # {}
    BY <2>1 DEF BlocksCover
  <2>9. QED
    BY <2>7, <2>8
<1>2. QED
  BY HeapInvariant, <1>1, PTL
-----------------------------------------------------------------------------
(* What a call may change *)

\* A call on one allocation leaves the block under every other one as it is:
\* heap_alloc takes free blocks only, heap_free the block of its pointer and
\* free neighbours, and no other allocation has that pointer.
THEOREM BlocksKept == Spec => OthersKeepTheirBlock
<1> DEFINE Kept == \A b \in blocks : b.used /\ b \notin blocks' =>
                      \A a \in live' : a.ptr # PayloadOf(b)
<1>1. HeapInv /\ [Next]_vars => [Kept]_vars
  <2> SUFFICES ASSUME HeapInv, Next, NEW x \in blocks, x.used, x \notin blocks',
                      NEW c \in live'
               PROVE  c.ptr # PayloadOf(x)
    OBVIOUS
  <2>1. ASSUME NEW bytes \in Requests, NEW align \in BOOLEAN,
               HeapAllocFound(bytes, align)
        PROVE  FALSE
    <3>1. PICK b \in Suitable(BlockSize(bytes), align) :
            Place(blocks \ {b}, b, bytes, align)
      BY <2>1 DEF HeapAllocFound
    <3>2. x # b
      BY <3>1 DEF Suitable
    <3>3. QED
      BY <3>1, <3>2 DEF Place, Finish, Ruin, Hang
  <2>2. ASSUME NEW bytes \in Requests, NEW align \in BOOLEAN,
               HeapAllocExtended(bytes, align)
        PROVE  FALSE
    <3>1. x \in blocks \ FreeLeftOf(end_addr)
      BY DEF FreeLeftOf, Mergeable
    <3>2. QED
      BY <2>2, <3>1 DEF HeapAllocExtended, Place, Finish, Ruin, Hang
  <2>3. ASSUME NEW a \in live, HeapFree(a)
        PROVE  c.ptr # PayloadOf(x)
    <3>1. PICK b \in BlocksAt(a.ptr) :
            LET merged == FreeLeftOf(b.addr) \union FreeRightAt(EndOf(b))
                first  == StartMerged(b.addr)
                free   == Block(first, EndMerged(EndOf(b)) - first, FALSE)
            IN Finish({free.size},
                      (blocks \ (merged \union {b})) \union {free},
                      live \ {a})
      BY <2>3 DEF HeapFree
    <3>2. x \notin FreeLeftOf(b.addr) \union FreeRightAt(EndOf(b))
      BY DEF FreeLeftOf, FreeRightAt, Mergeable
    <3>3. x = b /\ live' = live \ {a}
      BY <3>1, <3>2 DEF Finish, Hang
    <3>4. PayloadOf(x) = a.ptr
      BY <3>3 DEF BlocksAt
    <3>5. QED
      BY <2>3, <3>3, <3>4 DEF HeapFree, HeapInv, UsedIsLive
  <2>4. CASE UNCHANGED blocks
    BY <2>4
  <2>5. QED
    BY <2>1, <2>2, <2>3, <2>4 DEF Next, HeapAllocFaults, HeapReallocInPlace,
       HeapReallocMoves, IndexGoesWild, Hang, Ruin
<1>2. QED
  BY HeapInvariant, <1>1, PTL DEF Spec, OthersKeepTheirBlock

-----------------------------------------------------------------------------
(* The heap implements Allocator *)

\* What callers hold lies inside the memory, is aligned as asked, and two
\* allocations share no frame: their blocks are different and do not overlap.
LEMMA LiveApart ==
  HeapInv /\ Ready =>
    /\ \A a \in live : /\ StartAddr + 1 <= a.ptr
                       /\ a.ptr + Promise!PayloadFrames(a.bytes) <= MemTop
                       /\ a.align => Promise!Aligned(a.ptr)
    /\ \A a, b \in live : a # b => Promise!Apart(a, b)
<1> SUFFICES ASSUME HeapInv, Ready
             PROVE  /\ \A a \in live : /\ StartAddr + 1 <= a.ptr
                                       /\ a.ptr + Promise!PayloadFrames(a.bytes) <= MemTop
                                       /\ a.align => Promise!Aligned(a.ptr)
                    /\ \A a, b \in live : a # b => Promise!Apart(a, b)
  OBVIOUS
<1> USE HeapNumbers
<1> DEFINE Holds(a, x) == /\ x.addr \in Nat /\ x.size \in Nat
                          /\ a.ptr = x.addr + 1
                          /\ Promise!PayloadFrames(a.bytes) \in Nat
                          /\ Promise!PayloadFrames(a.bytes) + 2 <= x.size
                          /\ StartAddr <= x.addr /\ x.addr + x.size <= MemTop
<1>1. /\ blocks \in SUBSET BlockSet /\ end_addr \in Nat /\ end_addr <= MemTop
      /\ BlocksApart(blocks) /\ BlocksCover(blocks, end_addr)
  BY DEF HeapInv, TypeOK, Tiling, BlockSet
<1>2. \A a \in live : \E x \in blocks : Holds(a, x)
  <2> SUFFICES ASSUME NEW a \in live PROVE \E x \in blocks : Holds(a, x)
    OBVIOUS
  <2>1. a.bytes \in Nat
    <3>1. a.bytes \in Requests
      BY DEF HeapInv, TypeOK
    <3>2. QED
      BY <3>1
  <2>2. PICK x \in blocks : /\ x.used /\ PayloadOf(x) = a.ptr
                            /\ BlockSize(a.bytes) <= x.size
    BY DEF HeapInv, LiveBacked
  <2>3. /\ Promise!PayloadFrames(a.bytes) \in Nat
        /\ BlockSize(a.bytes) = Promise!PayloadFrames(a.bytes) + 2
    BY <2>1 DEF BlockSize, Promise!PayloadFrames, FrameBytes, Overhead
  <2>4. x.addr \in Nat /\ x.size \in Nat /\ StartAddr <= x.addr /\ x.addr + x.size <= MemTop
    BY <1>1 DEF BlockSet, BlocksCover, EndOf
  <2>5. QED
    BY <2>2, <2>3, <2>4 DEF PayloadOf
<1>3. ASSUME NEW a \in live
      PROVE  /\ StartAddr + 1 <= a.ptr
             /\ a.ptr + Promise!PayloadFrames(a.bytes) <= MemTop
             /\ a.align => Promise!Aligned(a.ptr)
  <2>1. a.align => Promise!Aligned(a.ptr)
    BY DEF HeapInv, LiveBacked, Aligned, Promise!Aligned
  <2>2. PICK x \in blocks : Holds(a, x)
    BY <1>2
  <2>3. QED
    BY <2>1, <2>2
<1>4. ASSUME NEW a \in live, NEW b \in live, a # b
      PROVE  Promise!Apart(a, b)
  <2>1. PICK x \in blocks : Holds(a, x)
    BY <1>2
  <2>2. PICK y \in blocks : Holds(b, y)
    BY <1>2
  <2>3. x # y
    BY <1>4, <2>1, <2>2 DEF HeapInv, UsedIsLive
  <2>4. EndOf(x) <= y.addr \/ EndOf(y) <= x.addr
    BY <1>1, <2>3 DEF BlocksApart
  <2>5. QED
    BY <2>1, <2>2, <2>4 DEF EndOf, Promise!Apart
<1>5. QED
  BY <1>3, <1>4

\* A call that changes what callers hold hands out one more allocation, gives
\* back one, or changes the size of one; the heap is sound after it.
LEMMA LiveSteps ==
  ASSUME HeapInv, Next
  PROVE  \/ UNCHANGED live
         \/ \E a \in live : live' = live \ {a}
         \/ /\ Ready'
            /\ \E ptr \in Nat, bytes \in Requests, align \in BOOLEAN :
                  live' = live \union {[ptr |-> ptr, bytes |-> bytes, align |-> align]}
         \/ /\ Ready /\ Ready'
            /\ \E a \in live, bytes \in Requests :
                  live' = (live \ {a}) \union {[a EXCEPT !.bytes = bytes]}
<1> USE HeapNumbers
<1> DEFINE More == /\ Ready'
                   /\ \E ptr \in Nat, bytes \in Requests, align \in BOOLEAN :
                        live' = live \union {[ptr |-> ptr, bytes |-> bytes, align |-> align]}
<1>1. ASSUME NEW others, NEW b \in BlockSet, NEW bytes \in Requests, NEW align \in BOOLEAN,
             Ready, Place(others, b, bytes, align)
      PROVE  UNCHANGED live \/ More
  <2>1. PICK left \in LeftSizes(b, align) :
          \/ UNCHANGED live
          \/ /\ UNCHANGED <<spin, damage>>
             /\ live' = live \union {[ptr   |-> PayloadOf(UsedPart(b, left, BlockSize(bytes))),
                                      bytes |-> bytes,
                                      align |-> align]}
    BY <1>1 DEF Place, Finish, Ruin, Hang
  <2>2. left \in Nat
    BY DEF LeftSizes, ToBoundary
  <2>3. PayloadOf(UsedPart(b, left, BlockSize(bytes))) \in Nat
    BY <2>2 DEF PayloadOf, UsedPart, Block, BlockSet
  <2>4. QED
    BY <1>1, <2>1, <2>3 DEF Ready
<1>2. ASSUME NEW bytes \in Requests, NEW align \in BOOLEAN, HeapAllocFound(bytes, align)
      PROVE  UNCHANGED live \/ More
  <2>1. PICK b \in Suitable(BlockSize(bytes), align) :
          Ready /\ Place(blocks \ {b}, b, bytes, align)
    BY <1>2 DEF HeapAllocFound
  <2>2. b \in BlockSet
    BY DEF Suitable, HeapInv, TypeOK, BlockSet
  <2>3. QED
    BY <1>1, <2>1, <2>2
<1>3. ASSUME NEW bytes \in Requests, NEW align \in BOOLEAN, HeapAllocExtended(bytes, align)
      PROVE  UNCHANGED live \/ More
  <2> DEFINE first == StartMerged(end_addr)
             b == Block(first, end_addr + PageAlign(BlockSize(bytes)) - first, FALSE)
  <2>1. Ready /\ Place(blocks \ FreeLeftOf(end_addr), b, bytes, align)
    BY <1>3 DEF HeapAllocExtended
  <2>2. /\ blocks \in SUBSET BlockSet /\ end_addr \in Nat /\ StartAddr < end_addr
        /\ BlocksApart(blocks) /\ BlocksCover(blocks, end_addr)
    BY <2>1 DEF HeapInv, TypeOK, Tiling, BlockSet
  <2>3. first \in Nat /\ first <= end_addr
    BY <2>2, LeftNeighbour
  <2>4. PageAlign(BlockSize(bytes)) \in Nat
    BY BlockSizeBound, PageAlignNat
  <2>5. b \in BlockSet
    BY <2>2, <2>3, <2>4 DEF BlockSet, Block
  <2> HIDE DEF b
  <2>6. QED
    BY <1>1, <2>1, <2>5
<1>4. ASSUME NEW a \in live, HeapFree(a)
      PROVE  UNCHANGED live \/ live' = live \ {a}
  BY <1>4 DEF HeapFree, Finish, Hang
<1>5. ASSUME NEW a \in live, NEW bytes \in Requests, HeapReallocInPlace(a, bytes)
      PROVE  Ready /\ Ready' /\ live' = (live \ {a}) \union {[a EXCEPT !.bytes = bytes]}
  BY <1>5 DEF HeapReallocInPlace, Ready
<1>6. QED
  BY <1>2, <1>3, <1>4, <1>5 DEF Next, HeapAllocFaults, HeapReallocMoves, IndexGoesWild, Hang, Ruin

\* The heap keeps what heap.h promises: it starts with nothing handed out, and
\* every call is a step of Allocator or leaves what callers hold alone.
THEOREM HeapImplementsAllocator == Spec => Promised
<1>1. Init => Promise!Init
  BY DEF Init, Promise!Init
<1>2. HeapInv /\ HeapInv' /\ [Next]_vars => [Promise!Next]_live
  <2> SUFFICES ASSUME HeapInv, HeapInv', Next, live' # live PROVE Promise!Next
    BY DEF vars
  <2> USE HeapNumbers
  <2>1. Ready' =>
          /\ \A a \in live' : /\ StartAddr + 1 <= a.ptr
                              /\ a.ptr + Promise!PayloadFrames(a.bytes) <= MemTop
                              /\ a.align => Promise!Aligned(a.ptr)
          /\ \A a, b \in live' : a # b => Promise!Apart(a, b)
    <3>1. (HeapInv /\ Ready =>
             /\ \A a \in live : /\ StartAddr + 1 <= a.ptr
                                /\ a.ptr + Promise!PayloadFrames(a.bytes) <= MemTop
                                /\ a.align => Promise!Aligned(a.ptr)
             /\ \A a, b \in live : a # b => Promise!Apart(a, b))'
      BY LiveApart, PTL
    <3>2. QED
      BY <3>1
  <2>2. CASE \E a \in live : live' = live \ {a}
    BY <2>2 DEF Promise!Next, Promise!Free
  <2>3. ASSUME Ready', NEW ptr \in Nat, NEW bytes \in Requests, NEW align \in BOOLEAN,
               live' = live \union {[ptr |-> ptr, bytes |-> bytes, align |-> align]}
        PROVE  Promise!Next
    <3> DEFINE a == [ptr |-> ptr, bytes |-> bytes, align |-> align]
    <3>1. a \in live' /\ a \notin live
      BY <2>3
    <3>2. /\ StartAddr + 1 <= ptr /\ ptr + Promise!PayloadFrames(bytes) <= MemTop
          /\ align => Promise!Aligned(ptr)
      BY <2>1, <2>3, <3>1
    <3>3. \A b \in live : Promise!Apart(a, b)
      BY <2>1, <2>3, <3>1
    <3>4. Promise!Alloc(ptr, bytes, align)
      BY <2>3, <3>2, <3>3 DEF Promise!Alloc, Promise!Allocation
    <3>5. ptr \in StartAddr + 1 .. MemTop
      <4>1. bytes \in Nat
        OBVIOUS
      <4>2. Promise!PayloadFrames(bytes) \in Nat
        BY <4>1 DEF Promise!PayloadFrames, FrameBytes
      <4>3. QED
        BY <3>2, <4>2
    <3>6. QED
      BY <3>4, <3>5 DEF Promise!Next
  <2>4. ASSUME Ready, Ready', NEW a \in live, NEW bytes \in Requests,
               live' = (live \ {a}) \union {[a EXCEPT !.bytes = bytes]}
        PROVE  Promise!Next
    <3> DEFINE r == [ptr |-> a.ptr, bytes |-> bytes, align |-> a.align]
    <3>1. r = [a EXCEPT !.bytes = bytes]
      BY DEF HeapInv, TypeOK
    <3>2. r \in live'
      BY <2>4, <3>1
    <3>3. r \notin live \ {a}
      BY <2>4 DEF HeapInv, UsedIsLive
    <3>4. \A b \in live \ {a} : Promise!Apart(r, b)
      BY <2>1, <2>4, <3>2, <3>3
    <3>5. a.ptr + Promise!PayloadFrames(bytes) <= MemTop
      BY <2>1, <2>4, <3>2
    <3>6. Promise!Resize(a, bytes)
      BY <2>4, <3>1, <3>4, <3>5 DEF Promise!Resize, Promise!Allocation
    <3>7. QED
      BY <3>6 DEF Promise!Next
  <2>5. QED
    BY <2>2, <2>3, <2>4, LiveSteps
<1>3. QED
  BY HeapInvariant, <1>1, <1>2, PTL DEF Spec, Promised, Promise!Spec
=============================================================================
