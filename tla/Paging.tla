------------------------------- MODULE Paging -------------------------------
(***************************************************************************)
(* Memory from the BIOS map to the heap: read_e820 (bios.asm), setup_pages *)
(* (main32.c), page_init, page faults and page_alloc (paging.c) and the    *)
(* allocators under them (memory.c).                                       *)
(*                                                                         *)
(* Addresses are counted in units of which PageSize make a page, tables    *)
(* have Fan entries, and physical and virtual addresses are the same: the  *)
(* loader maps everything to itself.                                       *)
(*                                                                         *)
(* The loader may end in three ways: "fault" is an instruction that faults *)
(* for ever before there is a handler, "hung" a fault or a wait without    *)
(* end after that, and at "wild" it has overwritten what it goes by, or    *)
(* goes by what nobody has written, and the model says nothing more of it. *)
(***************************************************************************)
EXTENDS FreePages, SequencesExt

CONSTANTS
  PageSize, Fan,
  INIT_MEM, PADDR_LOC,  \* addresses, at the start of a page
  MemoryPages,          \* the last page there is
  HeapMaxPages,         \* HEAP_MAX_SIZE
  Maps,                 \* memory maps: sets of entries
  GrowthsMax            \* bound: how often the program asks for memory or faults

ASSUME PagingConstants ==
  /\ PageSize \in Nat \ {0} /\ Fan \in Nat \ {0, 1}
  /\ INIT_MEM \in Nat /\ INIT_MEM % PageSize = 0
  /\ PADDR_LOC \in Nat /\ PADDR_LOC % PageSize = 0

\* An entry of a memory map.  What is ok is normal memory.
MapEntries == [base : Nat, length : Nat, ok : BOOLEAN, reserved : BOOLEAN]

ASSUME MapsOfMachines == \A map \in Maps : map \subseteq MapEntries

VARIABLES
  stage,     \* where the loader is
  left,      \* entries the BIOS has not reported yet
  e820,      \* the entries at E820_LOC
  next,      \* the entry page_init looks at, counted from 1
  counted,   \* it has been added to the totals
  todo,      \* its pages that are still to be mapped
  space,     \* page tables, placement address and heap (see below)
  index,     \* the index of free pages
  total, available,  \* _total_mem, _available_mem
  growths,     \* page faults and heap extensions so far
  overwritten  \* ghost: pages where a page table and the header or footer of a free
               \* block have been written over one another

pagingVars == <<stage, left, e820, next, counted, todo, space, index, total,
                available, growths, overwritten>>
loopVars == <<next, counted, todo>>

Page(addr)       == addr \div PageSize
PageAlign(addr)  == Page(addr) * PageSize
PagesUp(addr)    == (addr + PageSize - 1) \div PageSize
CeilDiv(a, b)    == (a + b - 1) \div b
InitPages        == Page(INIT_MEM)

-----------------------------------------------------------------------------
(* Page tables *)

Absent == -1

NoEntries == [i \in 0 .. Fan - 1 |-> Absent]

\* PAGE_PML_IDX of a page number
PmlIdx(page, level) == (page \div Fan^(level - 1)) % Fan

\* The space the loader works in: the table in each page of memory (of a page that
\* is no table, no entries), the pages that are tables, the table of the top level,
\* the next placement address, the extent of the heap in pages and its lock; and
\* what can go wrong: a table that was placed in a page that is not mapped, and
\* the page at which the loader hangs, if it does.
Mode(sp) == IF sp.heap_hi = 0 THEN "placement" ELSE "heap"

Entry(sp, table, page, level) == sp.tables[table][PmlIdx(page, level)]

\* The table of a level that serves a page: Absent if there is none.
TableFor(sp, page, level) ==
  CASE level = 4 -> sp.pml4
    [] level = 3 -> Entry(sp, sp.pml4, page, 4)
    [] level = 2 -> Entry(sp, Entry(sp, sp.pml4, page, 4), page, 3)
    [] level = 1 -> Entry(sp, Entry(sp, Entry(sp, sp.pml4, page, 4), page, 3), page, 2)

\* Where the CPU finds a page: Absent is a page fault.
Translate(sp, page) == Entry(sp, TableFor(sp, page, 1), page, 1)

\* page_resolve: 0 stands for "not mapped".  The last level is not tested for
\* presence: an absent entry has frame 0 and the offset is added to it.
Resolve(sp, addr) ==
  LET frame == Translate(sp, Page(addr))
  IN IF TableFor(sp, Page(addr), 1) \notin sp.frames THEN 0
     ELSE (IF frame = Absent THEN 0 ELSE frame * PageSize) + (addr % PageSize)

\* The levels whose table is missing for a page: the lowest ones.
Missing(sp, page) == Cardinality({l \in 1 .. 3 : TableFor(sp, page, l) = Absent})

\* Mutant of NewFrame: the placement address is moved on after the last table only.
NewFrameSame(sp, i) ==
  IF Mode(sp) = "placement" THEN PagesUp(sp.placement) ELSE sp.heap_hi + 2 * i

\* mem_alloc_align of the i-th missing table, counted from 0.  A table fits no block
\* the heap has: the heap is extended by two pages, which are merged with the free
\* block that the heap ends with (see PageFault), and the table is the first of them.
NewFrame(sp, i) ==
  IF Mode(sp) = "placement" THEN PagesUp(sp.placement) + i ELSE sp.heap_hi + 2 * i

\* The first pages of the extensions of the heap for some tables.
FirstPages(sp, count) == [i \in 1 .. count |-> NewFrame(sp, i - 1)]

\* Where page_alloc of n pages at the end of the heap hangs.  The first page is
\* mapped if need be, but for a table the heap would be asked, which is locked.  And
\* a footer is written at the end of the last page, where a fault is not cured.
PageAllocHangs(sp, first, n) ==
  IF TableFor(sp, first, 1) \notin sp.frames THEN {first}
  ELSE IF n > 1 /\ Translate(sp, first + n - 1) = Absent THEN {first + n - 1} ELSE {}

\* The page at which the loader hangs when it is to have some new tables.  They are
\* cleared first, so that one in a page that is not mapped is a fault.
StuckAt(sp, count) ==
  LET pages == IF Mode(sp) = "placement"
               THEN {f \in Range(FirstPages(sp, count)) : Translate(sp, f) # f}
               ELSE IF sp.locked /\ count > 0 THEN {sp.heap_hi}
               ELSE UNION {PageAllocHangs(sp, f, 2) : f \in Range(FirstPages(sp, count))}
  IN IF pages = {} THEN Absent ELSE Min(pages)

\* page_id_map of a page to itself: missing tables are created from the top down,
\* and an entry that is present stays as it is.
Kept(old, new) == IF old = Absent THEN new ELSE old

\* A page is entered in the table that is there for it.
EnterPage(sp, page) ==
  [sp EXCEPT !.tables[TableFor(sp, page, 1)][PmlIdx(page, 1)] = Kept(@, page)]

WithEntries(sp, page) ==
  LET m     == Missing(sp, page)
      At(l) == IF l > m THEN TableFor(sp, page, l) ELSE NewFrame(sp, m - l)
      ready == IF Mode(sp) = "heap" THEN FoldLeft(EnterPage, sp, FirstPages(sp, m)) ELSE sp
  IN [ready.tables EXCEPT
        ![At(4)][PmlIdx(page, 4)] = Kept(@, At(3)),
        ![At(3)][PmlIdx(page, 3)] = Kept(@, At(2)),
        ![At(2)][PmlIdx(page, 2)] = Kept(@, At(1)),
        ![At(1)][PmlIdx(page, 1)] = Kept(@, page)]

IdMap(sp, page) ==
  LET m     == Missing(sp, page)
      new   == {NewFrame(sp, i) : i \in 0 .. m - 1}
      stuck == StuckAt(sp, m)
  IN IF stuck # Absent
     THEN [sp EXCEPT
             !.stuck = stuck,
             !.unmapped = Mode(sp) = "placement",
             !.frames = IF Mode(sp) = "placement"
                        THEN @ \union {f \in new : f <= stuck} ELSE @]
     ELSE [sp EXCEPT
             !.tables = WithEntries(sp, page),
             !.frames = @ \union new,
             !.placement = IF Mode(sp) = "placement" /\ m > 0
                           THEN (NewFrame(sp, m - 1) + 1) * PageSize ELSE @,
             !.heap_hi = IF Mode(sp) = "heap" THEN @ + 2 * m ELSE @]

-----------------------------------------------------------------------------
(* The boot stages *)

PagingInit ==
  /\ stage = "off"
  /\ left = {}
  /\ e820 = <<>> /\ next = 1 /\ counted = FALSE /\ todo = <<>>
  /\ space = [tables |-> [page \in Absent .. MemoryPages |-> NoEntries],
              frames |-> {}, pml4 |-> 0, placement |-> 0, heap_lo |-> 0,
              heap_hi |-> 0, locked |-> FALSE, unmapped |-> FALSE, stuck |-> Absent]
  /\ index = EmptyIndex
  /\ total = 0 /\ available = 0 /\ growths = 0 /\ overwritten = {}

\* start16 clears the registers and calls main16.
Start16 ==
  /\ stage = "off" /\ stage' = "main16"
  /\ UNCHANGED <<left, e820, loopVars, space, index, total, available, growths, overwritten>>

\* main16: whatever memory the machine has, the BIOS is asked for it.
Main16 ==
  /\ stage = "main16" /\ stage' = "read_e820"
  /\ left' \in Maps
  /\ UNCHANGED <<e820, loopVars, space, index, total, available, growths, overwritten>>

\* read_e820, one call.  The BIOS reports in an order of its own.  It ends with a
\* continuation value of zero beside the last entry, which the loader then does
\* not count, or with the carry flag after it; and any call may fail, the first too.
ReadE820 ==
  /\ stage = "read_e820"
  /\ \/ \E e \in left :
          left' = left \ {e} /\ e820' = Append(e820, e) /\ stage' = stage
     \/ (left' = {}) /\ e820' = e820 /\ stage' = "main32"
  /\ UNCHANGED <<loopVars, space, index, total, available, growths, overwritten>>

\* setup_pages: the tables that map INIT_MEM follow one another from PADDR_LOC.
SetupPages ==
  LET tables    == CeilDiv(InitPages, Fan)
      dirs      == CeilDiv(tables, Fan)
      drawers   == CeilDiv(dirs, Fan)
      pml4      == Page(PADDR_LOC)
      pml3      == pml4 + 1
      pml2      == pml3 + drawers
      pml1      == pml2 + dirs
      \* table t of those from first on, whose entries are base, base + 1, ...
      Row(t, first, base, entries) ==
        [i \in 0 .. Fan - 1 |->
           IF (t - first) * Fan + i < entries
           THEN base + (t - first) * Fan + i ELSE Absent]
  IN [space EXCEPT
        !.pml4 = pml4,
        !.placement = (pml1 + tables) * PageSize,
        !.frames = pml4 .. pml1 + tables - 1,
        !.tables = [t \in DOMAIN space.tables |->
          CASE t = pml4             -> Row(t, pml4, pml3, drawers)
            [] t \in pml3 .. pml2 - 1 -> Row(t, pml3, pml2, dirs)
            [] t \in pml2 .. pml1 - 1 -> Row(t, pml2, pml1, tables)
            [] t \in pml1 .. pml1 + tables - 1 -> Row(t, pml1, 0, InitPages)
            [] OTHER -> NoEntries]]

Main32 ==
  /\ stage = "main32" /\ stage' = "start64"
  /\ space' = SetupPages
  /\ UNCHANGED <<left, e820, loopVars, index, total, available, growths, overwritten>>

\* The rest of start32 and start64: from here on the CPU goes by the page tables.
\* The same code calls the loader and, before there was one, called the kernel.
Start64 ==
  /\ stage = "start64" /\ stage' = "page_init"
  /\ UNCHANGED <<left, e820, loopVars, space, index, total, available, growths, overwritten>>

\* sort_e820: bubble sort, one pass less long than the one before.  The code stops
\* after a pass that swaps nothing: the passes that are left would swap nothing.
Swapped(s, i) ==
  IF s[i].base > s[i + 1].base THEN [s EXCEPT ![i] = s[i + 1], ![i + 1] = s[i]] ELSE s

Pass(s, count) ==
  LET after[i \in 0 .. count - 1] == IF i = 0 THEN s ELSE Swapped(after[i - 1], i)
  IN after[count - 1]

Bubble(s, count) ==
  LET after[n \in 0 .. count] ==
        IF n = 0 THEN s ELSE Pass(after[n - 1], count - n + 1)
  IN after[count]

\* Mutant of SortE820: the last entry is left out.
SortE820Short(s) == IF s = <<>> THEN s ELSE Bubble(s, Len(s) - 1)

SortE820(s) == Bubble(s, Len(s))

\* page_init up to its loop.
PageInitStart ==
  /\ stage = "page_init" /\ stage' = "page_init_loop"
  /\ e820' = SortE820(e820)
  /\ total' = 0 /\ available' = 0
  /\ index' = EmptyIndex
  /\ next' = 1
  /\ UNCHANGED <<left, space, growths, counted, todo, overwritten>>

End(e) == e.base + e.length

\* The pages page_init maps for an entry, in ascending order.
PagesOf(e) ==
  SelectSeq([k \in 1 .. CeilDiv(e.length, PageSize) |->
               Page(e.base + (k - 1) * PageSize)],
            LAMBDA page : page >= InitPages)

\* Mutant of FreeStart: memory below INIT_MEM is marked free.
FreeStartBase(e) == e.base

\* The free block an entry leaves behind INIT_MEM.  Its size is rounded up.
FreeStart(e) == IF e.base < INIT_MEM THEN INIT_MEM ELSE e.base
FreeSize(e)  == PagesUp(e.length - (FreeStart(e) - e.base))
LeavesFree(e) == End(e) > INIT_MEM

\* The pages page_create_block writes in for a block of some pages: its header and
\* links are at its start, and its footer is the last it has.
HeaderPage(b)       == Page(b)
FooterPage(b, size) == Page(b + size * PageSize - 1)

\* page_create_block and page_free_insert.  There is no handler of page faults yet.
\* A page table that is written over is no longer one, and past the end of the array
\* of lists there are other variables.
CreateBlock(b, size) ==
  LET pages   == {HeaderPage(b), FooterPage(b, size)}
      tables  == pages \intersect space.frames
      missing == {page \in pages : Translate(space, page) = Absent}
      inserted == FreeInsert(index, b, size)
  IN IF tables = {} /\ missing # {}
     THEN /\ stage' = "fault" /\ space' = [space EXCEPT !.stuck = Min(missing)]
          /\ UNCHANGED <<index, overwritten>>
     ELSE /\ stage' = IF tables # {} \/ inserted.past_end THEN "wild" ELSE stage
          /\ overwritten' = overwritten \union tables
          /\ index' = inserted
          /\ UNCHANGED space

\* The loop of page_init: an entry is counted, then its pages are mapped one by
\* one, then what lies beyond INIT_MEM is marked free.
InLoop == stage = "page_init_loop" /\ next <= Len(e820)

PageInitEntry ==
  /\ InLoop /\ todo = <<>> /\ ~counted /\ counted' = TRUE
  /\ LET e == e820[next] IN
     /\ total' = IF End(e) > total THEN End(e) ELSE total
     /\ available' = IF e.ok THEN available + e.length ELSE available
     /\ todo' = IF e.ok THEN PagesOf(e) ELSE <<>>
  /\ UNCHANGED <<stage, left, e820, next, space, index, growths, overwritten>>

\* A new table is cleared: the header of a free block that was there is gone.
PageInitMap ==
  /\ InLoop /\ todo # <<>>
  /\ space' = IdMap(space, Head(todo))
  /\ todo' = Tail(todo)
  /\ LET headers == {HeaderPage(b) : b \in Blocks(index)} \intersect
                      (space'.frames \ space.frames)
     IN /\ overwritten' = overwritten \union headers
        /\ stage' = IF space'.stuck # Absent THEN "fault"
                    ELSE IF headers # {} THEN "wild" ELSE stage
  /\ UNCHANGED <<left, e820, next, index, total, available, growths, counted>>

PageInitFree ==
  /\ InLoop /\ todo = <<>> /\ counted /\ counted' = FALSE
  /\ next' = next + 1
  /\ LET e == e820[next] IN
     IF e.ok /\ LeavesFree(e) THEN CreateBlock(FreeStart(e), FreeSize(e))
     ELSE UNCHANGED <<stage, space, index, overwritten>>
  /\ UNCHANGED <<left, e820, total, available, growths, todo>>

\* Mutant of InitHeap: the heap takes the page before the placement address.
InitHeapEarly ==
  /\ stage = "page_init_loop" /\ next > Len(e820)
  /\ stage' = "up"
  /\ space' = [space EXCEPT !.heap_lo = Page(space.placement) - 1,
                            !.heap_hi = Page(space.placement),
                            !.placement = INIT_MEM]
  /\ UNCHANGED <<left, e820, loopVars, index, total, available, growths, overwritten>>

\* The rest of page_init registers the handler of page faults, and mem_init_heap
\* starts the heap with one page at the placement address.  The first store, to the
\* first word of that page, maps it if it faults.  If there is no table for it, the
\* handler takes this very page for one, faults in its turn and does not end.
InitHeap ==
  /\ stage = "page_init_loop" /\ next > Len(e820)
  /\ LET page == Page(space.placement)
         served == TableFor(space, page, 1) \in space.frames
     IN /\ stage' = IF served THEN "up" ELSE "wild"
        /\ space' = [space EXCEPT !.tables = IF served THEN EnterPage(space, page).tables ELSE @,
                                  !.heap_lo = page,
                                  !.heap_hi = page + 1,
                                  !.placement = INIT_MEM]
  /\ UNCHANGED <<left, e820, loopVars, index, total, available, growths, overwritten>>

-----------------------------------------------------------------------------
(* The running system *)

\* The header of a free block is in the heap, where it has been written over.
HeaderBelow(b, top) == space.heap_lo <= HeaderPage(b) /\ HeaderPage(b) < top
HeaderInHeap(b)     == HeaderBelow(b, space.heap_hi)

\* The search of page_alloc follows what is where the headers and the root should be.
SearchDefined(n, top) ==
  FreeSearchDefined(index, n) /\ ~\E b \in Blocks(index) : HeaderBelow(b, top)

SearchFinds(n) == FreeSearch(index, n) # 0

\* Mutant of HeapUnlock: the heap stays locked.
HeapUnlockNot(sp) == sp

HeapUnlock(sp) == [sp EXCEPT !.locked = FALSE]

\* heap_extend under the lock of the heap: page_alloc of n pages at its end.  A free
\* block is looked for, and left where it is.
HeapExtend(n) ==
  LET first  == space.heap_hi
      hangs  == IF space.locked THEN {first} ELSE PageAllocHangs(space, first, n)
      known  == SearchDefined(n, first)
      held   == [space EXCEPT !.locked = TRUE]
      mapped == [held EXCEPT !.tables = EnterPage(space, first).tables]
  IN
  /\ stage = "up" /\ growths < GrowthsMax /\ growths' = growths + 1
  /\ space.heap_hi + n <= space.heap_lo + HeapMaxPages
  /\ \/ /\ first \in hangs
        /\ stage' = "hung" /\ space' = [held EXCEPT !.stuck = first]
     \/ /\ first \notin hangs /\ ~known
        /\ stage' = "wild" /\ space' = held
     \/ /\ first \notin hangs /\ known /\ ~SearchFinds(n)
        /\ stage' = "up" /\ space' = HeapUnlock(mapped)
     \/ /\ first \notin hangs /\ known /\ SearchFinds(n) /\ hangs # {}
        /\ stage' = "hung" /\ space' = [mapped EXCEPT !.stuck = Min(hangs)]
     \/ /\ hangs = {} /\ known /\ SearchFinds(n)
        /\ stage' = "up" /\ space' = HeapUnlock([mapped EXCEPT !.heap_hi = @ + n])
  /\ UNCHANGED <<left, e820, loopVars, index, total, available, overwritten>>

\* page_fault at an address outside the heap's own code.  It maps the page to
\* itself unless page_resolve finds the address, and the instruction is tried
\* again: it faults for ever.  For a missing table the heap is asked: if no block of
\* pages is found it returns 0, and if the block that the heap ends with is in use,
\* the cut falls outside of the extension (heap_alloc).
PageFault(addr) ==
  LET page == Page(addr)
      m    == Missing(space, page)
      sp   == IF Resolve(space, addr) = 0 THEN IdMap(space, page)
              ELSE [space EXCEPT !.stuck = page]
      known == SearchDefined(2, NewFrame(space, m - 1))
  IN
  /\ stage = "up" /\ growths < GrowthsMax /\ growths' = growths + 1
  /\ Translate(space, page) = Absent
  /\ \E tail_free \in BOOLEAN :
       IF m > 0 /\ sp.stuck # space.heap_hi /\ ~(tail_free /\ known /\ SearchFinds(2))
       THEN stage' = "wild" /\ UNCHANGED space
       ELSE stage' = (IF sp.stuck = Absent THEN "up" ELSE "hung") /\ space' = sp
  /\ UNCHANGED <<left, e820, loopVars, index, total, available, overwritten>>
=============================================================================
