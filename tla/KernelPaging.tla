---------------------------- MODULE KernelPaging ----------------------------
(***************************************************************************)
(* The page tables of the older kernel (kernel/memory/paging.c), which it  *)
(* takes over from the 32-bit stage, and its handler of page faults        *)
(* (kernel/cpu/interrupts.c).  Unlike the loader it sets the cache         *)
(* attributes of an entry, and has an allocator of its own: _page_offset,  *)
(* here the placement address of the space.                                *)
(***************************************************************************)
EXTENDS Paging

CONSTANTS
  FrameDivisor,  \* what page_set_frame divides an address by: not PAGE_SIZE
  OwnUnits       \* where the memory map, the kernel and its stack are, below the tables

ASSUME KernelPagingConstants ==
  FrameDivisor \in Nat \ {0} /\ OwnUnits \subseteq 0 .. PADDR_LOC - 1

\* What the kernel adds to the space: the entries that have the cache disabled, and
\* whether a page fault has been cured since the flag was last cleared.
KernelSpace(sp) == sp @@ [uncached |-> {}, faulted |-> FALSE]

IsMapped(sp, page) == Translate(sp, page) # Absent

\* A page fault that is never cured.
Hung(sp) == sp.stuck # Absent

PagesIn(from, bytes) == IF bytes <= 0 THEN {} ELSE Page(from) .. Page(from + bytes - 1)

-----------------------------------------------------------------------------
(* page_init *)

\* sort_e820: the same bubble sort as the loader's, and a second half that adds up
\* what is not reserved.
KSortE820(map) == SortE820(map)

KTotal(map) ==
  Max({0} \union {End(map[i]) : i \in {j \in DOMAIN map : ~map[j].reserved}})

KAvailable(map) ==
  FoldLeft(LAMBDA sum, e : IF e.ok THEN sum + e.length ELSE sum, 0, map)

\* Where the tables of the 32-bit stage end, counted again from INIT_MEM.
KTablesEnd ==
  LET tables  == CeilDiv(InitPages, Fan)
      dirs    == CeilDiv(tables, Fan)
      drawers == CeilDiv(dirs, Fan)
  IN PADDR_LOC + PageSize * (1 + drawers + dirs + tables)

\* The bit set of frames follows them: a byte for eight frames.
BitsBytes(frames) == frames \div 8

\* page_set_frame: the word of the bit set that has the bit of an address, whether
\* the bit set is that long or not.
FrameWord(addr) == KTablesEnd + ((addr \div FrameDivisor) \div 64) * 8

\* The call that should clear the bit set clears memory at the address that is the
\* number of frames.
ClearedBytes(frames) == frames .. frames + BitsBytes(frames) - 1

\* An entry of a table, by its bytes.
EntryBytes(table, i) ==
  LET size == PageSize \div Fan
  IN table * PageSize + i * size .. table * PageSize + (i + 1) * size - 1

ClearsTables(sp, frames) ==
  \E t \in sp.frames, i \in 0 .. Fan - 1 :
    sp.tables[t][i] # Absent /\ EntryBytes(t, i) \intersect ClearedBytes(frames) # {}

\* The kernel clears its map of the memory, its own code or its stack.
ClearsItself(frames) == ClearedBytes(frames) \intersect OwnUnits # {}

\* The pages of all the entries that are not normal memory are marked.
MarkedPages(map) ==
  UNION {Page(map[i].base) .. Page(End(map[i])) - 1 :
           i \in {j \in DOMAIN map : ~map[j].ok}}

\* There is no handler yet: a fault, or a table that is gone, resets the machine.
PageInitResets(sp, map, frames) ==
  \/ ClearsTables(sp, frames)
  \/ \E page \in PagesIn(frames, BitsBytes(frames)) : ~IsMapped(sp, page)
  \/ \E page \in MarkedPages(map) : ~IsMapped(sp, Page(FrameWord(page * PageSize)))

BitsEnd(frames) == PagesUp(KTablesEnd + BitsBytes(frames)) * PageSize

KPageInit ==
  /\ stage = "page_init"
  /\ e820' = KSortE820(e820)
  /\ total' = KTotal(e820')
  /\ available' = KAvailable(e820')
  /\ IF ClearsItself(Page(total'))
     THEN stage' = "k_wild" /\ space' = space
     ELSE IF PageInitResets(space, e820', Page(total'))
     THEN stage' = "k_reset" /\ space' = space
     ELSE /\ stage' = "k_interrupts"
          /\ space' = [KernelSpace(space) EXCEPT !.placement = BitsEnd(Page(total'))]
  /\ UNCHANGED <<left, loopVars, index, growths, overwritten>>

-----------------------------------------------------------------------------
(* Mapping *)

WithEntry(sp, table, i, frame, mmio) ==
  [sp EXCEPT !.tables[table][i] = frame,
             !.uncached = IF mmio THEN @ \union {<<table, i>>} ELSE @ \ {<<table, i>>}]

\* The store that clears a new table may fault.  The handler then maps that page,
\* unless it needs a table for it: that one goes to the same place, where the
\* handler faults in its turn, and so on without end.
Placed(sp, frame) ==
  IF IsMapped(sp, frame) THEN sp
  ELSE IF TableFor(sp, frame, 1) = Absent THEN [sp EXCEPT !.stuck = frame]
  ELSE [WithEntry(sp, TableFor(sp, frame, 1), PmlIdx(frame, 1), frame, FALSE)
          EXCEPT !.faulted = TRUE]

\* One level of page_map: the table that the entry of a level points to is made if
\* there is none.
WithTable(sp, page, level, mmio) ==
  LET table == TableFor(sp, page, level)
      i     == PmlIdx(page, level)
      frame == Page(sp.placement)
      ready == Placed(sp, frame)
  IN IF Hung(sp) \/ sp.tables[table][i] # Absent THEN sp
     ELSE IF Hung(ready) THEN ready
     ELSE [WithEntry(ready, table, i, frame, mmio)
             EXCEPT !.frames = @ \union {frame},
                    !.tables[frame] = NoEntries,
                    !.placement = @ + PageSize]

WithTables(sp, page, mmio) ==
  WithTable(WithTable(WithTable(sp, page, 4, mmio), page, 3, mmio), page, 2, mmio)

WithPage(sp, page, mmio) ==
  IF Hung(sp) \/ IsMapped(sp, page) THEN sp
  ELSE WithEntry(sp, TableFor(sp, page, 1), PmlIdx(page, 1), page, mmio)

\* page_map and page_map_mmio map a page to itself, if it is not mapped.
PageMap(sp, page)     == WithPage(WithTables(sp, page, FALSE), page, FALSE)
PageMapMmio(sp, page) == WithPage(WithTables(sp, page, TRUE), page, TRUE)

\* page_resolve tests all the levels: zero stands for "not mapped".
KResolve(sp, page) == IF IsMapped(sp, page) THEN Translate(sp, page) ELSE 0

\* isr_handler, for a page fault.
IsrPageFault(sp, page) ==
  IF KResolve(sp, page) = 0
  THEN [PageMap(sp, page) EXCEPT !.faulted = TRUE]
  ELSE [sp EXCEPT !.stuck = page]

\* The program reads in a page.
Touch(sp, page) ==
  IF Hung(sp) \/ IsMapped(sp, page) THEN sp ELSE IsrPageFault(sp, page)

-----------------------------------------------------------------------------
(* Single entries.  Their levels count from 0, for a page, to 3. *)

\* The table that has the entry of a level.
PmlTable(sp, page, level) == TableFor(sp, page, IF level >= 3 THEN 4 ELSE level + 1)
PmlSlot(page, level)      == PmlIdx(page, IF level >= 3 THEN 4 ELSE level + 1)

PageGetPmlEntry(sp, page, level) ==
  sp.tables[PmlTable(sp, page, level)][PmlSlot(page, level)]

\* Mutant of PageSetPmlEntry: the entry below is set in the table of its level.
PageSetPmlEntryAbove(sp, page, level, frame) ==
  LET upper == WithEntry(sp, PmlTable(sp, page, level), PmlSlot(page, level), frame, TRUE)
  IN WithEntry(upper, PmlTable(upper, page, 1), PmlSlot(page, 0), frame, TRUE)

\* The function does not return when it has set the entry of a higher level: it goes
\* on to write the same value into the entry of the page.
PageSetPmlEntry(sp, page, level, frame) ==
  LET upper == WithEntry(sp, PmlTable(sp, page, level), PmlSlot(page, level), frame, TRUE)
  IN WithEntry(upper, PmlTable(upper, page, 0), PmlSlot(page, 0), frame, TRUE)

\* An entry is read, has its cache disabled and is written back.
DisableCache(sp, page, level) ==
  IF Hung(sp) THEN sp
  ELSE PageSetPmlEntry(sp, page, level, PageGetPmlEntry(sp, page, level))
=============================================================================
