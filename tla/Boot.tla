-------------------------------- MODULE Boot --------------------------------
(***************************************************************************)
(* From the boot record to a running system: BootRecord hands the machine  *)
(* to the 16 and 32-bit stages, which set up memory (Paging) and call the  *)
(* loader or, in the older layout of the image, the kernel (Acpi).         *)
(***************************************************************************)
EXTENDS BootRecord, Acpi

CONSTANTS Growths,    \* sizes of heap extensions, in pages
          Addresses   \* addresses the program touches

ASSUME ProgramAsks == Growths \subseteq Nat /\ Addresses \subseteq Nat

vars == <<mbrVars, pagingVars, acpiVars>>

Init == BootInit /\ PagingInit /\ AcpiInit

Mbr == BootStep /\ UNCHANGED <<pagingVars, acpiVars>>

\* jmp 0x0000:BOOT_LOC.  The boot record's own state is of no more use.
Handover ==
  /\ mbr = "jump" /\ mbr' = "gone"
  /\ Start16
  /\ parts' = <<>> /\ entry' = 1 /\ bbp_size' = 0 /\ cx' = 0 /\ loaded' = <<>>
  /\ dap' = [segm |-> 0, buff |-> 0, lba |-> 1]
  /\ UNCHANGED acpiVars

\* boot.asm, with what it calls of bios.asm, main16.c and main32.c.
Stages ==
  /\ Main16 \/ ReadE820 \/ Main32 \/ Start64
  /\ UNCHANGED <<mbrVars, acpiVars>>

\* main64.
Loader ==
  /\ \/ PageInitStart \/ PageInitEntry \/ PageInitMap \/ PageInitFree \/ InitHeap
     \/ \E n \in Growths : HeapExtend(n)
     \/ \E addr \in Addresses : PageFault(addr)
  /\ UNCHANGED <<mbrVars, acpiVars>>

\* kmain.
Kernel ==
  /\ (KPageInit /\ UNCHANGED acpiVars) \/ KmainStep
  /\ UNCHANGED mbrVars

Next == Mbr \/ Handover \/ Stages \/ Loader \/ Kernel

Spec == Init /\ [][Next]_vars

-----------------------------------------------------------------------------
(* Properties *)

Known == {e820[i] : i \in DOMAIN e820}

InKernel == stage \in Live \union {"k_interrupts", "k_reset", "k_hung", "k_wild"}

Aligned(e) == e.base % PageSize = 0 /\ e.length % PageSize = 0

\* Whether page tables have been placed beyond the memory that setup_pages maps,
\* where page_init marks memory free.
TablesPastInit == \E t \in space.frames : t >= InitPages

PageInitDone == stage \in {"up", "hung"}

\* No translation is ever wrong, as long as no page table has been written over: a
\* page is found at itself or not at all.  And the memory the loader knows of is there
\* when page_init is done: every whole page of an entry of normal memory is found.
KnownIsMapped ==
  /\ ~InKernel /\ overwritten = {} => \A page \in 0 .. MemoryPages :
       Translate(space, page) \in {page, Absent}
  /\ PageInitDone =>
       \A e \in {k \in Known : k.ok} :
         \A page \in Page(e.base) .. Page(End(e)) - 1 : Translate(space, page) = page

\* Page tables are placed in pages that are mapped, or the next store would fault
\* before there is a handler: the order of the entries matters, for a table is
\* mapped by the entry below it.  It takes a map without memory behind INIT_MEM
\* to go wrong.
TablesReachable ==
  space.unmapped =>
    \E t \in space.frames : t >= InitPages
      /\ ~\E e \in Known : e.ok /\ Page(e.base) <= t /\ t < Page(End(e))

\* Memory has one owner.  No page table is where the heap begins or where it will
\* grow to, and until it grows, none is in it.  And as long as the tables fit
\* below INIT_MEM and the heap has not grown past it, page tables, the heap and the
\* headers of free blocks are in different pages.
OwnersApart ==
  /\ PageInitDone =>
       \A t \in space.frames :
         /\ t # space.heap_lo /\ t < space.heap_hi
         /\ t > space.heap_lo => growths > 0
  /\ ~TablesPastInit =>
       /\ overwritten = {}
       /\ {HeaderPage(b) : b \in Blocks(index)} \intersect space.frames = {}
       /\ (space.heap_hi <= InitPages => ~\E b \in Blocks(index) : HeaderInHeap(b))

\* Nothing is marked free that the BIOS has not reported as normal memory: a block
\* starts in an entry of normal memory (or at the end of one), behind INIT_MEM, and ends
\* where the entry ends.
\* If the entry is not made of whole pages, the block may pass its end, and be in
\* memory of another kind, by less than a page.
FreeIsKnown ==
  \A b \in Blocks(index) :
    \E e \in Known :
      LET end == b + SizeOf(index, b) * PageSize IN
      /\ e.ok
      /\ e.base <= b /\ INIT_MEM <= b /\ b <= End(e)
      /\ end < End(e) + PageSize
      /\ Aligned(e) => end <= End(e)

\* What page_alloc finds is the best fit, while its answer is defined at all and
\* no block has a size that the array of lists has no list for.
SearchBestFit ==
  stage = "page_init_loop" /\ ~index.past_end =>
    \A size \in 1 .. 8 : FreeSearchDefined(index, size) => BestFit(index, size)

\* Normal memory from the first to the last of its whole pages.
InMemory(page, e) == e.ok /\ Page(e.base) <= page /\ page < Page(End(e))

\* The loader hangs only where its memory map ends: neither an extension of the heap
\* nor a page fault hangs at a page of known memory.  And a fault that nobody handles,
\* while page_init goes through the map, is behind INIT_MEM and not in an entry that
\* it has been through; where it is not a new page table's, it is the footer of a
\* block, and the entry it was marking is not made of whole pages.
HangsOutsideKnown ==
  /\ stage = "hung" =>
       space.stuck >= InitPages /\ ~\E e \in Known : InMemory(space.stuck, e)
  /\ stage = "fault" =>
       /\ space.stuck >= InitPages
       /\ ~\E i \in 1 .. next - 1 : InMemory(space.stuck, e820[i])
       /\ space.unmapped \/ ~Aligned(e820[next - 1])

(* The older kernel, as long as it goes where its code says. *)

\* The controllers whose registers it has mapped, as pages.
LapicDone   == stage \in {"k_ioapic", "k_ahci", "k_idle"} /\ lapics # <<>>
IoapicsDone == IF stage = "k_ioapic" THEN 1 .. at - 1
               ELSE IF stage \in {"k_ahci", "k_idle"} THEN DOMAIN ioapics ELSE {}

ApicPages ==
  (IF LapicDone THEN {fw.lapic} ELSE {}) \union {ioapics[i].page : i \in IoapicsDone}

\* The stray store of page_set_pml_entry hits no page but the one it is about: every
\* other page is found at itself or not at all, also the first IO APIC.  A page it
\* hits is found at one of its own page tables.
StraysStayApart ==
  \A page \in 0 .. Fan^4 - 1 :
    Translate(space, page) \notin {page, Absent} =>
      /\ page \in {fw.lapic} \union {ioapics[i].page : i \in DOMAIN ioapics \ {1}}
      /\ \E level \in 1 .. 3 : Translate(space, page) = TableFor(space, page, level)

\* No register of an interrupt controller is reached through the cache.
RegistersUncached ==
  \A page \in ApicPages :
    <<TableFor(space, page, 1), PmlIdx(page, 1)>> \in space.uncached

\* The page tables the kernel adds are behind its bit set, in pages of their own.
TablesBehindBits ==
  \A t \in space.frames :
    t < Page(KTablesEnd) \/ BitsEnd(Page(total)) <= t * PageSize

\* The lists are those of the enabled processors and of the IO APICs in the table,
\* in its order and complete, when the loop ends as it should.
ApicsListed ==
  LapicDone =>
    /\ lapics = SelectSeq(Madt.apics, LAMBDA e : e.type = "lapic" /\ e.enabled)
    /\ ioapics = SelectSeq(Madt.apics, LAMBDA e : e.type = "ioapic")

\* The kernel keeps the map of its memory and of the firmware's tables while it
\* sets up the machine.  It hangs only when its page tables run past INIT_MEM, and
\* resets the machine only where the number of frames, taken for an address, comes
\* near the page tables, or where a frame that is marked has its bit past INIT_MEM.
KernelUp ==
  /\ stage \in Live =>
       StraysStayApart /\ RegistersUncached /\ TablesBehindBits /\ ApicsListed
  /\ stage = "k_hung" => Page(space.placement) >= InitPages
  /\ stage = "k_reset" =>
       \/ 9 * Page(total) > 8 * PADDR_LOC
       \/ \E e \in Known : ~e.ok /\ FrameWord(End(e) - PageSize) >= INIT_MEM
=============================================================================
