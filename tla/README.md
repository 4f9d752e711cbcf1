# DAWOS: specification and proofs

DAWOS is a hobby operating system for x86-64 PCs. What its build rules produce
is a BIOS boot chain: a master boot record, a 16-bit and a 32-bit stage, and a
64-bit *loader* (`src/boot/bios/bbp/loader`) that sets up interrupts, paging, a
kernel heap and a timer, then scans PCI, ATA disks and GPT partitions and stops
in a loop. The directories `kernel/`, `drivers/` and `lib/` hold older code that
no rule compiles. Paths below are relative to the repository's root; `loader/`
stands for `src/boot/bios/bbp/loader/`.

## 1. Inventory

| Part | State | Operations | Interacts with | What makes it correct | Hard because |
|---|---|---|---|---|---|
| Kernel heap (`heap.c`) | blocks with header and footer; `start_addr`, `end_addr`, `max_addr`; the lock flag; `free[]` | `heap_create`, `heap_alloc`, `heap_realloc`, `heap_free`, `heap_alloc_size` | `page_alloc` for growth; called through `memory.c` by everything | allocations disjoint, long enough, aligned; memory an exact row of merged blocks; nothing lost | long sequences of calls, sizes at boundaries, pointers kept inside free memory |
| Memory manager (`memory.c`) | `_heap`, `_placement_addr` | `mem_alloc*`, `mem_realloc`, `mem_free*` | heap, paging | placed memory and the heap never overlap | order of initialisation |
| Paging (`paging.c`) | page tables, lists and tree of free pages, E820 map | `page_init`, `page_map`, `page_alloc`, `page_fault`, `page_resolve` | asks the memory manager for tables; asked by the heap | a granted page is mapped and granted once; a fault is resolved or reported | mutual recursion with the heap, under its lock |
| Interrupts, PIC (`interrupts.c`, `interrupts.asm`, `pic.c`) | IDT, handler tables, `_int_enabled` | register, enable, disable, the two wrappers | every driver registers a handler | each IRQ handled and acknowledged once | nesting, flags kept twice, spurious IRQs |
| Timer (`pit.c`, `sleep.c`) | `_ticks`, `_tick_update` | `pit_handler`, `pit_get_ticks`, `sleep` | IRQ 0; ATA sleeps between register accesses | sleep lasts, and ends | handler against caller |
| PCI (`pci.c`) | device cache | `pci_init`, lookups | ATA | every function found once | recursion over bridges, cache limits |
| ATA (`ata.c`) | channels, devices | `ata_init`, `ata_read` | PCI, timer, heap | a read returns the sectors asked for or fails | device answers late, with errors, or never |
| GPT (`gpt.c`) | headers, partition arrays, counts | `gpt_init_drive`, `gpt_part_entry` | ATA, heap | partition n is the n-th used entry | sizes taken from the disk |
| Boot stages (`mbr/main.asm`, `boot/*`) | placement address, E820 array, first page tables | `read_e820`, 32-bit `mem_alloc`, `setup_pages` | hand over to the loader | complete memory map, no overlap | BIOS conventions |
| Debug output (`debug_print.c`) | cursor, one static buffer | `debug_clear`, `debug_print` | everything, also handlers | a text appears whole and on the screen | handlers print into the same buffer |
| Library (`lib.c`) | none | copying, filling, formatting | all | results of single calls | - |
| AHCI driver (`kernel/bus/ahci.c`) | `_ahci_dev`, command lists of the ports | `ahci_init`, `ahci_read`, `ahci_id` | PCI, the adapter | TRUE means read; tables stay while the adapter may read them; calls return | adapter answers late or never, slots given up |
| Older kernel (`kernel/kmain.c`, `memory`, `cpu`, `arch`, `drivers/storage`) | page tables with cache bits, `_page_offset`, `_rsdp`, `_lapic`, `_ioapic`, `_ahci_dev` | `page_init`, `page_map*`, `page_set_pml_entry`, `acpi_init`, `apic_init`, `ahci_init` | takes over the page tables of the 32-bit stage | registers of devices are reached uncached, memory keeps its map, lists are those of the firmware | faults cured in the middle of table walks, tables of the firmware anywhere |

One CPU runs the loader. The only concurrency is between the main program and
interrupt handlers; of these only the page fault handler can come back to the
heap. Disks and adapters work on their own, beside the CPU. Nothing is persisted,
so crashes need no model. `PROJECT.json` lists the
hazards line by line with the properties that cover them, or what is missing.

## 2. What is modelled

**`Allocator`** is the abstract specification: the set `live` of allocations
(pointer, bytes, alignment). `Alloc` adds one that lies inside the memory, is
aligned if asked and shares no frame with another; `Free` removes exactly one;
`Resize` changes the size of one in place.

**`Heap`** is `heap.c` at the level of blocks. `blocks` is what a walk over the
headers meets; `end_addr` is `heap->end_addr`; `live` is what callers hold.
Addresses and sizes are counted in frames of 16 bytes, requests in bytes.

| Action | Code |
|---|---|
| `Init` | `heap_create`: one free block |
| `HeapAllocFound` | `heap_alloc` when `heap_search` finds a block: cut at the page boundary, split, insert the parts |
| `HeapAllocExtended` | `heap_alloc` through `heap_extend`: fresh pages, merged with the last free block, then cut the same way |
| `HeapAllocFaults` | `heap_extend` when `page_alloc` needs a page table and calls the allocator again, which finds the lock taken; or when the footer of the new block lies in a page that was not mapped |
| `HeapFree` | `heap_free`: merge left, merge right, insert |
| `HeapReallocInPlace`, `HeapReallocMoves` | the two branches of `heap_realloc` |
| `IndexGoesWild` | any call that follows a stale link of the index (decided in `HeapIndex`) |

A call is one action: nothing interrupts it that touches the heap, except the
page fault handler, whose nested call never returns and is therefore an outcome
of the action. `page_alloc` is taken as it acts in the code: it may grant the
pages, refuse (`heap_alloc` returns 0, nothing changes), or nest. Callers only
pass pointers they hold; `heap_free(0)` and `heap_alloc(0)` change nothing.

A call that never returns sets `spin` to the function that waits; a write
outside a free block sets `damage`. `Ready` is "neither". Past that point the
bytes of the heap are no longer blocks, so nothing is modelled and most
properties speak of states where `Ready` holds. What leads there is not hidden:
the "violation" runs below exhibit each case.

Details kept because properties depend on them: sizes subtracted as `uint64`
wrap (`Minus`); a block of two frames has its list links over its own footer, so
no merge recognises it (`Mergeable`); `heap_realloc` rounds down and
`heap_alloc` up; an aligned cut is not checked against the block it cuts; the
index of a block of exactly `HEAP_LIST_MAX` bytes is one past the end.

**`HeapIndex`** extends `Heap` with `heap->free[]` and the links stored in free
blocks, and translates `heap_search`, `heap_insert`, `heap_remove` and the tree
functions pointer by pointer. A list item keeps its links in the words where a
tree node keeps its neighbours, so one record stands for both, and blocks of
`HEAP_LIST_MAX - 16` bytes share a slot with the tree's root as in the code.
Words a list item does not write hold whatever was there: 0, or something that
is no address of a free block (`rest`). Each action is a `Heap` action with the
block the search returns, or `IndexGoesWild` at the first access through a link
that does not lead to another free block and back (`Led`), or through a root that
is no free block of its slot (`Rooted`). The loops are steps that `Walk` takes
until one stays where it is; a walk longer than the index has blocks goes round and
counts as lost. **`HeapIndex_proofs`** has the theorems about it.

**`Interrupts`** (`interrupts.c`, `interrupts.asm`, `pic.c`) has the interrupt
flag of the CPU, the copy the program keeps of it (`_int_enabled`), the three
registers of both interrupt controllers, the handler table and the stack of
frames. A frame records the line, the step its stub has reached and the flag to
restore. **`Console`** is `debug_print` as its four writes to shared state: fill
the static buffer, write the digits, move the cursor, put the character. A
print from `irq_wrapper` is one step, because nothing interrupts a handler, and
may fall between any two of the main program's. **`Timer`** composes the two
with `pit.c`, `sleep.c` and the order of `main64`: one action per statement of
the main program that touches what a handler touches, one per step of a stub
and its handler, a `Clock` that raises line 0 once a period and a `Device` that
raises the other lines and may take a request back (a spurious interrupt).
**`TickClock`** is the abstract specification: ticks counted one at a time, a
sleeper that wakes no earlier than its deadline. **`Timer_proofs`** and
**`Ticks_proofs`** have the theorems about them.

**`BootRecord`** is `mbr/main.asm` from the test of the machine to the jump into
the partition it has copied, one action per label; BIOS calls may fail. The
counter of the copy loop, the LBA and the segment register keep their widths
(`Word`, `Dword`, `Segments`), the limit is compared signed, and a packet whose
address has wrapped writes over what lies below `BOOT_LOC` (place `wild`).
**`Boot_proofs`** has the theorem about it, and two about memory.
**`FreePages`** is the index of free pages of `paging.c`, lists and tree, block
by block. **`Paging`** is memory from `read_e820` to the running heap: `Main16`
and `ReadE820` (entries in any order), `Main32` with `setup_pages`, `Start64`,
then `page_init` in three actions per entry (count, map a page, mark free),
`InitHeap`, and after that `HeapExtend` (`page_alloc` under the heap's lock) and
`PageFault`. Page tables are real: `space.tables` holds every entry,
`Translate` is the walk of the CPU, new tables come from the placement address
and must be mapped to be written. A free block lies where `page_create_block`
puts it: its header at the base of the entry, on a page or not, its size rounded
up, its footer in the last page of that size, which may be in no entry and not
mapped. Headers and tables share memory, and each can be written over the other:
a header or footer over a table, a new table, which is cleared, over a header.
The ghost variable `overwritten` notes those pages. With a heap, a table is the
first page of an extension of two pages that is merged with the free block the
heap ends with (the heap is taken to have no free aligned page inside it); if that
block is in use, the cut falls outside of the extension. `InitHeap` may find that
the placement address has grown into a hole of the memory map; if a table is
there for it, the first store maps the page. Three ends of the loader are told
apart: `fault` is an instruction that faults for ever before there is a handler,
`hung` a fault or a wait without end after that, and at `wild` the loader has
overwritten what it goes by, or goes by what nobody has written: nothing is
said of what it does then. **`KernelPaging`** and **`Acpi`** are the older kernel
behind the same 32-bit stage: `KPageInit`, `PageMap`, `PageMapMmio`,
`PageSetPmlEntry` and the page fault handler on the same tables, then `kmain`
one action per call or round of a loop: find the root pointer, map and search
the tables, list the interrupt controllers of the MADT, map their registers,
look at the ports of SATA controllers. Its interrupt stubs save no registers,
so a step in which a fault was cured, or an interrupt taken, may also lead to
`k_wild`, after which nothing is modelled. Its `page_init` clears memory at the
address that is the number of frames: there may be page tables (`ClearsTables`),
nothing that is mapped, or the kernel itself, its stack and the memory map
(`OwnUnits`, `ClearsItself`, `k_wild`). **`Boot`** composes all of this:
`Mbr`, `Handover`, `Stages`, then `Loader` or `Kernel`.

**`Pci`** is the recursive scan with its stack explicit: a frame is the set of
functions of a bus that are still to be looked at, taken in the order of the
loops (`First`), and `Hosts` are the buses `pci_init` starts from. Beside it
stands a definition of what there is to find that does not use the scan's own
filter (`Looked`): `Functions`, by what the headers of the machine say, and which
of them the scan leaves out, by name: `Skipped`, the first function of a device
with several. `Reached`, `Tree` and `Near` are about the buses that the host buses
(`Hosts`, as `pci_init` takes them) lead to over the bridges that are not skipped:
buses that only a skipped bridge or an untried host bus leads to count as out of
reach. The entry behind the block of the cache is the last the model has
(`damaged`). **`Ata`** finds and
reads drives, which are processes of their own: a drive that has taken a
command answers at any time, with data or an error, or never. `ata_read` writes
its command without a look at BSY or DRQ, so a drive in the middle of another may
take it, and drop what it was doing, or not, and go on with that (`Takes`); the
history variables `behind` and `ignored` note the drives that were left in the
middle of a command, and those that have not heeded one. Registers and
sectors are abstract; what matters is kept, the width of the count, the bits of
an address that are not written (24 to 27 without LBA48, 48 to 63 with it:
`Lbas`), the data of a command that was given up. Where `mem_alloc` has no room for
what is read, the driver writes to address 0 and the model stops (`no_memory`). `_ide_chan_count` and
`_ata_dev_count` are bytes in the code and lengths of sequences here; the two
agree while the cache holds fewer than 64 IDE controllers, and what is said of
drives is said of such machines. **`Gpt`** reads tables of partitions through it and decides by
what is in the buffer, from whichever sector that came (`Protective`, `Signed`:
nothing but the header itself looks like one); more drives than its tables hold,
or more entries than the block has room for, end in `damaged`. **`Discovery`** composes the three in the order of `main64`, followed by a
program that reads. **`Discovery_proofs`** has the theorems.

**`Ahci`** is the driver of the older kernel: `ahci_init` port by port, then
calls of `ahci_read` and `ahci_id`. Each loop that waits counts its rounds, each
look at a register is an action, and the adapter fetches and completes commands
in any order in between; it works on what a call has left behind when it gave
up. The numbers in a command are exact for the calls of `CallsInRange`, and
others are not modelled: the driver checks none of them, a length of 0 wraps,
addresses are cut to 48 bits, and each entry of the table takes a byte more than
it should (`dbc` holds the length, not the length less one), which shifts what
follows the first entry and reaches a byte or two past the buffer. **`Ahci_proofs`** has the theorems.

**`Heap_proofs`** holds the theorems about the heap. **`Iteration`** models
nothing: it has the facts about division, the least number of a set, induction
and functions applied again and again that several proofs cite. The modules **`MC...`** give
the constants for TLC. Operators whose comment begins with "Mutant of" are
deliberately wrong variants; no specification uses them. Each shows that some
property notices that bug.

## 3. What the runs show

| Run | Checks | Result |
|---|---|---|
| `heap` | `TypeOK`, `Tiling`, `Coalesced`, `LiveBacked`, `UsedIsLive`, `LostOnlyAtBoundary`, `WholeWhenAllFreed`, `OthersKeepTheirBlock`, `Promised` (refinement of `Allocator`) | hold |
| `heap_index` | `IndexTypeOK`, `ListsExact`, `ListsBestFit`, `TreeBestFit`, `HeapSpec` (refinement of `Heap`) | hold |
| `timer` | `HandlersDoNotNest`, `ServiceMatchesHandler`, `FlagsAgree`, `TicksKept`, `SleepLasts`, `TextIntact`, `ImplementsTickClock` (refinement of `TickClock`), and the liveness properties `SleepReturns`, `RequestsServed` | hold |
| `boot` | `PartitionLoaded`, `KnownIsMapped`, `TablesReachable`, `OwnersApart`, `FreeIsKnown`, `SearchBestFit`, `HangsOutsideKnown`, `KernelUp` | hold |
| `discovery` | `CacheExact`, `DrivesExact`, `ReadRight`, `GptMatchesDisk`, and the liveness property `DiscoveryEnds` | hold |
| `ahci` | `DevicesExact`, `TrueMeansRead`, the action property `TablesStable`, and the liveness property `CallsReturn` | hold |
| `heap_past_max` | `StaysBelowMax` | violated: `heap_extend` never reads `max_addr` |
| `heap_realloc_hangs` | `ReallocReturns` | violated: `heap_realloc` waits for the lock it holds |
| `heap_list_past_end` | `LargestListed` | violated: a free block of exactly `HEAP_LIST_MAX` is put past the end of `free[]` |
| `heap_cut_outside` | `CutsInside` | violated: `block_size - left_size` wraps in the aligned searches |
| `index_child_orphan` | `ChildHasNoNeighbours` | violated: a promoted child keeps `parent_block` |
| `index_tree_lost` | `TreeComplete` | violated: a list and the tree's root share a slot |

Several properties hold only with exceptions, and these are the point: they say
exactly when the code fails. `ServiceMatchesHandler` and `RequestsServed`: until
a spurious request of the slave has been answered. `SleepLasts`: one period less
than asked for. `TablesReachable`, `OwnersApart`: as long as page tables fit
below `INIT_MEM` and there is memory behind it. `HangsOutsideKnown`: the loader
hangs where its memory map ends, and faults where a page table or the footer of a
block lies behind `INIT_MEM` in a page not mapped yet. `FreeIsKnown`: a block may
pass the end of an entry that is not made of whole pages. `CacheExact`: the first
function of a device with several is not found, nor what only it leads to, and
buses with two ways to them are found twice or without end. `ReadRight`: a drive
that was left in the middle of a command may not heed the next one, and the read
then succeeds with other data; and some addresses cannot be named by the registers.
`GptMatchesDisk`: index 0 finds the first partition, no other index finds any,
although `gpt.h:120-126` promises the entry of each index and `main64.c:103-106`
asks for all of them. `DiscoveryEnds`: the wait for the answer to IDENTIFY has no
limit.
`TrueMeansRead`: a call that gives up is answered TRUE. `KernelUp`: pages whose
entry `page_set_pml_entry` overwrites lead to their own page tables.

All violation runs use the pointer-level index, so their counterexamples are
sequences of calls the code really takes. Each property quotes the comment of
the source it comes from.

**Bounds.** Pages of 8 frames (256 in the code), three pages of memory, one
frame for `heap_t` (34), lists for sizes up to 5 frames (66). Requests of 16, 64
and 112 bytes make blocks of 3, 6 and 9 frames: the least block, one that
belongs in the tree, and more than a page. So every kind of slot occurs (the
list of pieces that are lost, an ordinary list, the list that shares the root's
slot, the size past the end, the tree), splits leave a rest below, at and above
the least size, aligned requests meet blocks on, before and without a boundary,
the heap grows by one and by two pages with and without a free block at its end,
and up to seven blocks are free or used in any order. `MaxAddr` is two pages.
`Word` stands for 2^60 frames; it only has to be larger than any sum. Both runs
reach their whole state space with no bound on the number of calls. `MemTop` is
a bound of the model: `page_alloc` takes nothing out of its free lists, so the
code would grant pages at any `end_addr`; the proofs need only that the memory
ends somewhere below the word size.

*Timer.* Lines 0 and 14: one of the master, and one of the slave behind the
cascade that may be withdrawn. A screen of one character and texts of two and
three make every character scroll. A period is four moments and the main program
moves at least once a moment, so that an interrupt can come between any two of
its steps. `Times` 0 and 2 give the shortest sleep and one of several ticks; one
job (a sleep or a print) and two requests are enough for a request to arrive,
be withdrawn, and arrive again in the middle of it. `PIT_COUNTER` is the code's.

*Boot.* `PageSize` 32 units, `Fan` 4 entries per table (512 in the code), 12
pages below `INIT_MEM`, 66 pages of memory: page tables of three levels get full,
a fourth is reached, and tables end before, at and past `INIT_MEM`. Thirteen memory
maps, every order of their entries and calls of the BIOS that fail at any of them;
six partition tables (usual, too large to copy whole, of one sector, of a size that
is negative, out of reach, none). `TRANSF_MAX` 6, three
segments of four sectors, `Word` 16 and `Dword` 64 keep the relation of a maximum
that is no multiple of a segment to a counter that can wrap, to the memory it
then runs through, and to an LBA that is negative as the code compares it. The heap grows, and pages fault, four times in all (`GrowthsMax`),
which takes it past `INIT_MEM` and past the end of the memory. Among the maps are
entries not made of whole pages, a footer in a page of no entry, tables that meet
headers, and a heap that begins in a hole. The kernel gets
eleven sets of firmware tables: valid and broken checksums, both revisions,
tables in the first page and in pages that must be mapped, MADTs with up to
three controllers, too many processors, an entry of length zero, a length that
the entries do not add up to. `FrameDivisor` 31 stands to 32 as 4069 to 4096; maps
put the memory that is cleared on `OwnUnits` and on a table.

*Discovery.* Fifteen machines: drives of every kind on one controller,
functions behind bridges, a bridge that leads back, devices of several functions
whose first is a controller or a bridge, several controllers, more functions than
`CacheRoom`. `CacheWrap` 7, `LowLbas` 6, `HighLbas` 7, `CountWrap` 3 and `PartRoom` 4
put each limit of the code just below what the machines have and the program
reads. One read after the discovery is enough to find
what an interrupted command left, since the probes and the GPT reads come
before it.

*AHCI.* Three machines of one or two adapters with four ports, in every state
the firmware may leave a port in; three calls over two buffers, so that a call
may use the buffer, the slot or the port of one that gave up; the driver gives
up after two looks (1000000 in the code). Lengths of less than a block and of more
than two, of which the first entry takes what the drive sends, and addresses within
`HighLbas` 8. `TablesStable` and `TrueMeansRead` are
proved for all values.

In all of these runs the main program or the bound on calls comes to an end, or
the machine hangs or resets: deadlock checking is off because the system may
really stop there. That it stops nowhere else is what the liveness properties
and `HangsOutsideKnown`, `KernelUp` say.

**Fairness.** The heap and the boot are safety only: a call that hangs is a state
(`spin`, `hung`), not a missing step. `Timer` assumes weak fairness of `Main`
(the CPU executes instructions), `Handler` (also when an interrupt is due) and
`Clock` (the oscillator does not stop); other devices need not do anything.
`Discovery` assumes it of `Main` and of each drive's answer, and only healthy
drives have an answer to give; `DiscoveryEnds` says that the loader ends or waits
for the answer to IDENTIFY of a drive that is not healthy, and for nothing else. `Ahci` assumes it of the driver alone: its loops
are limited, so calls return from adapters that never answer.

## 4. What is proved

`Heap_proofs` proves for every page size, list limit, memory size and set of
requests that satisfy `HeapNumbers` and `HeapShape` (sizes are naturals; the
least listed block is one frame more than header and footer, fits a page, and
is shorter than the longest listed one; the heap starts with a block longer than
that; memory ends below the word size):

* `HeapInvariant`: `Spec => []HeapInv`, from which `TypeCorrect`, `HeapTiled`,
  `HeapCoalesced`, `PointersBacked`, `NothingUsedIsLost`, `LossesAtBoundaries`
  and `FreeingRestores` follow, one for each invariant of the run `heap`;
* `BlocksKept`: the action property `OthersKeepTheirBlock`;
* `HeapImplementsAllocator`: `Spec => Promised`, the refinement of `Allocator`.

`HeapInv` is the conjunction of the invariants and of
`StartAddr < end_addr <= MemTop`. No conjunct is inductive alone. A merge stays
inside the row only if blocks tile the memory (`LeftNeighbour`,
`RightNeighbour`); the block a caller frees is the caller's only if held
pointers are unique; a cut leaves no two free neighbours only if there were none
before. `Replace` is the heart: exchanging some blocks for others that make up
the same frames (or prolong the end) keeps the row exact. `Pieces` shows that
the cut of `heap_alloc` is such an exchange, `FreeInv` that `heap_free` is, and
`PlaceInv` serves both ways of allocating. `CapacityEnough` is the arithmetic
that saves `heap_realloc`: rounding down is harmless because the comparison is
strict. `LiveApart` turns the invariant into what `Allocator` asks.

`Timer_proofs` proves, for all sets of lines, withdrawable lines, frequencies,
periods, texts and bounds that satisfy the modules' assumptions:

* `NoNesting`: `Spec => []HandlersDoNotNest`, and `FlagsStayInStep`:
  `Spec => []FlagsAgree`. Both rest on `FlagInv`: at most one frame; while it
  exists the flag is clear and the frame will set it again; otherwise flag and
  copy agree, and are clear exactly during the boot and inside `pit_get_ticks`.
  Neither half is inductive alone: the stubs' `sti` is harmless only because
  an interrupt was taken with the copy set.
* `ServiceStaysInStep`: `Spec => []ServiceMatchesHandler`, from `ServiceInv`: what
  is in service is what the only frame holds plus the cascade once a spurious
  request was answered, and then no line of the slave is ever taken again
  (`FreeToInterrupt`), so that the lowest line in service is the right one to end.
* `TimerIsTickClock`: `Spec => ImplementsTickClock`, with `TickInv` (a tick read
  is not in the future, a sleep is at least one tick: `TickCountPositive`).

`Ahci_proofs` proves for every machine, any calls in range (`CallsInRange`) and any
patience:

* `TablesStayStable` from `TypeInv`: a slot in use is never given out.
* `ListIsExact`: `Spec => []DevicesExact`, from `ListInv`, which says the same of
  the ports seen so far.
* `TrueReads`: `Spec => []TrueMeansRead`. `ReadInv` follows a command from its
  table over the port to the buffer: while its bit is set the table is the
  call's, once it is clear the data is in the buffer, unless the command was
  lost, given up, or the buffer is shared with a call given up before.

`HeapIndex_proofs`, under the same assumptions and `HeapAboveNull` (the heap does not
begin at address 0, which is the null pointer of the links):

* `IndexInvariant`: `IndexSpec => []IndexInv`, from which `IndexTypeCorrect`,
  `IndexListsExact`, `IndexListsBestFit` and `IndexTreeBestFit` follow, and
* `IndexImplementsHeap`: `IndexSpec => HeapSpec`, so that every theorem of
  `Heap_proofs` holds of `heap.c` with its real index.

`IndexInv` says that `HeapInv` holds and that the index holds exactly the free
blocks (`Holds`) and is `Sound`: its links are typed (`Shape`); every list below
the root's slot is an exact row (`RowsExact`); an item of a list has no child and
a node's child is of its size (`ChildrenBelow`); neighbours that lead to each other
are in the order of their sizes, strictly outside the lists (`Sorted`); and the
slot that the list of `ListMax - 1` frames shares with the root leads to a free
block, behind which the items of that list are one row (`RootRow`). Why each part is
needed: `Shape` makes a stale link visible, `RowsExact` is the property itself,
`Sorted` makes a search that moves to a larger or smaller node stay among the
blocks that are long enough and never come back to where it was, `ChildrenBelow`
does that for the chains of children, `RootRow` keeps the root from going stale
when a list item is removed from its slot. So the root itself is never stale
(`Rooted` always holds): what goes stale are links between nodes. Of the tree no
more is inductive: the list that shares its slot takes it apart, and `TreeComplete`
is violated. `HeapInv` is needed because a block that is inserted must not
be in the index yet, which is known from blocks being apart. `InsertSound` and
`RemoveSound` say that heap_insert and heap_remove add or remove exactly their block,
unless they meet a stale link; below them there is one lemma for each place
a node can go to or come from. `WalkStays` is the induction over the steps of a walk,
`SearchFinds` what it gives for a search, `PlaceHolds` the second half of heap_alloc.

`IndexTreeBestFit` has the condition of `TreeBestFit`, that the tree is whole, as its
hypothesis. `WalkEnds` shows that both walks of heap_tree_search end (a walk that
never comes to one node from two, nor back to its start, runs out of places). For
what they pass by, `Onward` gives the least set of nodes reached over one
link: if the first walk ends at nothing, what is not reached backwards from the nodes
that fit is closed and has the root in it, so it is all (`NoneFits`); otherwise
the nodes from the one found on and those below its smaller neighbour have the
root between them, so they are the whole row (`BestFits`).

`Ticks_proofs` extends `Timer_proofs` to time:

* `TicksStayKept`: `Spec => []TicksKept`. `PeriodInv` bounds how late a request
  of line 0 can be taken: while it waits, the moments that have passed of the
  period and the steps the main program still does with interrupts off fit in
  what is left (`StepsLeft`), so it is taken before the next one is raised. This
  needs `PeriodIsLong`: `PeriodLength >= 4`. Three is too short, because between
  `pit_init` and `interrupt_enable` the main program does three steps with
  interrupts off and the tick of the first would be lost. The code's period is a
  millisecond (`PIT_COUNTER`), thousands of instructions.
* `SleepStaysLong`: `Spec => []SleepLasts`, from `SleepInv`: the time since
  `pit_init`, less the time slept, is at most one period more than the first tick
  that `sleep` read.
* `TextStaysIntact`, for every screen of at least one character and all texts:
  `Spec => []TextIntact`. `ConsoleInv` says that unless a handler has printed, what
  is on the screen is the text as far as the loop has gone through the buffer
  (`ShownInv`), and where the cursor can be at each step, whoever printed
  (`CursorInv`): on the screen where a character is put, up to two rows below it in
  between. `After`, the cursor after a handler's n characters, is a recursive
  function; `AfterOnScreen` unfolds it through `IteratesExist`. The assumption
  `Texts` says that the texts are not empty.

`Boot_proofs`, for every disk, word, segment and limit (`BootConstants`: a counter
is wider than the memory and an LBA wider than twice the counter; `FourEntries`:
a sector of the array holds four entries):

* `PartitionStaysLoaded`: `Spec => []PartitionLoaded`. `CopyInv` makes the counter,
  the packet's address, its LBA and the sectors in memory tell the same number
  of passes; `PassesRange` and `CounterFalls` are the arithmetic of a counter that
  is decremented before it is tested.
* `FreeStaysKnown`: `Spec => []FreeIsKnown`, and `OwnersStayApart`:
  `Spec => []OwnersApart`, for every set of memory maps (`MapsOfMachines`: bases and
  lengths are naturals), sizes of page and table (`PagingConstants`), requests and
  faults (`ProgramAsks`). Both rest on `LoadInv`: before there is a heap all page
  tables lie below the placement address, which ends on a page
  (`TablesBelow`, kept by `IdMapPlaces` and set up by `SetupPlaces`); afterwards new
  ones come from the end of the heap, never under its lock (`TablesAndHeap`,
  `IdMapGrows`); a free block comes from an entry of the map (`BlockInEntry`), which
  sorting moves but does not change (`PassTyped`, `SortTyped`), and an insertion into
  lists or tree changes no other block (`FreeInsertAdds`); and a page where a table
  and the header or footer of a block meet is behind `INIT_MEM` (`OverwrittenInv`).
  `RoundedUp` is the arithmetic of `BlockInEntry`: a block out of an entry made of
  whole pages ends with it, another one less than a page behind it.
  `CreateBlockLoad` is the step that matters most. After `fault` and `wild` nothing
  changes any more (`Ended`), so the invariant says there what was true before.

`Discovery_proofs`, for every machine. The assumptions say what a machine is, not
what the driver does with it: finitely many functions with addresses (`BusesOfMachines`),
drives on functions of the machine whose sectors, as the driver takes them and as
they are, divide each other because both are powers of two (`DrivesOfMachines`),
arrays as long as their headers say (`DisksOfMachines`), a cache block shorter
than its counter counts (`CacheRoom < CacheWrap`, 170 and 256), room for four drives
(`GptConstants`).

* `ScanFindsAll`: `Spec => []CacheExact`. `ScanInv`: frame k is of a bus k - 1 bridges
  away, and in a tree of no nearer one (`FramesInv`); nothing of a bus the scan
  has come to is neither cached nor waiting (`CoverInv`); in a tree nothing is
  both, nothing twice (`OnceInv`). That the buses it came to are all there are
  is an induction over bridges (`ScanComplete`); that in a tree the block of the
  cache is left only with more functions than it has room for is the pigeonhole
  lemma `AtMost`. `LookedFunctions` and `BridgesLooked` are the comparison with the
  oracle: what the loops look at on a bus are the functions that are there but for
  the skipped ones.
* `ListsDrives`: `Spec => []DrivesExact`, from `ProbeInv` (what a drive shows while
  it is probed), `EntriesInv` (entries are true) and `FoundInv` (which drives have
  one so far, in which order). `FreshInv`: with one controller, a drive that has not
  been probed yet is idle, so it takes the command; with several, the probe may meet
  one that is still busy with the last, which is why the property says less of them.
* `ReadsAreRight`: `Spec => []ReadRight`, from `ReadInv`: the units taken so far are
  those the request names, and the drive goes on with the next one, whatever an
  earlier command left it with, if it took this one; a failure has its cause.
  `UnitsTaken` joins what one sector gives to what is there, over the sizes of
  sectors. `BehindInv`: a drive is idle or has failed unless it was left in the middle
  of a command or is the one in use, so no other one can ignore a command.
* `PartitionsMatch`: `Spec => []GptMatchesDisk`, from `GptInv` over `ReadInv`: the
  drives before the one at hand have their tables or none, the ones behind it have
  none, and the read that has been answered is the one its stage asked for. What is
  known of a disk depends on whether its drive has taken every command (`Heeded`):
  `BufferRight` says what is in the buffer then, `ProtectiveTrue` what the first stage
  concludes, `SlotTrue` what each slot holds.

Induction over data is done with sets: `Iteration` derives from the well-foundedness
of the naturals that a set with 0 and with each successor has all of them
(`InductionOverNat`), hence that iterates of a function exist (`IteratesExist`), and
each recursive function of a property is unfolded through it.

Only model-checked:

* `KnownIsMapped`, `TablesReachable`, `HangsOutsideKnown`, `KernelUp`: their
  invariants are about what every entry of every page table holds, not only
  about where the tables are; the induction over the levels of the tables is not
  done. `SearchBestFit` is an induction over the tree of free blocks. `KernelSpace`
  is built with `@@`, which the prover takes for an unknown operator.
* Liveness (`SleepReturns`, `RequestsServed`, `DiscoveryEnds`, `CallsReturn`): the
  prover has no reasoning about fairness and ENABLED.

## 5. What the models show beyond the runs

Observed while modelling, and written into the properties as exceptions:

* `mbr/main.asm` leaves out the last sector of a partition and copies a word of
  sectors when the difference is zero.
* `page_alloc` never takes a block out of the free index; `page_resolve` calls a
  page of an existing table resolved, so its fault repeats for ever.
* `irq_wrapper` sends no end of interrupt to the master for a spurious IRQ 15.
* A sleep of one tick may take no time; `ata_poll` counts on it for its delay.
* `ata_init` asks for controller 0 in every round; function 0 of a device with
  several functions is not enumerated; packet devices are not waited for; a
  read is commanded whatever the drive is doing, and goes on at address 0 when there
  is no memory for it.
* `gpt_part_entry` starts to count anew at each entry.
* `page_create_block` rounds sizes up, so that a free block may pass the end of its
  entry, and its footer fault before there is a handler. Page tables and the headers
  of free blocks are placed over one another.
* `ahci_read` answers TRUE when it has given up, and counts in blocks of 4 KB
  where the device counts sectors. The driver under `drivers/` skips every other
  port and pairs bits with the wrong ports.
* The older kernel: `mem_fill` in `page_init` clears memory at the address that
  is the number of frames, which are page tables with nearly 4 GB of memory and
  unmapped above about 7 GB, and with about 112 to 128 MB the kernel's own code and
  stack; 4069 is written for 4096; regions reserved far up
  have their bits past the mapped memory. `page_set_pml_entry` overwrites the
  page's entry, so the local APIC ends at one of its page tables, and so may
  every IO APIC but the first (`ioapic_init` passes `i` for the level). `acpi_map`
  maps the pointers to tables instead of the tables, which then fault one by one.
  The loop over the MADT does not end on a zero length and misses an end that
  is not exact. No handler saves registers or ends its interrupt.

## 6. Plan

1. `Allocator`, `Heap`, `HeapIndex`, `Heap_proofs` - done.
2. `Timer` with `Interrupts`, `Console`, `TickClock`, `Timer_proofs` - done.
3. `BootRecord`, `FreePages`, `Paging`, `Boot` - done; the older kernel behind it,
   `KernelPaging` and `Acpi` - done.
4. `Pci`, `Ata`, `Gpt`, `Discovery` - done.
5. `Ahci`, `Ahci_proofs` - done.
6. `Ticks_proofs`, `Boot_proofs`, `Discovery_proofs`, `Iteration` - done.
7. `HeapIndex` without recursive operators, `HeapIndex_proofs` - done.
8. What further work would begin with: `TablesReachable` and `KnownIsMapped` as theorems
   (identity mapping never yields a wrong translation), `SearchBestFit` over
   `FreePages`.

## 7. Not modelled

Text formatting and memory copies (`lib.c`) are functions of their arguments.
Real-mode set-up, mode switches and the GDTs are hardware set-up; the stages that
contain them are single steps. Exceptions other than page faults print and halt.
Functions without a caller or without effect: `page_map` and `page_map_mmio` of
the loader, `page_release`, `page_free*` beyond insertion and search, `ata_write`,
`ahci_write`, the drivers' `ahci_read`, `page_clear_frame`, `page_check_frame`,
`pic_disable`, and everything that only lists or prints. The contents of the bit
set of frames, which nothing reads: only where its words lie matters.
`kernel/memory/heap.c` is a copy of `kernel/memory/paging.c`. `drivers/bus/pci.c`
and `drivers/video/text.c` are older copies of what `Pci` and `Console` model; the
result of that scan is an input of `Acpi`. Build scripts, IDE projects and virtual
machine configurations are not program code. Lists of 64 and more IDE controllers,
which the byte-wide counters of `ata.c` could not count, are outside `Ata`. Of the AHCI driver, calls outside
`CallsInRange` and lengths that are not whole sectors. After memory is damaged, or a
register is lost, the models stop: they say that it happens, not what follows. These
ends are `damage` and `spin` of the heap, `wild` of memory, `k_wild` of the older
kernel, `overflow` and `damaged` of the PCI scan, `no_memory` of the ATA driver,
`damaged` of the GPT reader.
