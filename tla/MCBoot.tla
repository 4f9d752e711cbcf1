------------------------------- MODULE MCBoot -------------------------------
(* Boot for TLC. *)
EXTENDS Boot

\* Entries of memory maps, in half pages.
E(base, length, ok) ==
  [base |-> 16 * base, length |-> 16 * length, ok |-> ok, reserved |-> ~ok]
AcpiData(base, length) == [E(base, length, FALSE) EXCEPT !.reserved = FALSE]
P(bbp, start, end, far) == [bbp |-> bbp, start |-> start, end |-> end, far |-> far]
None == P(FALSE, 0, 0, FALSE)

\* A usual partition, one too large to copy whole, one of one sector, one whose size
\* is negative to jle, one out of reach, and none among the first four.
MCTables ==
  {<<P(TRUE, 10, 13, FALSE), None, None, None>>,
   <<None, P(TRUE, 10, 17, FALSE), None, None>>,
   <<None, None, None, P(TRUE, 10, 10, FALSE)>>,
   <<P(TRUE, 10, 60, FALSE), None, None, None>>,
   <<P(TRUE, 10, 13, TRUE), None, None, None>>,
   <<None, None, None, None, P(TRUE, 10, 13, FALSE)>>}

\* INIT_MEM is 24 half pages.
Low == E(0, 4, TRUE)
MCMaps ==
  {{Low, E(4, 36, TRUE)},                     \* little memory
   {Low, E(4, 44, TRUE), E(64, 4, FALSE)},    \* page tables end at INIT_MEM
   {Low, E(4, 52, TRUE), E(64, 4, FALSE)},    \* page tables go past INIT_MEM
   {Low, E(4, 44, TRUE), E(48, 32, TRUE)},    \* by the upper of two entries
   {Low, E(4, 24, TRUE), E(28, 4, FALSE), E(32, 2, TRUE), E(40, 2, TRUE)},
   {Low, E(4, 28, TRUE), E(34, 10, TRUE), E(46, 8, TRUE), E(56, 2, TRUE)},
   {Low, E(4, 22, TRUE), E(28, 2, TRUE), E(32, 2, TRUE), AcpiData(36, 4)},
   {Low, E(4, 27, TRUE), E(32, 7, TRUE)},     \* not made of whole pages
   {Low, E(4, 27, TRUE), E(33, 5, TRUE)},     \* and a footer in a page of no entry
   {Low, E(4, 20, TRUE), E(28, 20, TRUE)},    \* the heap starts in a hole
   {Low, E(4, 20, TRUE), E(32, 24, TRUE)},    \* that no page table is there for
   \* for the kernel: memory reserved far up, and as much memory as puts the call
   \* that clears the bit set on the first entry of the top table
   {Low, E(4, 36, TRUE), E(2200, 4, FALSE)},
   {Low, E(4, 20, TRUE), AcpiData(120, 8)}}

\* The memory map; the kernel and its stack.
MCOwnUnits == 23 .. 24 \union 38 .. 45

Rsdp(old, sum20, sum36, rsdt, xsdt) ==
  [old |-> old, sum20 |-> sum20, sum36 |-> sum36, rsdt |-> rsdt, xsdt |-> xsdt]
Table(sig, sum, len) ==
  [sig |-> sig, sum |-> sum, length |-> len, apics |-> <<>>, body |-> 0]
Apics(list, body) == [Table("APIC", TRUE, 12) EXCEPT !.apics = list, !.body = body]
Lapic(enabled)  == [type |-> "lapic", enabled |-> enabled, bytes |-> 2, page |-> 0]
Ioapic(page)    == [type |-> "ioapic", enabled |-> TRUE, bytes |-> 3, page |-> page]
Override(bytes) == [type |-> "iso", enabled |-> TRUE, bytes |-> bytes, page |-> 0]
Hba(page, implemented, attached) ==
  [page |-> page, implemented |-> implemented, attached |-> attached]

\* Everything in page 1, which is mapped; the local APIC in page 200.
Plain(apics, body) ==
  [rsdps  |-> <<Rsdp(TRUE, TRUE, FALSE, 32, 0)>>,
   roots  |-> (32 :> <<44, 52>>),
   tables |-> (44 :> Table("FACP", TRUE, 8)) @@ (52 :> Apics(apics, body)),
   facp   |-> TRUE, lapic |-> 200, hbas |-> <<Hba(203, {0, 1, 15}, {0, 1, 2, 30})>>]

\* Tables in other pages than the root, the first MADT broken, one of two pages.
Spread ==
  [rsdps  |-> <<Rsdp(TRUE, FALSE, TRUE, 1, 1), Rsdp(FALSE, FALSE, TRUE, 1, 6400)>>,
   roots  |-> (6400 :> <<6440, 6464, 6500>>),
   tables |-> (6440 :> Table("FACP", TRUE, 40)) @@ (6464 :> Table("APIC", FALSE, 12))
              @@ (6500 :> Apics(<<Lapic(TRUE), Ioapic(202), Ioapic(203)>>, 8)),
   facp   |-> FALSE, lapic |-> 201, hbas |-> <<>>]

MCFirmwares ==
  {Plain(<<Lapic(TRUE), Lapic(FALSE), Ioapic(201), Ioapic(202), Override(1)>>, 11),
   Plain(<<Lapic(TRUE), Ioapic(201), Ioapic(202), Ioapic(203)>>, 11),
   Plain(<<Lapic(TRUE), Ioapic(140)>>, 5),          \* out of reach of one table
   Plain(<<Override(0), Lapic(TRUE)>>, 2),          \* no end
   Plain(<<Lapic(TRUE), Override(3)>>, 4),          \* the end is missed
   Plain([i \in 1 .. 4 |-> Lapic(TRUE)], 8),        \* too many
   Spread,
   [Spread EXCEPT !.tables[6464].sum = TRUE, !.tables[6464].body = 2,
                  !.tables[6464].apics = <<Lapic(TRUE)>>],
   [Plain(<<>>, 0) EXCEPT !.tables[44].sum = FALSE],   \* no FADT
   [Plain(<<>>, 0) EXCEPT !.tables[52].sum = FALSE],   \* no MADT
   [Plain(<<>>, 0) EXCEPT !.rsdps = <<>>]}
=============================================================================
