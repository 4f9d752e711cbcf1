-------------------------------- MODULE Acpi --------------------------------
(***************************************************************************)
(* The older kernel (kmain.c) from its memory manager on: it reads the     *)
(* tables of the firmware (arch/acpi.c), lists the interrupt controllers   *)
(* they name and maps their registers (cpu/apic.c), and looks for drives   *)
(* (drivers/storage/ahci.c).                                               *)
(*                                                                         *)
(* Firmware is a record:                                                   *)
(*   rsdps   what has the signature below 1 MiB, in ascending order:       *)
(*           [old, sum20, sum36, rsdt, xsdt], the sums being whether the   *)
(*           first 20 and all 36 bytes add up to zero                      *)
(*   roots   the addresses of tables, by the address of the RSDT or XSDT   *)
(*   tables  [sig, sum, length, apics, body] by address; apics and body    *)
(*           are the entries of the MADT and the bytes it says they have   *)
(*   facp    whether the FADT asks for the command that enables ACPI       *)
(*   lapic   the page in the base register of the local APIC               *)
(*   hbas    SATA controllers: [page, implemented, attached]               *)
(***************************************************************************)
EXTENDS KernelPaging

CONSTANTS
  Firmwares,
  HeaderBytes,             \* sizeof(SDTHeader_t)
  Pointer32, Pointer64,    \* bytes of an entry of the RSDT and of the XSDT
  ApicRoom                 \* entries of _lapic and of _ioapic

VARIABLES
  fw,         \* the firmware
  rsdp,       \* _rsdp, by its place in fw.rsdps: 0 is null
  at,         \* the entry a loop looks at, counted from 1
  unread,     \* the bytes of the MADT that are left
  lapics, ioapics,  \* _lapic and _ioapic: entries of the MADT
  acpi_on,    \* the command that enables ACPI has been sent
  drives,     \* _ahci_dev: [hba, port]
  in_service  \* an interrupt has been taken, and never acknowledged

acpiVars == <<fw, rsdp, at, unread, lapics, ioapics, acpi_on, drives, in_service>>

NoFirmware == [rsdps |-> <<>>, hbas |-> <<>>]

AcpiInit ==
  /\ fw = NoFirmware
  /\ rsdp = 0 /\ at = 1 /\ unread = 0
  /\ lapics = <<>> /\ ioapics = <<>> /\ drives = <<>>
  /\ acpi_on = FALSE /\ in_service = FALSE

\* The kernel goes on with a space, at another place.  A page fault on the way may
\* have been cured, but the stubs of the handlers save no register: what the kernel
\* was about to use may be gone.
Go(sp, to) ==
  /\ space' = [sp EXCEPT !.faulted = FALSE]
  /\ stage' \in IF Hung(sp) THEN {"k_hung"}
                ELSE IF sp.faulted THEN {to, "k_wild"} ELSE {to}

pagingRest == <<left, e820, loopVars, index, total, available, growths, overwritten>>

\* interrupt_init.  The PIC is told to let all interrupts through.
InterruptInit ==
  /\ stage = "k_interrupts" /\ stage' = "k_find"
  /\ fw' \in Firmwares
  /\ UNCHANGED <<space, rsdp, at, unread, lapics, ioapics, acpi_on, drives, in_service>>

Live == {"k_find", "k_map", "k_facp", "k_madt", "k_apics", "k_lapic", "k_ioapic",
         "k_ahci", "k_idle"}

\* irq_handler sends no end of interrupt: the one that is taken is the last of its
\* priority, and the stub loses registers.  The loop at the end of kmain uses none.
IrqHandler ==
  /\ stage \in Live /\ ~in_service /\ in_service' = TRUE
  /\ stage' \in IF stage = "k_idle" THEN {stage} ELSE {stage, "k_wild"}
  /\ UNCHANGED <<space, fw, rsdp, at, unread, lapics, ioapics, acpi_on, drives>>

-----------------------------------------------------------------------------
(* Tables *)

\* acpi_checksum of a root pointer covers the bytes of its revision.
RsdpValid(r) == IF r.old THEN r.sum20 ELSE r.sum36

RootOf(r) == IF r.old THEN r.rsdt ELSE r.xsdt

\* acpi_find: the first that is valid.
AcpiFind ==
  /\ stage = "k_find"
  /\ LET good == {i \in DOMAIN fw.rsdps : RsdpValid(fw.rsdps[i])} IN
     IF good = {}
     THEN stage' = "k_idle" /\ UNCHANGED <<space, rsdp>>
     ELSE /\ rsdp' = Min(good)
          /\ Go(PageMapMmio(space, Page(RootOf(fw.rsdps[rsdp']))), "k_map")
  /\ UNCHANGED <<fw, at, unread, lapics, ioapics, acpi_on, drives, in_service>>

Root       == RootOf(fw.rsdps[rsdp])
Pointers   == fw.roots[Root]
PointerAt(i) ==
  Root + HeaderBytes + (i - 1) * IF fw.rsdps[rsdp].old THEN Pointer32 ELSE Pointer64

\* The pages acpi_map adds for a table of more than a page.  They are counted from
\* the pointer to the table, not from the table.
MorePages(i) ==
  LET len == fw.tables[Pointers[i]].length
  IN IF len <= PageSize THEN <<>>
     ELSE [k \in 1 .. Page(PointerAt(i) + len) - Page(PointerAt(i)) - 1 |->
             Page(PointerAt(i)) + k]

\* acpi_map, one round.  It maps the pointer and reads the table it points to.
AcpiMap ==
  /\ stage = "k_map"
  /\ IF at <= Len(Pointers)
     THEN /\ at' = at + 1
          /\ LET sp == Touch(PageMapMmio(space, Page(PointerAt(at))), Page(Pointers[at]))
             IN Go(FoldLeft(PageMapMmio, sp, MorePages(at)), "k_map")
     ELSE at' = 1 /\ stage' = "k_facp" /\ UNCHANGED space
  /\ UNCHANGED <<fw, rsdp, unread, lapics, ioapics, acpi_on, drives, in_service>>

\* acpi_table: the first table with a signature whose bytes add up to zero, at
\* address 0 if there is none.
Found(sig) ==
  {i \in DOMAIN Pointers : fw.tables[Pointers[i]].sig = sig /\ fw.tables[Pointers[i]].sum}

AcpiTable(sig) == IF Found(sig) = {} THEN 0 ELSE Pointers[Min(Found(sig))]

\* The pages it reads on the way: each pointer and header up to the table, and all
\* of a table that has the signature.
Visited(sig) ==
  LET last == IF Found(sig) = {} THEN Len(Pointers) ELSE Min(Found(sig))
      Visit(i) ==
        LET th == Pointers[i]
            end == IF fw.tables[th].sig = sig THEN th + fw.tables[th].length - 1 ELSE th
        IN <<Page(PointerAt(i))>> \o [k \in 1 .. Page(end) - Page(th) + 1 |-> Page(th) + k - 1]
  IN FlattenSeq([i \in 1 .. last |-> Visit(i)])

Search(sig) == FoldLeft(Touch, space, Visited(sig))

\* The rest of acpi_init.
AcpiEnable ==
  /\ stage = "k_facp"
  /\ Go(Search("FACP"), IF AcpiTable("FACP") = 0 THEN "k_idle" ELSE "k_madt")
  /\ acpi_on' = (AcpiTable("FACP") # 0 /\ fw.facp)
  /\ UNCHANGED <<fw, rsdp, at, unread, lapics, ioapics, drives, in_service>>

-----------------------------------------------------------------------------
(* Interrupt controllers *)

Madt == fw.tables[AcpiTable("APIC")]

\* apic_init up to its loop.
ApicInit ==
  /\ stage = "k_madt"
  /\ IF AcpiTable("APIC") = 0
     THEN Go(Search("APIC"), "k_ahci") /\ UNCHANGED unread
     ELSE Go(Search("APIC"), "k_apics") /\ unread' = Madt.body
  /\ UNCHANGED <<fw, rsdp, at, lapics, ioapics, acpi_on, drives, in_service>>

ApicListed(list, e, type) ==
  IF e.type = type /\ (type = "lapic" => e.enabled) THEN Append(list, e) ELSE list

\* The lists have room for so many entries, and nobody counts them.
Overflows(list, e, type) == Len(list) = ApicRoom /\ ApicListed(list, e, type) # list

\* One round of the loop of apic_init.  The number of bytes left is unsigned and
\* compared with zero: below zero it is as good as endless, and the kernel reads on
\* behind the table.  An entry without length is looked at again.
ApicEntry ==
  /\ stage = "k_apics" /\ unread # 0
  /\ LET e == Madt.apics[at]
         past == at > Len(Madt.apics)
     IN IF past \/ Overflows(lapics, e, "lapic") \/ Overflows(ioapics, e, "ioapic")
        THEN stage' = "k_wild" /\ UNCHANGED <<at, unread, lapics, ioapics>>
        ELSE /\ lapics' = ApicListed(lapics, e, "lapic")
             /\ ioapics' = ApicListed(ioapics, e, "ioapic")
             /\ unread' = unread - e.bytes
             /\ at' = IF e.bytes = 0 THEN at ELSE at + 1
             /\ stage' = stage
  /\ UNCHANGED <<space, fw, rsdp, acpi_on, drives, in_service>>

ApicEnd ==
  /\ stage = "k_apics" /\ unread = 0
  /\ stage' = "k_lapic" /\ at' = 1
  /\ UNCHANGED <<space, fw, rsdp, unread, lapics, ioapics, acpi_on, drives, in_service>>

\* lapic_init.  The address in the MADT has been replaced by that of the register.
LapicInit ==
  /\ stage = "k_lapic"
  /\ Go(FoldLeft(LAMBDA sp, level : DisableCache(sp, fw.lapic, level),
                 PageMapMmio(space, fw.lapic), <<0, 1, 2, 3>>),
        "k_ioapic")
  /\ UNCHANGED <<fw, rsdp, at, unread, lapics, ioapics, acpi_on, drives, in_service>>

\* ioapic_init, one round.  All four times it is the entry of the level that has the
\* number of the controller.
IoapicInit ==
  /\ stage = "k_ioapic"
  /\ IF at <= Len(ioapics)
     THEN /\ at' = at + 1
          /\ LET page == ioapics[at].page IN
             Go(DisableCache(PageMapMmio(space, page), page, at - 1), stage)
     ELSE at' = 1 /\ stage' = "k_ahci" /\ UNCHANGED space
  /\ UNCHANGED <<fw, rsdp, unread, lapics, ioapics, acpi_on, drives, in_service>>

-----------------------------------------------------------------------------
(* Drives *)

\* ahci_init_port.  Both the head of the loop and its body go on to the next port,
\* but the bits of the implemented ports are shifted once.
PortsLooked(hba) == {2 * bit : bit \in {b \in 0 .. 15 : b \in hba.implemented}}

\* ahci_get_type knows any device that is there and awake.
PortsListed(hba) == PortsLooked(hba) \intersect hba.attached

\* sizeof(ahci_port_t), and where the ports start in ahci_hba_t.
PortBytes  == 128
PortsStart == 256

\* The page of 4096 bytes that has the registers of a port.
PortPage(hba, port) == hba.page + (PortsStart + PortBytes * port) \div 4096

\* ahci_init, one controller.
AhciInit ==
  /\ stage = "k_ahci"
  /\ IF at <= Len(fw.hbas)
     THEN LET hba == fw.hbas[at]
              Look(sp, port) == Touch(sp, PortPage(hba, port))
          IN /\ at' = at + 1
             /\ Go(FoldLeft(Look, PageMapMmio(space, hba.page),
                            SetToSortSeq(PortsLooked(hba), <)), stage)
             /\ drives' = drives \o [i \in 1 .. Cardinality(PortsListed(hba)) |->
                            [hba |-> at, port |-> SetToSortSeq(PortsListed(hba), <)[i]]]
     ELSE at' = 1 /\ stage' = "k_idle" /\ UNCHANGED <<space, drives>>
  /\ UNCHANGED <<fw, rsdp, unread, lapics, ioapics, acpi_on, in_service>>

\* kmain from interrupt_init on.
KmainStep ==
  /\ \/ InterruptInit \/ AcpiFind \/ AcpiMap \/ AcpiEnable
     \/ ApicInit \/ ApicEntry \/ ApicEnd \/ LapicInit \/ IoapicInit \/ AhciInit
     \/ IrqHandler
  /\ UNCHANGED pagingRest
=============================================================================
