-------------------------------- MODULE Gpt --------------------------------
(***************************************************************************)
(* The GPT reader (gpt.c): the protective entry, the header and the array  *)
(* of partitions of each drive, read through ata_read.                     *)
(*                                                                         *)
(* A disk has mbr (a protective entry), sign (the header's signature),     *)
(* array (the LBA of the partitions), count (how many entries the header   *)
(* says there are) and slots, what is in the array by 128 bytes: 0 for an  *)
(* empty entry.  Larger entries fill several slots.                        *)
(***************************************************************************)
EXTENDS Ata

CONSTANTS
  DiskSlots,  \* room of _gpt_disks, _gpt_part and _part_count: 4
  PartRoom,   \* room of the block for the partitions of a drive: 128
  PerUnit     \* slots in 512 bytes: 4

ASSUME GptConstants ==
  /\ DiskSlots \in Nat /\ DiskSlots >= 4
  /\ PartRoom \in Nat /\ PerUnit \in Nat \ {0}

\* An entry has 128 bytes at least.
ASSUME DisksOfMachines ==
  \A m \in Machines : \A d \in DOMAIN m.drives : LET on == m.drives[d].disk IN
    /\ on.mbr \in BOOLEAN /\ on.sign \in BOOLEAN
    /\ on.array \in Nat /\ on.count \in Nat
    /\ on.slots \in Seq(Nat) /\ on.count <= Len(on.slots)

VARIABLES
  gpt,    \* where the reader is: "off", "next", what gpt_init_drive reads ("mbr",
          \* "header", "array"), "done", or "damaged": something else was overwritten
  disk,   \* the drive it is at
  parts,  \* _gpt_part: per drive the slots in memory
  count,  \* _part_count
  past    \* what has been written to behind its end

gptVars == <<gpt, disk, parts, count, past>>

GptBoot ==
  gpt = "off" /\ disk = 0 /\ parts = <<>> /\ count = <<>> /\ past = {}

Unknown == -1   \* a slot of memory that did not come from the array

\* The disk behind an entry of _ata_dev.
DiskOf(idx) == Drive(DriveOf(idx)).disk

\* gpt_init: storage for each drive, also for those behind the end of the tables, where
\* it overwrites other tables.  What happens then is not modelled.
GptInit ==
  /\ gpt = "off" /\ apc = "ready"
  /\ gpt' = IF Len(devs) > DiskSlots THEN "damaged" ELSE "next"
  /\ disk' = 1
  /\ parts' = [i \in 1 .. Len(devs) |-> <<>>]
  /\ count' = [i \in 1 .. Len(devs) |-> 0]
  /\ past' = IF Len(devs) > DiskSlots THEN {"tables"} ELSE {}
  /\ UNCHANGED <<pciVars, ataVars>>

GptFrame == UNCHANGED <<disk, parts, count, past>>

ReadMbr ==
  /\ gpt = "next" /\ disk <= Len(devs)
  /\ apc = "ready" /\ Request(disk, 0, 1)
  /\ gpt' = "mbr" /\ GptFrame

\* After each read ata_read's answer decides whether there is a next.
Answered(step) == gpt = step /\ apc = "answered"

\* The drive is no GPT drive.
GiveUp ==
  /\ gpt' = "next" /\ disk' = disk + 1
  /\ apc' = "ready"
  /\ req' = NoReq
  /\ UNCHANGED <<pciVars, chans, devs, probe, drive, history, parts, count, past>>

\* Whether what was read has a protective entry: what is not the first unit of the disk
\* may look as if it had.
Protective ==
  IF Buffer[1] = <<DriveOf(disk), 0, 0>> THEN {DiskOf(disk).mbr} ELSE BOOLEAN

MbrRead ==
  /\ Answered("mbr")
  /\ \E protective \in Protective :
       IF req.ok /\ protective
       THEN gpt' = "header" /\ GptFrame /\ Request(disk, 1, 1)
       ELSE GiveUp

\* Whether what was read has the signature: nothing else a drive may give looks like
\* the header that is in sector 1.
Signed == Buffer[1] = <<DriveOf(disk), 1, 0>> /\ DiskOf(disk).sign

ArrayUnits(n) == (n + PerUnit - 1) \div PerUnit

\* Mutant of ArrayLba: the place that the array usually has.
ArrayLbaFixed(head) == 2

\* Where the header says that the array is.
ArrayLba(head) == head.array

\* The array is read as entries of 128 bytes, however many the header says; as many as
\* it says are written into memory, read or not.
HeaderRead ==
  /\ Answered("header")
  /\ LET head == DiskOf(disk) IN
     IF req.ok /\ Signed
     THEN /\ gpt' = "array"
          /\ Request(disk, ArrayLba(head), ArrayUnits(head.count))
          /\ past' = IF head.count > PartRoom THEN past \union {"parts"} ELSE past
          /\ UNCHANGED <<disk, parts, count>>
     ELSE GiveUp

\* What slot k of the memory holds after the read.
SlotRead(k) ==
  LET u == Buffer[(k - 1) \div PerUnit + 1]
      on == Drive(u[1])
      at == ((u[2] - on.disk.array) * on.sector + u[3]) * PerUnit + ((k - 1) % PerUnit) + 1
  IN IF u = Garbage \/ at \notin DOMAIN on.disk.slots THEN Unknown ELSE on.disk.slots[at]

NonEmpty(slots) == {k \in DOMAIN slots : slots[k] # 0}

\* An entry that did not come from the array may look empty or not.  What happens after
\* more was written than there is room for is not modelled.
ArrayRead ==
  /\ Answered("array")
  /\ IF req.ok /\ past = {}
     THEN /\ \E junk \in {0, Unknown} :
               parts' = [parts EXCEPT ![disk] =
                          [k \in 1 .. DiskOf(disk).count |->
                             IF SlotRead(k) = Unknown THEN junk ELSE SlotRead(k)]]
          /\ count' = [count EXCEPT ![disk] = @ + Cardinality(NonEmpty(parts'[disk]))]
     ELSE UNCHANGED <<parts, count>>
  /\ gpt' = IF past = {} THEN "next" ELSE "damaged"
  /\ disk' = disk + 1 /\ apc' = "ready"
  /\ req' = NoReq
  /\ UNCHANGED <<pciVars, chans, devs, probe, drive, history, past>>

GptDone ==
  /\ gpt = "next" /\ disk > Len(devs)
  /\ gpt' = "done"
  /\ UNCHANGED <<pciVars, ataVars, disk, parts, count, past>>

\* gpt_part_entry: the counter starts again at each entry, so that it is 0 at the
\* first entry that is not empty and at all others.
PartEntry(idx, part) ==
  IF part < count[idx] /\ part = 0 /\ NonEmpty(parts[idx]) # {}
  THEN CHOOSE k \in NonEmpty(parts[idx]) : \A j \in NonEmpty(parts[idx]) : k <= j
  ELSE 0

GptStep == GptInit \/ ReadMbr \/ MbrRead \/ HeaderRead \/ ArrayRead \/ GptDone
=============================================================================
