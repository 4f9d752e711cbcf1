----------------------------- MODULE Discovery -----------------------------
(***************************************************************************)
(* What main64 does once interrupts are enabled: enumerate PCI, find the   *)
(* drives, read their partition tables; and reads of a program that uses   *)
(* the driver afterwards.                                                  *)
(***************************************************************************)
EXTENDS Gpt

CONSTANTS ReadLbas, ReadLengths,  \* what the program reads
          ReadsMax                \* bound: how often

ASSUME ProgramReads == ReadLbas \subseteq Nat /\ ReadLengths \subseteq Nat

VARIABLE reads

vars == <<pciVars, ataVars, gptVars, reads>>

Init == PciBoot /\ AtaBoot /\ GptBoot /\ reads = 0

Main ==
  \/ PciStep /\ UNCHANGED <<ataVars, gptVars, reads>>
  \/ AtaStep /\ UNCHANGED <<gptVars, reads>>
  \/ GptStep /\ UNCHANGED reads

ProgramRead ==
  /\ gpt = "done" /\ apc = "ready"
  /\ reads < ReadsMax /\ reads' = reads + 1
  /\ \E idx \in 1 .. Len(devs), lba \in ReadLbas, len \in ReadLengths :
       Request(idx, lba, len)
  /\ UNCHANGED gptVars

ProgramAnswered ==
  /\ gpt = "done" /\ apc = "answered" /\ apc' = "ready"
  /\ req' = NoReq
  /\ UNCHANGED <<pciVars, chans, devs, probe, drive, history, gptVars, reads>>

DriveStep(d) == DriveAnswer(d) /\ UNCHANGED <<gptVars, reads>>

Next ==
  Main \/ ProgramRead \/ ProgramAnswered \/ \E d \in AllDrives : DriveStep(d)

Spec ==
  /\ Init /\ [][Next]_vars
  /\ WF_vars(Main)
  /\ \A d \in AllDrives : WF_vars(DriveStep(d))

-----------------------------------------------------------------------------
(* Properties *)

Cached == {i \in 0 .. CacheWrap - 1 : cache[i] # NoEntry}

\* The scan finds the functions of the buses it reaches, but for one kind: the first
\* function of a device with several is not found, and neither is a bus that only such
\* a function leads to (Reached).  If there is one way to each bus, each of the others is
\* found once.  The block of the cache is left and the stack overflows only if there
\* are more functions than the cache has room for or buses further away than the stack
\* has, or if there are several ways to a bus (a way back never ends).
CacheExact ==
  LET there == {a \in Functions : a[1] \in Reached}
      ended == pci \in {"found", "none"}
  IN /\ \A i \in Cached : cache[i] \in there /\ ~Skipped(cache[i])
     /\ ended => \A a \in there : Skipped(a) \/ \E i \in Cached : cache[i] = a
     /\ ended /\ Tree =>
          \A a \in there : ~Skipped(a) => Cardinality({i \in Cached : cache[i] = a}) = 1
     /\ pci = "overflow" => ~(Tree /\ Near)
     /\ pci = "damaged" /\ Tree => Cardinality({a \in there : ~Skipped(a)}) > CacheRoom

\* With one controller each drive that answers IDENTIFY or IDENTIFY PACKET has
\* one entry, in the order of channels and units, and the entry says which of the two
\* it is.  With several, the drives of the first have several entries (and only then
\* more than the tables of the GPT reader have room for), and a packet device that still
\* gives the data of the first look may be taken for an ATA drive by the second.
\* What an entry says comes from the drive unless it is a packet device, which is not
\* waited for.
DrivesExact ==
  apc \in {"ready", "read", "answered"} =>
    /\ {DriveOf(i) : i \in DOMAIN devs} =
         {d \in DOMAIN machine.drives :
            d[1] = GetDevice("ide", 0) /\ Drive(d).kind # "other"}
    /\ NumDevice("ide") = 1 => \A i, j \in DOMAIN devs : i < j =>
         LET a == DriveOf(i) b == DriveOf(j)
         IN a[2] < b[2] \/ (a[2] = b[2] /\ a[3] < b[3])
    /\ \A i \in DOMAIN devs :
         /\ devs[i].atapi => Drive(DriveOf(i)).kind = "atapi"
         /\ NumDevice("ide") = 1 => devs[i].atapi = (Drive(DriveOf(i)).kind = "atapi")
         /\ devs[i].ident \/ devs[i].atapi
    /\ "tables" \in past => NumDevice("ide") > 1

\* The sectors of a read can be named.
Nameable(e, lba, len) == lba + len <= Lbas(e)

\* What ata_read calls a success is one: the buffer holds the units that were asked for,
\* in order, if the drive took the command, the LBA can be named and sectors are not
\* taken for longer than they are.  A failure has a cause: the drive reported one or was
\* too slow for the driver's patience, the count did not fit its register, or the drive
\* did not take the command.  The last happens only to drives that a call left in the
\* middle of a command: it gave up waiting for one, asked for no sector, took too
\* little of each, or did not wait for the identification of a packet device.
ReadRight ==
  LET e == devs[req.idx]
      d == DriveOf(req.idx)
  IN /\ apc = "answered" /\ past = {} =>
          /\ req.ok /\ req.taken /\ e.ident /\ e.size <= Drive(d).sector
               /\ Nameable(e, req.lba, req.len) =>
               Buffer = [k \in 1 .. req.len |->
                           <<d, req.lba + (k - 1) \div Drive(d).sector, (k - 1) % Drive(d).sector>>]
          /\ ~req.ok => \/ req.cause \in {"err", "fault", "slow"}
                        \/ req.cause = "idle" /\ CountSent(e, req.sectors) # req.sectors
                        \/ req.cause = "idle" /\ ~req.taken
     /\ ignored \subseteq behind

\* The slots of a disk's array that are not empty.
UsedSlots(on) == {k \in 1 .. on.count : on.slots[k] # 0}

\* If partitions of a drive are in memory, they are those on its disk, slot by slot, the
\* disk has the protective entry and the signature, and as many are counted as are not
\* empty: if the drive took every command, the array can be named and sectors are not
\* taken for longer than they are.  Of them the first that is not empty is at index 0,
\* and none at any other index, though main64 asks for as many as are counted.
GptMatchesDisk ==
  gpt = "done" =>
    \A i \in DOMAIN devs :
      LET on == DiskOf(i) IN
      parts[i] # <<>> /\ DriveOf(i) \notin ignored /\ devs[i].size <= Drive(DriveOf(i)).sector
        /\ Nameable(devs[i], on.array, ArrayUnits(on.count)) =>
          /\ on.mbr /\ on.sign
          /\ parts[i] = SubSeq(on.slots, 1, on.count)
          /\ count[i] = Cardinality(UsedSlots(on))
          /\ count[i] > 0 => PartEntry(i, 0) = Min(UsedSlots(on))
          /\ \A p \in 1 .. count[i] : PartEntry(i, p) = 0

\* The loader comes through, or ends where memory is overwritten (CacheExact says when)
\* or missing, or waits for the answer to IDENTIFY of a drive that never gives one: that
\* wait, of all, has no limit.
DiscoveryEnds ==
  <>(\/ pci \in {"none", "overflow", "damaged"}
     \/ apc \in {"failed", "no_memory"}
     \/ gpt \in {"done", "damaged"}
     \/ apc = "identify" /\ ~Drive(Probed).healthy)
=============================================================================
