-------------------------------- MODULE Ata --------------------------------
(***************************************************************************)
(* The ATA driver (ata.c): finding the channels and the drives on them,    *)
(* and reading, by polling, against drives that answer when they like.     *)
(*                                                                         *)
(* A drive is named by where it is: the PCI function of its controller,    *)
(* its channel and its unit, <<addr, channel, unit>>.  Data is counted in  *)
(* units of 512 bytes: unit <<d, lba, n>> is the n-th of sector lba of d.  *)
(*                                                                         *)
(* A drive that is in the middle of a command when it is given another may *)
(* heed it or not: ata_read looks at neither BSY nor DRQ before it writes  *)
(* the command.  The history variables behind and ignored tell which       *)
(* drives that can happen to and to which it did.                          *)
(*                                                                         *)
(* Limit of the model: _ide_chan_count and _ata_dev_count are bytes, and   *)
(* here they are the lengths of chans and devs.  The two agree as long as  *)
(* the cache holds fewer than 64 IDE controllers (4 drives for each).      *)
(***************************************************************************)
EXTENDS Pci

CONSTANTS
  AllDrives,  \* every place of a drive in some machine
  LowLbas,    \* sectors that the three LBA registers can name: 2^24
  HighLbas,   \* sectors that they and the three written before can name: 2^48
  CountWrap   \* values of the sector count register: 256

\* A drive: kind is "ata", "atapi" or "other" (it answers IDENTIFY with an error
\* and an unknown signature); lba48; sector, the units of its sectors; size, the
\* units the driver takes them for (512 * (2 << n) for a large sector); healthy:
\* it does answer; and what is on it (see Gpt).

ASSUME AtaConstants ==
  LowLbas \in Nat \ {0} /\ HighLbas \in Nat \ {0} /\ CountWrap \in Nat \ {0}

\* Sizes of sectors are powers of two, so that the smaller of two divides the larger.
ASSUME DrivesOfMachines ==
  \A m \in Machines :
    /\ DOMAIN m.drives \subseteq AllDrives
    /\ DOMAIN m.drives \subseteq (DOMAIN m.pci) \X {0, 1} \X {0, 1}
    /\ \A d \in DOMAIN m.drives : LET v == m.drives[d] IN
         /\ v.kind \in {"ata", "atapi", "other"} /\ v.lba48 \in BOOLEAN
         /\ v.sector \in Nat \ {0} /\ v.size \in Nat \ {0}
         /\ v.size <= v.sector => v.sector % v.size = 0

VARIABLES
  chans,   \* _ide_chan: the controller and channel that each entry addresses
  devs,    \* _ata_dev
  apc,     \* where the driver is; "no_memory": it has no room for what it reads
  probe,   \* channel and unit that ata_init_dev looks at
  drive,   \* what the drives do
  req,     \* the call of ata_read: its arguments, whether the drive heeds it, what
           \* it has read, its result
  behind,  \* drives that were once left in the middle of a command
  ignored  \* drives that did once not heed a command

history == <<behind, ignored>>
ataVars == <<chans, devs, apc, probe, drive, req, history>>

Garbage == <<>>   \* a unit of memory that nothing was read into

Exists(d) == d \in DOMAIN machine.drives
Drive(d)  == machine.drives[d]

Idle == [st |-> "idle", what |-> "none", lba |-> 0, left |-> 0, off |-> 0]
NoReq == [idx |-> 0, lba |-> 0, len |-> 0, sectors |-> 0, taken |-> FALSE, done |-> 0,
          got |-> <<>>, ok |-> FALSE, cause |-> "none"]

AtaBoot ==
  /\ chans = <<>> /\ devs = <<>> /\ apc = "off" /\ probe = <<0, 0>>
  /\ drive = [d \in AllDrives |-> Idle]
  /\ req = NoReq
  /\ behind = {} /\ ignored = {}

-----------------------------------------------------------------------------
(* Drives *)

\* Whether a drive takes a command: one that is busy or has data to give may not.
Takes(d) == IF drive[d].st \in {"idle", "err", "fault"} THEN {TRUE} ELSE BOOLEAN

\* The drives after d was given a command, which it takes or not.
Commanded(d, taken, what, lba, left) ==
  /\ drive' = IF taken
              THEN [drive EXCEPT ![d] = [st |-> "busy", what |-> what, lba |-> lba,
                                         left |-> left, off |-> 0]]
              ELSE drive
  /\ ignored' = IF taken THEN ignored ELSE ignored \union {d}

Answers(d) ==
  LET kind == Drive(d).kind IN
  CASE drive[d].what = "identify" -> IF kind = "ata" THEN {"drq"} ELSE {"err"}
    [] drive[d].what = "packet"   -> {"drq"}
    [] drive[d].what = "read"     -> IF kind = "ata" THEN {"drq", "slow", "err", "fault"}
                                     ELSE {"err"}

\* BSY falls; "slow" is a drive that asserts DRQ later.
DriveAnswer(d) ==
  /\ Exists(d) /\ Drive(d).healthy
  /\ \/ drive[d].st = "busy" /\ \E st \in Answers(d) : drive' = [drive EXCEPT ![d].st = st]
     \/ drive[d].st = "slow" /\ drive' = [drive EXCEPT ![d].st = "drq"]
  /\ UNCHANGED <<pciVars, chans, devs, apc, probe, req, history>>

\* What n units read from the data port are; identification data is no sector.
Taken(d, n) ==
  [k \in 1 .. n |->
     IF drive[d].st = "drq" /\ drive[d].what = "read" /\ drive[d].off + k <= Drive(d).sector
     THEN <<d, drive[d].lba, drive[d].off + k - 1>> ELSE Garbage]

\* The sector ends when its units are taken, the command with its last sector.
AfterTaking(d, n) ==
  LET s == drive[d] IN
  IF s.st # "drq" THEN s
  ELSE IF s.off + n < Drive(d).sector THEN [s EXCEPT !.off = @ + n]
  ELSE IF s.left > 1
  THEN [s EXCEPT !.st = "busy", !.lba = @ + 1, !.left = @ - 1, !.off = 0]
  ELSE Idle

-----------------------------------------------------------------------------
(* ata_init *)

\* For each controller in the cache the first is asked for: index 0.
ControllerFor(i) == GetDevice("ide", 0)

AtaInit ==
  /\ apc = "off" /\ pci = "found"
  /\ chans' = [c \in 1 .. 2 * NumDevice("ide") |->
                 <<ControllerFor((c - 1) \div 2), (c - 1) % 2>>]
  /\ apc' = IF NumDevice("ide") > 0 THEN "select" ELSE "failed"
  /\ probe' = <<1, 0>>
  /\ UNCHANGED <<pciVars, devs, drive, req, history>>

Probed == <<chans[probe[1]][1], chans[probe[1]][2], probe[2]>>

\* The next unit, or the next channel, or the end of ata_init.
NextProbe(found) ==
  IF probe[2] = 0 THEN probe' = <<probe[1], 1>> /\ apc' = "select"
  ELSE IF probe[1] < Len(chans) THEN probe' = <<probe[1] + 1, 0>> /\ apc' = "select"
  ELSE probe' = <<0, 0>> /\ apc' = IF found # <<>> THEN "ready" ELSE "failed"

\* Select, IDENTIFY, and the first look at the status: 0 is no drive.
ProbeSelect ==
  /\ apc = "select"
  /\ IF Exists(Probed)
     THEN /\ \E taken \in Takes(Probed) : Commanded(Probed, taken, "identify", 0, 1)
          /\ apc' = "identify" /\ UNCHANGED probe
     ELSE NextProbe(devs) /\ UNCHANGED <<drive, ignored>>
  /\ UNCHANGED <<pciVars, chans, devs, req, behind>>

\* Mutant of IdentifyFailed: the loop waits for DRQ alone.
IdentifyFailedNever(st) == FALSE

\* The wait for the answer to IDENTIFY ends at ERR ...
IdentifyFailed(st) == st = "err"

\* ... and then the signature tells a packet device from an unknown one.
ProbeError ==
  /\ apc = "identify" /\ IdentifyFailed(drive[Probed].st)
  /\ IF Drive(Probed).kind = "atapi"
     THEN /\ Commanded(Probed, TRUE, "packet", 0, 1)
          /\ apc' = "packet" /\ UNCHANGED probe
     ELSE NextProbe(devs) /\ UNCHANGED <<drive, ignored>>
  /\ UNCHANGED <<pciVars, chans, devs, req, behind>>

Entry(atapi, lba48, size, ident) ==
  [chan |-> probe[1], slave |-> probe[2], atapi |-> atapi, lba48 |-> lba48,
   size |-> size, ident |-> ident]

\* What the entry says of the drive comes from what the data port gave: of a drive
\* that is not ready, anything (of which one sector size is enough here).
Entries(atapi) ==
  IF drive[Probed].st = "drq"
  THEN {Entry(atapi, Drive(Probed).lba48, Drive(Probed).size, TRUE)}
  ELSE {Entry(atapi, lba48, 1, FALSE) : lba48 \in BOOLEAN}

\* Mutant of MayReadIdent: it does not wait for DRQ at all.
MayReadIdentAtOnce == apc = "packet" \/ (apc = "identify" /\ drive[Probed].st # "err")

\* After IDENTIFY the driver waits for DRQ, after IDENTIFY PACKET it does not.
MayReadIdent ==
  \/ apc = "identify" /\ drive[Probed].st = "drq"
  \/ apc = "packet"

ProbeIdent ==
  /\ MayReadIdent
  /\ \E e \in Entries(apc = "packet") : devs' = Append(devs, e)
  /\ IF drive[Probed].st = "drq"
     THEN drive' = [drive EXCEPT ![Probed] = Idle] /\ UNCHANGED behind
     ELSE behind' = behind \union {Probed} /\ UNCHANGED drive
  /\ NextProbe(devs')
  /\ UNCHANGED <<pciVars, chans, req, ignored>>

-----------------------------------------------------------------------------
(* ata_read *)

DriveOf(idx) == LET e == devs[idx] IN <<chans[e.chan][1], chans[e.chan][2], e.slave>>

\* Mutant of LbaSent: the high registers are never written.
LbaSentLow(e, lba) == lba % LowLbas

\* How many sectors the registers can name.  Without LBA48 bits 24 to 27, which belong
\* into the drive register, are not written.
Lbas(e) == IF e.lba48 THEN HighLbas ELSE LowLbas

\* The address that reaches the drive: what the registers hold of the 64 bits.
LbaSent(e, lba) == lba % Lbas(e)

\* The count that reaches the drive, 0 meaning the largest.
CountSent(e, sectors) ==
  LET wrap == IF e.lba48 THEN CountWrap * CountWrap ELSE CountWrap
  IN IF sectors % wrap = 0 THEN wrap ELSE sectors % wrap

\* The first part of ata_read, up to the command and the block that is to hold what is
\* read: to be combined with a step of the caller.  len is in units of 512 bytes.
\* If there is no such block the driver goes on with address 0: not modelled.
Request(idx, lba, len) ==
  LET e == devs[idx]
      sectors == (len + e.size - 1) \div e.size
  IN /\ \E taken \in Takes(DriveOf(idx)) :
          /\ req' = [NoReq EXCEPT !.idx = idx, !.lba = lba, !.len = len,
                                  !.sectors = sectors, !.taken = taken]
          /\ Commanded(DriveOf(idx), taken, "read", LbaSent(e, lba), CountSent(e, sectors))
     /\ apc' \in {"read", "no_memory"}
     /\ UNCHANGED <<pciVars, chans, devs, probe, behind>>

ReadFrame == UNCHANGED <<pciVars, chans, devs, probe, ignored>>

\* ata_poll found the drive ready: the sector is taken, as long as the driver
\* believes sectors to be.
ReadSector ==
  LET d == DriveOf(req.idx)
      n == devs[req.idx].size
  IN /\ apc = "read" /\ req.done < req.sectors
     /\ drive[d].st = "drq"
     /\ req' = [req EXCEPT !.done = @ + 1, !.got = @ \o Taken(d, n)]
     /\ drive' = [drive EXCEPT ![d] = AfterTaking(d, n)]
     /\ UNCHANGED <<apc, behind>> /\ ReadFrame

\* ata_poll: an error, a fault, or no DRQ in 10000 looks after BSY has fallen.
PollFails(st) == st \in {"err", "fault", "slow", "idle"}

ReadFails ==
  LET d == DriveOf(req.idx)
      st == drive[d].st
  IN /\ apc = "read" /\ req.done < req.sectors
     /\ PollFails(st)
     /\ req' = [req EXCEPT !.ok = FALSE, !.cause = st]
     /\ apc' = "answered"
     /\ behind' = IF st = "slow" THEN behind \union {d} ELSE behind
     /\ UNCHANGED drive /\ ReadFrame

\* Of 0 sectors the drive was asked for the most there can be, and of sectors that are
\* taken for shorter than they are too little is taken.
LeavesBehind(idx, sectors) ==
  sectors = 0 \/ devs[idx].size < Drive(DriveOf(idx)).sector

ReadReturns ==
  /\ apc = "read" /\ req.done = req.sectors
  /\ req' = [req EXCEPT !.ok = TRUE]
  /\ apc' = "answered"
  /\ behind' = IF LeavesBehind(req.idx, req.sectors)
               THEN behind \union {DriveOf(req.idx)} ELSE behind
  /\ UNCHANGED drive /\ ReadFrame

\* The caller's buffer: the whole length is copied, read or not.
Buffer == [k \in 1 .. req.len |-> IF k <= Len(req.got) THEN req.got[k] ELSE Garbage]

AtaStep ==
  AtaInit \/ ProbeSelect \/ ProbeError \/ ProbeIdent
    \/ ReadSector \/ ReadFails \/ ReadReturns
=============================================================================
