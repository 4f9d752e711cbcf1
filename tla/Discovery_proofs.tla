-------------------------- MODULE Discovery_proofs --------------------------
(***************************************************************************)
(* Theorems about the scan of the buses and about the drives, for every    *)
(* machine, every sector size and every width of the registers.            *)
(*                                                                         *)
(* AtaTypes says what the driver's tables are once the channels are known; *)
(* ProbeInv what the drives can be at while they are looked for; FreshInv  *)
(* that, of one controller, each is looked at once; FoundInv which drives  *)
(* have an entry so far; ReadInv how far a read has come, and that the     *)
(* drive is as far; BehindInv which drives may not heed a command; GptInv  *)
(* what the tables of partitions hold.                                     *)
(* ScanInv, further down, is the invariant of the scan.                    *)
(***************************************************************************)
EXTENDS Discovery, Iteration, SequenceTheorems

Controller == GetDevice("ide", 0)
Probing    == apc \in {"select", "identify", "packet"}
Reading    == apc \in {"read", "answered"}
AtaPlaces  ==
  {"off", "select", "identify", "packet", "ready", "failed", "read", "answered", "no_memory"}

DevEntries ==
  [chan : Nat, slave : {0, 1}, atapi : BOOLEAN, lba48 : BOOLEAN,
   size : Nat \ {0}, ident : BOOLEAN]

DriveStates ==
  {s \in [st : {"idle", "busy", "drq", "slow", "err", "fault"},
          what : {"none", "identify", "packet", "read"},
          lba : Nat, left : Nat, off : Nat] :
     s.st # "idle" => s.what # "none"}

AtaTypes ==
  /\ machine \in Machines
  /\ cache_len \in 0 .. CacheWrap - 1
  /\ apc \in AtaPlaces
  /\ apc = "off" => devs = <<>>
  /\ apc # "off" =>
       /\ pci = "found"
       /\ chans = [c \in 1 .. 2 * NumDevice("ide") |-> <<Controller, (c - 1) % 2>>]
  /\ devs \in Seq(DevEntries)
  /\ \A i \in DOMAIN devs : devs[i].chan \in DOMAIN chans
                            /\ DriveOf(i) \in DOMAIN machine.drives
  /\ Probing => probe \in (DOMAIN chans) \X {0, 1}
  /\ apc \in {"identify", "packet"} => Exists(Probed)
  /\ drive \in [AllDrives -> DriveStates]

\* Where the reader of partition tables is, and what the driver does for it.
GptPlaces ==
  /\ gpt \in {"off", "next", "mbr", "header", "array", "done", "damaged"}
  /\ gpt = "off" => ~Reading /\ apc # "no_memory" /\ past = {}
  /\ gpt # "off" => apc \in {"ready", "read", "answered", "no_memory"}
  /\ gpt = "next" => disk \in Nat \ {0} /\ apc = "ready"
  /\ gpt \in {"mbr", "header", "array"} =>
       disk \in DOMAIN devs /\ (Reading \/ apc = "no_memory")

Types == AtaTypes /\ GptPlaces

(* The drives while they are looked for *)

\* What a drive may be at then, and what its answer tells.
Looking(d) ==
  /\ drive[d].what # "read"
  /\ drive[d].what = "identify" =>
       /\ drive[d].st \in {"busy", "drq", "err"}
       /\ drive[d].st = "drq" => Drive(d).kind = "ata"
       /\ drive[d].st = "err" => Drive(d).kind # "ata"
  /\ drive[d].what = "packet" => drive[d].st \in {"busy", "drq"} /\ Drive(d).kind = "atapi"

ProbeInv ==
  /\ apc = "off" => \A d \in AllDrives : drive[d] = Idle
  /\ Probing => \A d \in DOMAIN machine.drives : Looking(d)
  /\ apc = "identify" => drive[Probed].what \in {"identify", "packet"}
  /\ apc = "packet" => Drive(Probed).kind = "atapi"

\* An entry says what the drive is.
TrueEntry(i) ==
  LET v == Drive(DriveOf(i)) IN
  /\ devs[i].atapi => v.kind = "atapi"
  /\ NumDevice("ide") = 1 => devs[i].atapi = (v.kind = "atapi")
  /\ v.kind # "other"
  /\ devs[i].ident \/ devs[i].atapi
  /\ devs[i].ident => devs[i].size = v.size

EntriesInv == \A i \in DOMAIN devs : TrueEntry(i)

(* The drives that have an entry *)

\* Places in the order in which they are looked at.
Sooner(c, u, d, v) == c < d \/ (c = d /\ u < v)

Place(c, u) == <<chans[c][1], chans[c][2], u>>

\* With one controller the drives that are still to be looked at have not been told
\* anything, so that what the drive at hand is at is the IDENTIFY it was told.
FreshInv ==
  NumDevice("ide") = 1 =>
    /\ apc = "identify" => drive[Probed].what = "identify"
    /\ Probing => \A c \in DOMAIN chans, u \in {0, 1} :
         /\ Exists(Place(c, u))
         /\ \/ Sooner(probe[1], probe[2], c, u)
            \/ apc = "select" /\ c = probe[1] /\ u = probe[2]
         => drive[Place(c, u)].st = "idle"

\* Whether the driver has been at a place.
LookedAt(c, u) == Probing => Sooner(c, u, probe[1], probe[2])

FoundInv ==
  apc \notin {"off", "failed"} =>
    /\ DOMAIN chans # {}
    /\ \A i \in DOMAIN devs : LookedAt(devs[i].chan, devs[i].slave)
    /\ \A i, j \in DOMAIN devs : i < j =>
         Sooner(devs[i].chan, devs[i].slave, devs[j].chan, devs[j].slave)
    /\ \A c \in DOMAIN chans, u \in {0, 1} :
         LET d == Place(c, u) IN
         LookedAt(c, u) /\ Exists(d) /\ Drive(d).kind # "other" =>
           \E i \in DOMAIN devs : devs[i].chan = c /\ devs[i].slave = u
    /\ IF Probing THEN Len(devs) <= 2 * (probe[1] - 1) + probe[2]
       ELSE Len(devs) <= 2 * Len(chans)

\* The reader's tables are left only if there are more drives than they have room for.
TablesInv == "tables" \in past => Len(devs) > DiskSlots

(* A read *)

ReqTypes ==
  /\ DOMAIN req = DOMAIN NoReq
  /\ req.idx \in DOMAIN devs
  /\ req.lba \in Nat /\ req.len \in Nat
  /\ req.sectors = (req.len + devs[req.idx].size - 1) \div devs[req.idx].size
  /\ req.done \in 0 .. req.sectors
  /\ req.ok \in BOOLEAN /\ req.taken \in BOOLEAN

\* What the drive has been told, and whether that was all.
ToldLba   == LbaSent(devs[req.idx], req.lba)
ToldCount == CountSent(devs[req.idx], req.sectors)

\* The drive is in this read until it has given as many sectors as it was told.  That
\* is later than the driver believes only if it takes too little of each.
CountInv ==
  LET d == DriveOf(req.idx)
      s == drive[d]
  IN \/ /\ s.st # "idle" /\ s.what = "read" /\ s.left >= 1
        /\ s.left + req.done >= ToldCount
        /\ devs[req.idx].size >= Drive(d).sector => s.left + req.done <= ToldCount
     \/ s = Idle /\ req.done >= ToldCount

\* Unit k of the read, counted from 1.
UnitAt(k) ==
  LET d == DriveOf(req.idx)
  IN <<d, ToldLba + (k - 1) \div Drive(d).sector, (k - 1) % Drive(d).sector>>

\* Sectors are not taken for longer than they are.
Fits ==
  devs[req.idx].ident /\ devs[req.idx].size <= Drive(DriveOf(req.idx)).sector

TakenSoFar == req.done * devs[req.idx].size

DriveInStep ==
  LET d == DriveOf(req.idx) IN
  drive[d] # Idle =>
    /\ drive[d].lba = ToldLba + TakenSoFar \div Drive(d).sector
    /\ drive[d].off = TakenSoFar % Drive(d).sector

\* Only an ATA drive has data to read.
KindInv ==
  LET d == DriveOf(req.idx) IN
  /\ drive[d].what = "read" /\ drive[d].st \in {"drq", "slow"} => Drive(d).kind = "ata"
  /\ req.done > 0 => Drive(d).kind = "ata"

GotInv == req.got = [k \in 1 .. TakenSoFar |-> UnitAt(k)]

\* All of this is of reads that the drive has heeded.
ReadInv ==
  /\ Reading => ReqTypes /\ (~req.taken => DriveOf(req.idx) \in ignored)
  /\ apc = "read" /\ req.taken => CountInv /\ KindInv /\ (Fits => DriveInStep)
  /\ Reading /\ req.taken /\ Fits => GotInv
  /\ apc = "answered" =>
       /\ req.ok => req.done = req.sectors
       /\ req.ok /\ req.taken /\ req.sectors > 0 => Drive(DriveOf(req.idx)).kind = "ata"
       /\ ~req.ok => \/ req.cause \in {"err", "fault", "slow"}
                     \/ req.cause = "idle" /\ (ToldCount # req.sectors \/ ~req.taken)

\* The drives that are told something and are waited for.
InUse(d) ==
  \/ apc \in {"identify", "packet"} /\ d = Probed
  \/ apc = "read" /\ d = DriveOf(req.idx)

Resting(d) == drive[d].st \in {"idle", "err", "fault"}

\* A drive may not heed a command only if a call has left it in the middle of one.
BehindInv ==
  /\ ignored \subseteq behind
  /\ apc # "no_memory" => \A d \in AllDrives : d \in behind \/ InUse(d) \/ Resting(d)

(* The partitions *)

\* The array of a drive can be named, and its sectors are not taken for longer.
Named(i) == Nameable(devs[i], DiskOf(i).array, ArrayUnits(DiskOf(i).count))
Whole(i) == devs[i].size <= Drive(DriveOf(i)).sector

\* The drive has heeded all commands, and its sectors are not taken for longer.
Heeded(i) == DriveOf(i) \notin ignored /\ Whole(i)

\* What is known of a drive's partitions is what is on it.
TrueParts(i) ==
  /\ \E n \in Nat : DOMAIN parts[i] = 1 .. n
  /\ count[i] = Cardinality(NonEmpty(parts[i]))
  /\ parts[i] # <<>> =>
       /\ DiskOf(i).sign
       /\ Heeded(i) => DiskOf(i).mbr
       /\ Heeded(i) /\ Named(i) => parts[i] = SubSeq(DiskOf(i).slots, 1, DiskOf(i).count)

GptStages == {"mbr", "header", "array"}

\* The drives up to the one at hand have been looked at, and the read is the one that
\* its stage asks for.
GptInv ==
  gpt # "off" =>
    /\ DOMAIN parts = DOMAIN devs /\ DOMAIN count = DOMAIN devs
    /\ \A i \in DOMAIN devs : TrueParts(i)
    /\ \A i \in DOMAIN devs : i >= disk => parts[i] = <<>>
    /\ gpt \in GptStages => req.idx = disk
    /\ gpt \in {"mbr", "header"} => req.len = 1 /\ (gpt = "mbr" => req.lba = 0)
    /\ gpt \in {"header", "array"} => (Heeded(disk) => DiskOf(disk).mbr)
    /\ gpt = "array" =>
         /\ DiskOf(disk).sign
         /\ req.lba = DiskOf(disk).array /\ req.len = ArrayUnits(DiskOf(disk).count)

-----------------------------------------------------------------------------
(* Machines and channels *)

LEMMA DriveFacts ==
  ASSUME machine \in Machines, NEW d \in DOMAIN machine.drives
  PROVE  /\ d \in AllDrives /\ d = <<d[1], d[2], d[3]>> /\ d[2] \in {0, 1} /\ d[3] \in {0, 1}
         /\ Drive(d).kind \in {"ata", "atapi", "other"} /\ Drive(d).lba48 \in BOOLEAN
         /\ Drive(d).sector \in Nat \ {0} /\ Drive(d).size \in Nat \ {0}
         /\ Drive(d).size <= Drive(d).sector => Drive(d).sector % Drive(d).size = 0
<1>1. d \in AllDrives /\ d \in (DOMAIN machine.pci) \X {0, 1} \X {0, 1}
  BY DrivesOfMachines
<1>2. d = <<d[1], d[2], d[3]>> /\ d[2] \in {0, 1} /\ d[3] \in {0, 1}
  BY <1>1
<1> QED
  BY <1>1, <1>2, DrivesOfMachines DEF Drive

LEMMA DiskFacts ==
  ASSUME machine \in Machines, NEW d \in DOMAIN machine.drives
  PROVE  LET on == Drive(d).disk IN
         /\ on.mbr \in BOOLEAN /\ on.sign \in BOOLEAN
         /\ on.array \in Nat /\ on.count \in Nat
         /\ on.slots \in Seq(Nat) /\ on.count <= Len(on.slots)
  BY DisksOfMachines DEF Drive

LEMMA ControllersCounted ==
  ASSUME cache_len \in Nat
  PROVE  NumDevice("ide") \in Nat
<1>1. IsFiniteSet(0 .. cache_len - 1)
  BY FS_Interval
<1>2. IsFiniteSet(OfKind("ide"))
  BY <1>1, FS_Subset DEF OfKind
<1> QED
  BY <1>2, FS_CardinalityType DEF NumDevice

LEMMA ChannelFacts ==
  ASSUME AtaTypes, apc # "off"
  PROVE  /\ NumDevice("ide") \in Nat
         /\ DOMAIN chans = 1 .. 2 * NumDevice("ide") /\ Len(chans) = 2 * NumDevice("ide")
         /\ \A c \in DOMAIN chans : chans[c] = <<Controller, (c - 1) % 2>>
<1>1. NumDevice("ide") \in Nat
  BY ControllersCounted, PciConstants DEF AtaTypes
<1>2. chans = [c \in 1 .. 2 * NumDevice("ide") |-> <<Controller, (c - 1) % 2>>]
  BY DEF AtaTypes
<1>3. DOMAIN chans = 1 .. 2 * NumDevice("ide")
  BY <1>2
<1>4. Len(chans) = 2 * NumDevice("ide")
  BY <1>1, <1>2
<1> QED
  BY <1>1, <1>2, <1>3, <1>4

-----------------------------------------------------------------------------
(* Types *)

LEMMA InitTypes == Init => Types
<1> SUFFICES ASSUME Init PROVE Types
  OBVIOUS
<1>1. Idle \in DriveStates
  BY DEF Idle, DriveStates
<1>2. AtaTypes
  BY <1>1, PciConstants DEF Init, PciBoot, AtaBoot, AtaTypes, AtaPlaces, Probing
<1>3. GptPlaces
  BY DEF Init, AtaBoot, GptBoot, GptPlaces, Reading
<1> QED
  BY <1>2, <1>3 DEF Types

\* What the tables of the driver rest on does not change.
Settled == UNCHANGED <<machine, pci, cache, cache_len, chans, devs>>

LEMMA SettledTypes ==
  ASSUME AtaTypes, Settled, apc # "off", apc' \in AtaPlaces \ {"off"},
         Probing' => probe' \in (DOMAIN chans) \X {0, 1},
         apc' \in {"identify", "packet"} => Exists(Probed)',
         drive' \in [AllDrives -> DriveStates]
  PROVE  AtaTypes'
<1>1. NumDevice("ide")' = NumDevice("ide") /\ Controller' = Controller
  BY DEF Settled, NumDevice, Controller, GetDevice, OfKind, Header
<1>2. \A i : DriveOf(i)' = DriveOf(i)
  BY DEF Settled, DriveOf
<1> QED
  BY <1>1, <1>2 DEF AtaTypes, Settled

LEMMA CommandedTyped ==
  ASSUME drive \in [AllDrives -> DriveStates], NEW d, NEW taken \in BOOLEAN,
         NEW what \in {"identify", "packet", "read"}, NEW lba \in Nat, NEW n \in Nat,
         Commanded(d, taken, what, lba, n)
  PROVE  /\ drive' \in [AllDrives -> DriveStates]
         /\ d \in AllDrives /\ taken =>
              drive'[d] = [st |-> "busy", what |-> what, lba |-> lba, left |-> n, off |-> 0]
         /\ ~taken => drive' = drive
         /\ \A e \in AllDrives \ {d} : drive'[e] = drive[e]
         /\ ignored' = IF taken THEN ignored ELSE ignored \union {d}
<1>1. CASE taken
  BY <1>1 DEF Commanded, DriveStates
<1>2. CASE ~taken
  BY <1>2 DEF Commanded
<1> QED
  BY <1>1, <1>2

LEMMA AnswerTyped ==
  ASSUME AtaTypes, NEW d \in AllDrives, DriveAnswer(d)
  PROVE  /\ drive' \in [AllDrives -> DriveStates]
         /\ \A e \in AllDrives \ {d} : drive'[e] = drive[e]
         /\ drive'[d] = [drive[d] EXCEPT !.st = drive'[d].st]
         /\ Exists(d)
         /\ \/ drive[d].st = "busy" /\ drive'[d].st \in Answers(d)
            \/ drive[d].st = "slow" /\ drive'[d].st = "drq"
<1>1. Exists(d) /\ drive \in [AllDrives -> DriveStates]
  BY DEF DriveAnswer, AtaTypes
<1>2. PICK st \in {"drq", "err", "slow", "fault"} :
        /\ drive' = [drive EXCEPT ![d].st = st]
        /\ \/ drive[d].st = "busy" /\ st \in Answers(d)
           \/ drive[d].st = "slow" /\ st = "drq"
  <2>1. drive[d].st = "busy" => drive[d].what \in {"identify", "packet", "read"}
    BY <1>1 DEF DriveStates
  <2>2. drive[d].st = "busy" => Answers(d) \subseteq {"drq", "err", "slow", "fault"}
    BY <2>1 DEF Answers
  <2> QED
    BY <2>2 DEF DriveAnswer
<1>3. drive'[d] = [drive[d] EXCEPT !.st = st] /\ drive'[d].st = st
  BY <1>1, <1>2 DEF DriveStates
<1>4. drive' \in [AllDrives -> DriveStates]
  BY <1>1, <1>2 DEF DriveStates
<1> QED
  BY <1>1, <1>2, <1>3, <1>4

LEMMA RequestTyped ==
  ASSUME AtaTypes, NEW idx \in DOMAIN devs, NEW lba \in Nat, NEW len \in Nat
  PROVE  LET e == devs[idx]
             sectors == (len + e.size - 1) \div e.size
         IN /\ e \in DevEntries /\ sectors \in Nat
            /\ LbaSent(e, lba) \in Nat /\ CountSent(e, sectors) \in Nat \ {0}
<1> DEFINE e == devs[idx]
           sectors == (len + e.size - 1) \div e.size
<1>1. e \in DevEntries
  BY DEF AtaTypes
<1>2. e.size \in Nat \ {0}
  BY <1>1 DEF DevEntries
<1>3. sectors \in Nat
  <2>1. \A a \in Nat, b \in Nat \ {0} : (a + b - 1) \div b \in Nat
    OBVIOUS
  <2> QED
    BY <1>2, <2>1
<1>4. LbaSent(e, lba) \in Nat
  <2>1. \A b \in Nat \ {0} : lba % b \in Nat
    OBVIOUS
  <2> QED
    BY <2>1, AtaConstants DEF LbaSent, Lbas
<1>5. CountSent(e, sectors) \in Nat \ {0}
  <2> HIDE DEF sectors
  <2>1. \A b \in Nat \ {0} : sectors % b \in Nat
    BY <1>3
  <2>2. CountWrap * CountWrap \in Nat \ {0}
    <3>1. \A m \in Nat \ {0} : m * m \in Nat \ {0}
      OBVIOUS
    <3> QED
      BY <3>1, AtaConstants
  <2> QED
    BY <2>1, <2>2, AtaConstants DEF CountSent
<1> QED
  BY <1>1, <1>3, <1>4, <1>5

\* What the readers of the driver's tables do with it: nothing, a request for
\* sectors of a drive that has an entry, or the end of such a request.
Calls ==
  \/ UNCHANGED <<pciVars, ataVars>>
  \/ /\ apc \in {"ready", "answered"}
     /\ \E idx \in DOMAIN devs, lba \in Nat, len \in Nat : Request(idx, lba, len)
  \/ /\ apc = "answered" /\ apc' = "ready"
     /\ UNCHANGED <<pciVars, chans, devs, probe, drive, history>>

\* What a request for sectors does to the driver and to the drives.
LEMMA RequestFacts ==
  ASSUME AtaTypes, NEW idx \in DOMAIN devs, NEW lba \in Nat, NEW len \in Nat,
         Request(idx, lba, len)
  PROVE  LET e == devs[idx]
             d == DriveOf(idx)
             sectors == (len + e.size - 1) \div e.size
         IN \E taken \in Takes(d) :
              /\ taken \in BOOLEAN
              /\ req' = [NoReq EXCEPT !.idx = idx, !.lba = lba, !.len = len,
                                      !.sectors = sectors, !.taken = taken]
              /\ drive' \in [AllDrives -> DriveStates]
              /\ taken => drive'[d] = [st |-> "busy", what |-> "read", lba |-> LbaSent(e, lba),
                                       left |-> CountSent(e, sectors), off |-> 0]
              /\ ~taken => drive' = drive
              /\ \A x \in AllDrives \ {d} : drive'[x] = drive[x]
              /\ ignored' = IF taken THEN ignored ELSE ignored \union {d}
              /\ d \in AllDrives /\ UNCHANGED behind
<1> DEFINE e == devs[idx]
           d == DriveOf(idx)
           sectors == (len + e.size - 1) \div e.size
<1>1. PICK taken \in Takes(d) :
        /\ req' = [NoReq EXCEPT !.idx = idx, !.lba = lba, !.len = len,
                                !.sectors = sectors, !.taken = taken]
        /\ Commanded(d, taken, "read", LbaSent(e, lba), CountSent(e, sectors))
  BY DEF Request
<1>2. taken \in BOOLEAN
  BY DEF Takes
<1>3. LbaSent(e, lba) \in Nat /\ CountSent(e, sectors) \in Nat
  BY RequestTyped
<1>4. d \in AllDrives /\ drive \in [AllDrives -> DriveStates]
  BY DriveFacts DEF AtaTypes
<1>5. UNCHANGED behind
  BY DEF Request
<1>6. /\ drive' \in [AllDrives -> DriveStates]
      /\ taken => drive'[d] = [st |-> "busy", what |-> "read", lba |-> LbaSent(e, lba),
                               left |-> CountSent(e, sectors), off |-> 0]
      /\ ~taken => drive' = drive
      /\ \A x \in AllDrives \ {d} : drive'[x] = drive[x]
      /\ ignored' = IF taken THEN ignored ELSE ignored \union {d}
  <2>1. ASSUME taken
        PROVE  drive' = [drive EXCEPT ![d] =
                 [st |-> "busy", what |-> "read", lba |-> LbaSent(e, lba),
                  left |-> CountSent(e, sectors), off |-> 0]] /\ ignored' = ignored
    BY <1>1, <2>1 DEF Commanded
  <2>2. ASSUME ~taken PROVE drive' = drive /\ ignored' = ignored \union {d}
    BY <1>1, <2>2 DEF Commanded
  <2>3. [st |-> "busy", what |-> "read", lba |-> LbaSent(e, lba),
         left |-> CountSent(e, sectors), off |-> 0] \in DriveStates
    BY <1>3 DEF DriveStates
  <2> HIDE DEF e, d, sectors
  <2> QED
    BY <1>4, <2>1, <2>2, <2>3
<1> DEFINE P(t) ==
      /\ t \in BOOLEAN
      /\ req' = [NoReq EXCEPT !.idx = idx, !.lba = lba, !.len = len,
                              !.sectors = sectors, !.taken = t]
      /\ drive' \in [AllDrives -> DriveStates]
      /\ t => drive'[d] = [st |-> "busy", what |-> "read", lba |-> LbaSent(e, lba),
                           left |-> CountSent(e, sectors), off |-> 0]
      /\ ~t => drive' = drive
      /\ \A x \in AllDrives \ {d} : drive'[x] = drive[x]
      /\ ignored' = IF t THEN ignored ELSE ignored \union {d}
      /\ d \in AllDrives /\ UNCHANGED behind
<1>7. P(taken)
  <2> HIDE DEF e, d, sectors
  <2> QED
    BY <1>1, <1>2, <1>4, <1>5, <1>6
<1>8. \E t \in Takes(d) : P(t)
  <2> HIDE DEF P
  <2> QED
    BY <1>1, <1>7
<1> QED
  BY <1>8, Zenon

LEMMA CallsTyped ==
  ASSUME AtaTypes, Calls
  PROVE  AtaTypes' /\ Settled
<1>1. CASE UNCHANGED <<pciVars, ataVars>>
  <2>1. Settled /\ UNCHANGED <<apc, probe, drive>>
    BY <1>1 DEF pciVars, ataVars, Settled
  <2>2. CASE apc = "off"
    BY <2>1, <2>2 DEF AtaTypes, Settled, Probing
  <2>3. CASE apc # "off"
    BY <2>1, <2>3, SettledTypes DEF AtaTypes, Probing, Settled, Probed, Exists
  <2> QED
    BY <2>2, <2>3
<1>2. CASE \E idx \in DOMAIN devs, lba \in Nat, len \in Nat :
             apc \in {"ready", "answered"} /\ Request(idx, lba, len)
  <2>1. PICK idx \in DOMAIN devs, lba \in Nat, len \in Nat :
          apc \in {"ready", "answered"} /\ Request(idx, lba, len)
    BY <1>2
  <2>2. Settled /\ apc' \in {"read", "no_memory"}
    BY <2>1 DEF Request, pciVars, Settled
  <2>3. drive' \in [AllDrives -> DriveStates]
    BY <2>1, RequestFacts
  <2> QED
    BY <2>1, <2>2, <2>3, SettledTypes DEF AtaPlaces, Probing
<1>3. CASE /\ apc = "answered" /\ apc' = "ready"
           /\ UNCHANGED <<pciVars, chans, devs, probe, drive, history>>
  <2>1. Settled /\ drive' \in [AllDrives -> DriveStates]
    BY <1>3 DEF pciVars, Settled, AtaTypes
  <2> QED
    BY <1>3, <2>1, SettledTypes DEF AtaPlaces, Probing
<1> QED
  BY <1>1, <1>2, <1>3 DEF Calls

LEMMA GptCalls ==
  ASSUME Types, GptStep
  PROVE  GptPlaces' /\ Calls
<1>1. /\ DOMAIN devs = 1 .. Len(devs) /\ Len(devs) \in Nat
      /\ \A i \in DOMAIN devs : DriveOf(i) \in DOMAIN machine.drives
      /\ machine \in Machines
  BY DEF Types, AtaTypes
<1>2. CASE GptInit \/ GptDone
  <2>1. UNCHANGED <<pciVars, ataVars>>
    BY <1>2 DEF GptInit, GptDone
  <2>2. UNCHANGED <<apc, devs>>
    BY <2>1 DEF ataVars
  <2> QED
    BY <1>1, <1>2, <2>1, <2>2 DEF GptInit, GptDone, Calls, Types, GptPlaces, Reading
<1>3. CASE ReadMbr
  <2>1. disk \in DOMAIN devs
    BY <1>1, <1>3 DEF ReadMbr, Types, GptPlaces
  <2>2. Request(disk, 0, 1) /\ apc = "ready" /\ gpt' = "mbr" /\ UNCHANGED disk
    BY <1>3 DEF ReadMbr, GptFrame
  <2>3. apc' \in {"read", "no_memory"} /\ UNCHANGED devs
    BY <2>2 DEF Request
  <2>4. Calls
    BY <2>1, <2>2 DEF Calls
  <2> QED
    BY <2>1, <2>2, <2>3, <2>4 DEF GptPlaces, Reading
<1>4. ASSUME apc = "answered", GiveUp \/ ArrayRead, disk \in DOMAIN devs
      PROVE  GptPlaces' /\ Calls
  <2>1. /\ gpt' \in {"next", "damaged"} /\ disk' = disk + 1 /\ apc' = "ready"
        /\ UNCHANGED <<pciVars, chans, devs, probe, drive, history>>
    BY <1>4 DEF GiveUp, ArrayRead
  <2>2. disk' \in Nat \ {0}
    BY <1>1, <1>4, <2>1
  <2> QED
    BY <1>4, <2>1, <2>2 DEF Calls, GptPlaces, Reading
<1>5. CASE MbrRead
  <2>1. gpt = "mbr" /\ apc = "answered" /\ disk \in DOMAIN devs
    BY <1>5 DEF MbrRead, Answered, Types, GptPlaces
  <2>2. CASE GiveUp
    BY <1>4, <2>1, <2>2
  <2>3. CASE ~GiveUp
    <3>1. gpt' = "header" /\ UNCHANGED disk /\ Request(disk, 1, 1)
      BY <1>5, <2>3 DEF MbrRead, GptFrame
    <3>2. apc' \in {"read", "no_memory"} /\ UNCHANGED devs
      BY <3>1 DEF Request
    <3>3. Calls
      BY <2>1, <3>1 DEF Calls
    <3> QED
      BY <2>1, <3>1, <3>2, <3>3 DEF GptPlaces, Reading
  <2> QED
    BY <2>2, <2>3
<1>6. CASE HeaderRead
  <2>1. gpt = "header" /\ apc = "answered" /\ disk \in DOMAIN devs
    BY <1>6 DEF HeaderRead, Answered, Types, GptPlaces
  <2>2. CASE GiveUp
    BY <1>4, <2>1, <2>2
  <2>3. CASE ~GiveUp
    <3>1. /\ gpt' = "array" /\ UNCHANGED disk
          /\ Request(disk, DiskOf(disk).array, ArrayUnits(DiskOf(disk).count))
      BY <1>6, <2>3 DEF HeaderRead, ArrayLba
    <3>2. apc' \in {"read", "no_memory"} /\ UNCHANGED devs
      BY <3>1 DEF Request
    <3>3. DiskOf(disk).array \in Nat /\ DiskOf(disk).count \in Nat
      BY <1>1, <2>1, DiskFacts DEF DiskOf
    <3>4. ArrayUnits(DiskOf(disk).count) \in Nat
      <4>1. \A a \in Nat, b \in Nat \ {0} : (a + b - 1) \div b \in Nat
        OBVIOUS
      <4> QED
        BY <3>3, <4>1, GptConstants DEF ArrayUnits
    <3>5. Calls
      BY <2>1, <3>1, <3>3, <3>4 DEF Calls
    <3> QED
      BY <2>1, <3>1, <3>2, <3>5 DEF GptPlaces, Reading
  <2> QED
    BY <2>2, <2>3
<1>7. CASE ArrayRead
  <2>1. gpt = "array" /\ apc = "answered" /\ disk \in DOMAIN devs
    BY <1>7 DEF ArrayRead, Answered, Types, GptPlaces
  <2> QED
    BY <1>4, <1>7, <2>1
<1> QED
  BY <1>2, <1>3, <1>5, <1>6, <1>7 DEF GptStep

LEMMA NextProbeFacts ==
  ASSUME AtaTypes, Probing, NEW found, NextProbe(found), UNCHANGED chans
  PROVE  /\ apc' \in {"select", "ready", "failed"}
         /\ Probing' => probe' \in (DOMAIN chans) \X {0, 1}
         /\ apc' = "ready" => found # <<>>
         /\ \A c \in DOMAIN chans, u \in {0, 1} :
              (Probing' => Sooner(c, u, probe'[1], probe'[2]))
                <=> LookedAt(c, u) \/ (c = probe[1] /\ u = probe[2])
         /\ IF Probing' THEN 2 * (probe'[1] - 1) + probe'[2] = 2 * (probe[1] - 1) + probe[2] + 1
            ELSE 2 * Len(chans) = 2 * (probe[1] - 1) + probe[2] + 1
<1>1. PICK n \in Nat : DOMAIN chans = 1 .. n /\ Len(chans) = n
  <2>1. apc # "off"
    BY DEF Probing
  <2> QED
    BY <2>1, ChannelFacts
<1>2. PICK p \in 1 .. n, q \in {0, 1} : probe = <<p, q>>
  BY <1>1 DEF AtaTypes
<1>3. CASE q = 0
  <2>1. probe' = <<p, 1>> /\ apc' = "select"
    BY <1>2, <1>3 DEF NextProbe
  <2> QED
    BY <1>1, <1>2, <1>3, <2>1 DEF LookedAt, Probing, Sooner
<1>4. CASE q = 1 /\ p < n
  <2>1. probe' = <<p + 1, 0>> /\ apc' = "select"
    BY <1>1, <1>2, <1>4 DEF NextProbe
  <2>2. \A c \in 1 .. n, u \in {0, 1} :
          c < p + 1 \/ (c = p + 1 /\ u < 0) <=> c < p \/ (c = p /\ u < 1) \/ (c = p /\ u = 1)
    BY <1>2
  <2> QED
    BY <1>1, <1>2, <1>4, <2>1, <2>2 DEF LookedAt, Probing, Sooner
<1>5. CASE q = 1 /\ p = n
  <2>1. apc' \in {"ready", "failed"} /\ (apc' = "ready" => found # <<>>)
    BY <1>1, <1>2, <1>5 DEF NextProbe
  <2>2. \A c \in 1 .. n, u \in {0, 1} : c < p \/ (c = p /\ u < 1) \/ (c = p /\ u = 1)
    BY <1>2, <1>5
  <2> QED
    BY <1>1, <1>2, <1>5, <2>1, <2>2 DEF LookedAt, Probing, Sooner
<1> QED
  BY <1>1, <1>2, <1>3, <1>4, <1>5

LEMMA AtaInitTyped ==
  ASSUME AtaTypes, AtaInit
  PROVE  AtaTypes' /\ devs' = <<>> /\ apc' \in {"select", "failed"} /\ probe' = <<1, 0>>
<1>1. /\ apc = "off" /\ pci = "found" /\ devs = <<>>
      /\ UNCHANGED <<machine, pci, cache, cache_len, devs, drive>>
  BY DEF AtaInit, AtaTypes, pciVars
<1>2. NumDevice("ide")' = NumDevice("ide") /\ Controller' = Controller
  BY <1>1 DEF NumDevice, Controller, GetDevice, OfKind, Header
<1>3. chans' = [c \in 1 .. 2 * NumDevice("ide")' |-> <<Controller', (c - 1) % 2>>]
  BY <1>2 DEF AtaInit, ControllerFor, Controller
<1>4. NumDevice("ide") \in Nat
  BY ControllersCounted, PciConstants DEF AtaTypes
<1>5. /\ apc' = IF NumDevice("ide") > 0 THEN "select" ELSE "failed"
      /\ probe' = <<1, 0>>
  BY DEF AtaInit
<1>6. Probing' => probe' \in (DOMAIN chans') \X {0, 1}
  BY <1>2, <1>3, <1>4, <1>5 DEF Probing
<1>7. /\ machine' \in Machines /\ cache_len' \in 0 .. CacheWrap - 1
      /\ devs' \in Seq(DevEntries) /\ DOMAIN devs' = {}
      /\ drive' \in [AllDrives -> DriveStates]
  BY <1>1 DEF AtaTypes
<1> QED
  BY <1>1, <1>3, <1>5, <1>6, <1>7 DEF AtaTypes, AtaPlaces

LEMMA ProbedExists ==
  ASSUME AtaTypes, apc \in {"identify", "packet"}
  PROVE  /\ Probed \in DOMAIN machine.drives /\ Probed \in AllDrives
         /\ drive[Probed] \in DriveStates
         /\ probe[1] \in DOMAIN chans /\ probe[1] \in Nat /\ probe[2] \in {0, 1}
<1>1. Probed \in DOMAIN machine.drives /\ machine \in Machines
  BY DEF AtaTypes, Exists
<1>2. Probed \in AllDrives
  BY <1>1, DriveFacts
<1>3. probe[1] \in DOMAIN chans /\ probe[2] \in {0, 1} /\ apc # "off"
  BY DEF AtaTypes, Probing
<1>4. probe[1] \in Nat
  BY <1>3, ChannelFacts
<1>5. drive[Probed] \in DriveStates
  BY <1>2 DEF AtaTypes
<1> QED
  BY <1>1, <1>2, <1>3, <1>4, <1>5

\* What is put into the list for the drive that is looked at.
LEMMA NewEntry ==
  ASSUME AtaTypes, ProbeInv, FreshInv, ProbeIdent
  PROVE  /\ apc \in {"identify", "packet"}
         /\ UNCHANGED <<machine, pci, cache, cache_len, chans>>
         /\ \E e \in DevEntries :
              /\ devs' = Append(devs, e)
              /\ e.chan = probe[1] /\ e.slave = probe[2]
              /\ Drive(Probed).kind # "other" /\ (e.atapi => Drive(Probed).kind = "atapi")
              /\ NumDevice("ide") = 1 => e.atapi = (Drive(Probed).kind = "atapi")
              /\ e.ident \/ e.atapi
              /\ e.ident => e.size = Drive(Probed).size
<1>1. apc \in {"identify", "packet"} /\ (apc = "identify" => drive[Probed].st = "drq")
  BY DEF ProbeIdent, MayReadIdent
<1>2. PICK e \in Entries(apc = "packet") : devs' = Append(devs, e)
  BY DEF ProbeIdent
<1>3. /\ Drive(Probed).lba48 \in BOOLEAN /\ Drive(Probed).size \in Nat \ {0}
      /\ probe[1] \in Nat /\ probe[2] \in {0, 1}
  BY <1>1, ProbedExists, DriveFacts DEF AtaTypes
<1>4. PICK lba48 \in BOOLEAN, size \in Nat \ {0}, ident \in BOOLEAN :
        /\ e = Entry(apc = "packet", lba48, size, ident)
        /\ ident => size = Drive(Probed).size
        /\ drive[Probed].st = "drq" => ident
  <2>1. CASE drive[Probed].st = "drq"
    <3>1. e = Entry(apc = "packet", Drive(Probed).lba48, Drive(Probed).size, TRUE)
      BY <1>2, <2>1 DEF Entries
    <3> QED
      BY <1>3, <3>1
  <2>2. CASE drive[Probed].st # "drq"
    <3>1. PICK lba48 \in BOOLEAN : e = Entry(apc = "packet", lba48, 1, FALSE)
      BY <1>2, <2>2 DEF Entries
    <3>2. /\ e = Entry(apc = "packet", lba48, 1, FALSE)
          /\ FALSE => 1 = Drive(Probed).size
          /\ drive[Probed].st = "drq" => FALSE
      BY <2>2, <3>1
    <3>3. 1 \in Nat \ {0} /\ FALSE \in BOOLEAN
      OBVIOUS
    <3> QED
      BY <3>2, <3>3, Zenon
  <2> QED
    BY <2>1, <2>2
<1>5. e = [chan |-> probe[1], slave |-> probe[2], atapi |-> (apc = "packet"),
           lba48 |-> lba48, size |-> size, ident |-> ident]
  BY <1>4 DEF Entry
<1>6. e \in DevEntries
  BY <1>3, <1>5 DEF DevEntries
<1>7. /\ apc = "packet" => Drive(Probed).kind = "atapi"
      /\ NumDevice("ide") = 1 => (apc = "packet") = (Drive(Probed).kind = "atapi")
      /\ Drive(Probed).kind # "other" /\ (ident \/ apc = "packet")
  <2>1. Looking(Probed)
    BY <1>1, ProbedExists DEF ProbeInv, Probing
  <2>2. apc = "identify" => Drive(Probed).kind \in {"ata", "atapi"}
    BY <1>1, <2>1 DEF ProbeInv, Looking
  <2>3. apc = "identify" /\ NumDevice("ide") = 1 => Drive(Probed).kind = "ata"
    BY <1>1, <2>1 DEF FreshInv, Looking
  <2> QED
    BY <1>1, <1>4, <2>2, <2>3 DEF ProbeInv
<1>8. UNCHANGED <<machine, pci, cache, cache_len, chans>>
  BY DEF ProbeIdent, pciVars
<1>9. /\ e.chan = probe[1] /\ e.slave = probe[2] /\ e.atapi = (apc = "packet")
      /\ e.size = size /\ e.ident = ident
  BY <1>5
<1>10. e.ident => e.size = Drive(Probed).size
  BY <1>4, <1>9
<1>11. e.ident \/ e.atapi
  BY <1>7, <1>9
<1>12. /\ e.atapi => Drive(Probed).kind = "atapi"
       /\ NumDevice("ide") = 1 => e.atapi = (Drive(Probed).kind = "atapi")
  BY <1>7, <1>9
<1> QED
  BY <1>1, <1>2, <1>6, <1>7, <1>8, <1>9, <1>10, <1>11, <1>12

\* The list after an entry has been put into it.
LEMMA Appended ==
  ASSUME AtaTypes, NEW e \in DevEntries, devs' = Append(devs, e)
  PROVE  /\ devs' \in Seq(DevEntries)
         /\ DOMAIN devs = 1 .. Len(devs) /\ DOMAIN devs' = 1 .. Len(devs) + 1
         /\ Len(devs) \in Nat /\ Len(devs') = Len(devs) + 1
         /\ \A i \in DOMAIN devs : devs'[i] = devs[i]
         /\ devs'[Len(devs) + 1] = e
<1>1. devs \in Seq(DevEntries)
  BY DEF AtaTypes
<1> QED
  BY <1>1

LEMMA ProbeTyped ==
  ASSUME AtaTypes, ProbeInv, FreshInv, ProbeSelect \/ ProbeError \/ ProbeIdent
  PROVE  AtaTypes' /\ apc' \in AtaPlaces \ {"off", "read", "answered", "no_memory"}
<1>1. drive \in [AllDrives -> DriveStates] /\ Probing /\ apc # "off"
  BY DEF AtaTypes, ProbeSelect, ProbeError, ProbeIdent, MayReadIdent, Probing
<1>2. CASE ProbeSelect \/ ProbeError
  <2>1. Settled
    BY <1>2 DEF ProbeSelect, ProbeError, pciVars, Settled
  <2>2. CASE NextProbe(devs) /\ UNCHANGED <<drive, ignored>>
    <3>1. UNCHANGED chans
      BY <2>1 DEF Settled
    <3>2. apc' \in {"select", "ready", "failed"} /\ (Probing' => probe' \in (DOMAIN chans) \X {0, 1})
      BY <1>1, <2>2, <3>1, NextProbeFacts
    <3> QED
      BY <1>1, <2>1, <2>2, <3>2, SettledTypes DEF AtaPlaces
  <2>3. CASE ~(NextProbe(devs) /\ UNCHANGED <<drive, ignored>>)
    <3>1. /\ \E what \in {"identify", "packet"}, taken \in Takes(Probed) \union {TRUE} :
               Commanded(Probed, taken, what, 0, 1)
          /\ apc' \in {"identify", "packet"} /\ UNCHANGED probe /\ Exists(Probed)
      <4>1. CASE ProbeSelect
        BY <2>3, <4>1 DEF ProbeSelect
      <4>2. CASE ProbeError
        <5>1. apc = "identify" /\ Exists(Probed)
          BY <4>2 DEF ProbeError, AtaTypes
        <5> QED
          BY <2>3, <4>2, <5>1 DEF ProbeError
      <4> QED
        BY <1>2, <4>1, <4>2
    <3>2. drive' \in [AllDrives -> DriveStates]
      <4>1. PICK what \in {"identify", "packet"}, taken \in Takes(Probed) \union {TRUE} :
              Commanded(Probed, taken, what, 0, 1)
        BY <3>1
      <4>2. 0 \in Nat /\ 1 \in Nat /\ what \in {"identify", "packet", "read"} /\ taken \in BOOLEAN
        BY DEF Takes
      <4> QED
        BY <1>1, <4>1, <4>2, CommandedTyped
    <3>3. Exists(Probed)'
      BY <2>1, <3>1 DEF Exists, Probed, Settled
    <3>4. Probing' => probe' \in (DOMAIN chans) \X {0, 1}
      BY <1>1, <3>1 DEF AtaTypes
    <3> QED
      BY <1>1, <2>1, <3>1, <3>2, <3>3, <3>4, SettledTypes DEF AtaPlaces
  <2> QED
    BY <2>2, <2>3
<1>3. CASE ProbeIdent
  <2>1. PICK e \in DevEntries :
          devs' = Append(devs, e) /\ e.chan = probe[1] /\ e.slave = probe[2]
    BY <1>3, NewEntry
  <2>2. /\ apc \in {"identify", "packet"}
        /\ UNCHANGED <<machine, pci, cache, cache_len, chans>>
    BY <1>3, NewEntry
  <2>3. NextProbe(devs') /\ drive' \in [AllDrives -> DriveStates]
    <3>1. Idle \in DriveStates
      BY DEF Idle, DriveStates
    <3> QED
      BY <1>1, <1>3, <3>1 DEF ProbeIdent
  <2>4. /\ apc' \in {"select", "ready", "failed"}
        /\ Probing' => probe' \in (DOMAIN chans) \X {0, 1}
    BY <1>1, <2>2, <2>3, NextProbeFacts
  <2>5. \A i \in DOMAIN devs' : devs'[i].chan \in DOMAIN chans /\ DriveOf(i)' \in DOMAIN machine.drives
    <3>1. SUFFICES ASSUME NEW i \in DOMAIN devs'
                   PROVE  devs'[i].chan \in DOMAIN chans /\ DriveOf(i)' \in DOMAIN machine.drives
      OBVIOUS
    <3>2. CASE i \in DOMAIN devs
      BY <2>1, <2>2, <3>2, Appended DEF AtaTypes, DriveOf
    <3>3. CASE i = Len(devs) + 1
      <4>1. devs'[i] = e
        BY <2>1, <3>3, Appended
      <4>2. DriveOf(i)' = Probed
        BY <2>1, <2>2, <4>1 DEF DriveOf, Probed
      <4> QED
        BY <2>1, <2>2, <4>1, <4>2, ProbedExists
    <3> QED
      BY <2>1, <3>1, <3>2, <3>3, Appended
  <2>6. NumDevice("ide")' = NumDevice("ide") /\ Controller' = Controller
    BY <2>2 DEF NumDevice, Controller, GetDevice, OfKind, Header
  <2>7. devs' \in Seq(DevEntries)
    BY <2>1, Appended
  <2> QED
    BY <2>2, <2>3, <2>4, <2>5, <2>6, <2>7 DEF AtaTypes, AtaPlaces, Probing
<1> QED
  BY <1>2, <1>3

\* The drive of a read is one of the machine's.
LEMMA ReadDrive ==
  ASSUME AtaTypes, ReqTypes
  PROVE  LET d == DriveOf(req.idx)
             e == devs[req.idx]
         IN /\ d \in DOMAIN machine.drives /\ d \in AllDrives /\ drive[d] \in DriveStates
            /\ Drive(d).sector \in Nat \ {0} /\ Drive(d).kind \in {"ata", "atapi", "other"}
            /\ e \in DevEntries /\ e.size \in Nat \ {0}
            /\ req.sectors \in Nat /\ ToldLba \in Nat /\ ToldCount \in Nat \ {0}
<1> DEFINE d == DriveOf(req.idx)
           e == devs[req.idx]
<1>1. req.idx \in DOMAIN devs /\ req.lba \in Nat /\ req.len \in Nat
      /\ req.sectors = (req.len + e.size - 1) \div e.size
  BY DEF ReqTypes
<1>2. d \in DOMAIN machine.drives /\ machine \in Machines
  BY <1>1 DEF AtaTypes
<1>3. d \in AllDrives /\ Drive(d).sector \in Nat \ {0} /\ Drive(d).kind \in {"ata", "atapi", "other"}
  BY <1>2, DriveFacts
<1>4. drive[d] \in DriveStates
  BY <1>3 DEF AtaTypes
<1>5. e \in DevEntries /\ req.sectors \in Nat /\ ToldLba \in Nat /\ ToldCount \in Nat \ {0}
  BY <1>1, RequestTyped DEF ToldLba, ToldCount
<1>6. e.size \in Nat \ {0}
  BY <1>5 DEF DevEntries
<1> QED
  BY <1>2, <1>3, <1>4, <1>5, <1>6

LEMMA AfterTakingTyped ==
  ASSUME NEW d \in AllDrives, drive[d] \in DriveStates, NEW n \in Nat
  PROVE  AfterTaking(d, n) \in DriveStates
<1> DEFINE s == drive[d]
<1>1. CASE s.st # "drq"
  BY <1>1 DEF AfterTaking
<1>2. CASE s.st = "drq" /\ s.off + n < Drive(d).sector
  <2>1. AfterTaking(d, n) = [s EXCEPT !.off = @ + n]
    BY <1>2 DEF AfterTaking
  <2> QED
    BY <2>1 DEF DriveStates
<1>3. CASE s.st = "drq" /\ ~(s.off + n < Drive(d).sector)
  <2>1. AfterTaking(d, n) =
          IF s.left > 1
          THEN [s EXCEPT !.st = "busy", !.lba = @ + 1, !.left = @ - 1, !.off = 0]
          ELSE Idle
    BY <1>3 DEF AfterTaking
  <2>2. CASE s.left > 1
    <3>1. AfterTaking(d, n) = [st |-> "busy", what |-> s.what, lba |-> s.lba + 1,
                               left |-> s.left - 1, off |-> 0]
      BY <2>1, <2>2 DEF DriveStates
    <3>2. s.lba + 1 \in Nat /\ s.left - 1 \in Nat /\ s.what # "none"
          /\ s.what \in {"none", "identify", "packet", "read"}
      BY <1>3, <2>2 DEF DriveStates
    <3> QED
      BY <3>1, <3>2 DEF DriveStates
  <2>3. CASE ~(s.left > 1)
    BY <2>1, <2>3 DEF DriveStates, Idle
  <2> QED
    BY <2>2, <2>3
<1> QED
  BY <1>1, <1>2, <1>3

LEMMA ReadTyped ==
  ASSUME AtaTypes, ReqTypes, ReadSector \/ ReadFails \/ ReadReturns
  PROVE  /\ AtaTypes' /\ Settled /\ apc = "read" /\ apc' \in {"read", "answered"}
         /\ UNCHANGED probe
<1> DEFINE d == DriveOf(req.idx)
           n == devs[req.idx].size
<1>1. /\ apc = "read" /\ apc' \in {"read", "answered"} /\ Settled /\ UNCHANGED probe
      /\ drive' = drive \/ drive' = [drive EXCEPT ![d] = AfterTaking(d, n)]
  BY DEF ReadSector, ReadFails, ReadReturns, ReadFrame, Settled, pciVars
<1>2. d \in AllDrives /\ drive[d] \in DriveStates /\ n \in Nat
  BY ReadDrive
<1>3. AfterTaking(d, n) \in DriveStates
  BY <1>2, AfterTakingTyped
<1>4. drive' \in [AllDrives -> DriveStates]
  BY <1>1, <1>3 DEF AtaTypes
<1>5. AtaTypes'
  BY <1>1, <1>4, SettledTypes DEF AtaPlaces, Probing
<1> QED
  BY <1>1, <1>5

LEMMA PciTyped ==
  ASSUME AtaTypes, PciStep, UNCHANGED ataVars
  PROVE  AtaTypes' /\ apc = "off" /\ UNCHANGED <<machine, apc, devs, drive>>
<1>1. pci \in {"off", "scan"} /\ UNCHANGED machine
  BY DEF PciStep, PciInit, EnumHost, EnumFunction, EnumReturn, PciReturn
<1>2. apc = "off" /\ UNCHANGED <<apc, devs, drive>>
  BY <1>1 DEF AtaTypes, ataVars
<1>3. cache_len' \in 0 .. CacheWrap - 1
  <2>1. cache_len' = cache_len \/ cache_len' = (cache_len + 1) % CacheWrap
    BY DEF PciStep, PciInit, EnumHost, EnumFunction, EnumReturn, PciReturn
  <2>2. cache_len \in 0 .. CacheWrap - 1 /\ CacheWrap \in Nat \ {0}
    BY PciConstants DEF AtaTypes
  <2> QED
    BY <2>1, <2>2
<1> QED
  BY <1>1, <1>2, <1>3 DEF AtaTypes, AtaPlaces, Probing

LEMMA DriveTyped ==
  ASSUME AtaTypes, NEW d \in AllDrives, DriveAnswer(d)
  PROVE  AtaTypes' /\ Settled /\ UNCHANGED <<apc, probe, req>>
<1>1. Settled /\ UNCHANGED <<apc, probe, req>>
  BY DEF DriveAnswer, pciVars, Settled
<1>2. drive' \in [AllDrives -> DriveStates]
  BY AnswerTyped
<1>3. CASE apc = "off"
  BY <1>1, <1>2, <1>3 DEF AtaTypes, Settled, Probing
<1>4. CASE apc # "off"
  BY <1>1, <1>2, <1>4, SettledTypes DEF AtaTypes, Probing, Settled, Probed, Exists
<1> QED
  BY <1>1, <1>3, <1>4

\* The steps of the whole, as the driver sees them.
DriverStep ==
  \/ Calls
  \/ AtaStep
  \/ PciStep /\ UNCHANGED ataVars
  \/ \E d \in AllDrives : DriveAnswer(d)

LEMMA StepTyped ==
  ASSUME AtaTypes, ProbeInv, FreshInv, Reading => ReqTypes, DriverStep
  PROVE  AtaTypes'
<1>1. CASE AtaStep
  <2>1. CASE ReadSector \/ ReadFails \/ ReadReturns
    <3>1. Reading
      BY <2>1 DEF ReadSector, ReadFails, ReadReturns, Reading
    <3> QED
      BY <2>1, <3>1, ReadTyped
  <2> QED
    BY <1>1, <2>1, AtaInitTyped, ProbeTyped DEF AtaStep
<1> QED
  BY <1>1, CallsTyped, PciTyped, DriveTyped DEF DriverStep

LEMMA NextPlaces ==
  ASSUME Types, ProbeInv, FreshInv, Reading => ReqTypes, [Next]_vars
  PROVE  GptPlaces' /\ DriverStep
<1>1. CASE GptStep
  BY <1>1, GptCalls DEF DriverStep
<1>2. CASE ProgramRead \/ ProgramAnswered
  <2>1. UNCHANGED gptVars /\ gpt = "done" /\ apc' \in {"read", "ready", "no_memory"}
    BY <1>2 DEF ProgramRead, ProgramAnswered, Request
  <2>2. Calls
    <3>1. CASE ProgramRead
      <4>1. PICK idx \in 1 .. Len(devs), lba \in ReadLbas, len \in ReadLengths :
              Request(idx, lba, len)
        BY <3>1 DEF ProgramRead
      <4>2. idx \in DOMAIN devs /\ lba \in Nat /\ len \in Nat
        BY ProgramReads DEF Types, AtaTypes
      <4> QED
        BY <3>1, <4>1, <4>2 DEF ProgramRead, Calls
    <3>2. CASE ProgramAnswered
      BY <3>2 DEF ProgramAnswered, Calls
    <3> QED
      BY <1>2, <3>1, <3>2
  <2> QED
    BY <2>1, <2>2 DEF DriverStep, gptVars, GptPlaces
<1>3. CASE AtaStep /\ UNCHANGED gptVars
  <2>1. CASE ReadSector \/ ReadFails \/ ReadReturns
    <3>1. Reading
      BY <2>1 DEF ReadSector, ReadFails, ReadReturns, Reading
    <3>2. Settled /\ apc' \in {"read", "answered"}
      BY <2>1, <3>1, ReadTyped DEF Types
    <3>3. UNCHANGED <<gpt, disk, past, devs>>
      BY <1>3, <3>2 DEF gptVars, Settled
    <3> QED
      BY <1>3, <3>1, <3>2, <3>3 DEF Types, GptPlaces, Reading, DriverStep
  <2>2. CASE AtaInit \/ ProbeSelect \/ ProbeError \/ ProbeIdent
    <3>1. apc \in {"off", "select", "identify", "packet"}
      BY <2>2 DEF AtaInit, ProbeSelect, ProbeError, ProbeIdent, MayReadIdent
    <3>2. gpt = "off" /\ past = {}
      BY <3>1 DEF Types, GptPlaces
    <3>3. apc' \notin {"read", "answered", "no_memory"}
      BY <2>2, AtaInitTyped, ProbeTyped DEF Types
    <3> QED
      BY <1>3, <3>2, <3>3 DEF gptVars, GptPlaces, Reading, DriverStep
  <2> QED
    BY <1>3, <2>1, <2>2 DEF AtaStep
<1>4. CASE PciStep /\ UNCHANGED <<ataVars, gptVars>>
  <2>1. UNCHANGED <<apc, devs>>
    BY <1>4, PciTyped DEF Types
  <2> QED
    BY <1>4, <2>1 DEF gptVars, Types, GptPlaces, Reading, DriverStep
<1>5. CASE \E d \in AllDrives : DriveStep(d)
  <2>1. PICK d \in AllDrives : DriveAnswer(d) /\ UNCHANGED gptVars
    BY <1>5 DEF DriveStep
  <2>2. UNCHANGED <<apc, devs>>
    BY <2>1, DriveTyped DEF Types, Settled
  <2> QED
    BY <2>1, <2>2 DEF gptVars, Types, GptPlaces, Reading, DriverStep
<1>6. CASE UNCHANGED vars
  BY <1>6 DEF vars, ataVars, gptVars, Types, GptPlaces, Reading, DriverStep, Calls
<1> QED
  BY <1>1, <1>2, <1>3, <1>4, <1>5, <1>6 DEF Next, Main

-----------------------------------------------------------------------------
(* The drives that are found *)

\* Steps after which everything that is said of the list stays as it was.
LEMMA SettledNames ==
  ASSUME Settled
  PROVE  /\ UNCHANGED <<machine, chans, devs>>
         /\ NumDevice("ide")' = NumDevice("ide")
         /\ \A i : DriveOf(i)' = DriveOf(i) /\ TrueEntry(i)' = TrueEntry(i)
         /\ \A d : (Exists(d)' <=> Exists(d)) /\ Drive(d)' = Drive(d)
         /\ \A c, u : Place(c, u)' = Place(c, u)
<1>1. UNCHANGED <<machine, chans, devs, cache, cache_len>>
  BY DEF Settled
<1>2. NumDevice("ide")' = NumDevice("ide")
  BY <1>1 DEF NumDevice, OfKind, Header
<1>3. \A d : (Exists(d)' <=> Exists(d)) /\ Drive(d)' = Drive(d)
  BY <1>1 DEF Exists, Drive
<1>4. \A i : DriveOf(i)' = DriveOf(i)
  BY <1>1 DEF DriveOf
<1>5. \A i : TrueEntry(i)' = TrueEntry(i)
  BY <1>1, <1>2, <1>4 DEF TrueEntry, Drive
<1> QED
  BY <1>1, <1>2, <1>3, <1>4, <1>5 DEF Place

LEMMA ProbeAnswered ==
  ASSUME AtaTypes, ProbeInv, NEW d \in AllDrives, DriveAnswer(d)
  PROVE  ProbeInv'
<1>1. /\ UNCHANGED <<apc, probe, chans, machine>>
      /\ \A e \in AllDrives \ {d} : drive'[e] = drive[e]
      /\ drive'[d] = [drive[d] EXCEPT !.st = drive'[d].st]
      /\ \/ drive[d].st = "busy" /\ drive'[d].st \in Answers(d)
         \/ drive[d].st = "slow" /\ drive'[d].st = "drq"
  BY AnswerTyped, DriveTyped DEF Settled
<1>2. Probed' = Probed /\ (\A x : Drive(x)' = Drive(x)) /\ (Probing' <=> Probing)
  BY <1>1 DEF Probed, Drive, Probing
<1>3. apc # "off"
  BY <1>1 DEF ProbeInv, Idle
<1>4. drive[d] \in DriveStates
  BY DEF AtaTypes
<1>5. \A x \in AllDrives : drive'[x].what = drive[x].what
  BY <1>1, <1>4 DEF DriveStates
<1>6. \A x \in DOMAIN machine.drives : x \in AllDrives
  BY DriveFacts DEF AtaTypes
<1>7. ASSUME NEW x \in DOMAIN machine.drives, Probing
      PROVE  Looking(x)'
  <2>1. Looking(x) /\ x \in AllDrives
    BY <1>6, <1>7 DEF ProbeInv
  <2>2. CASE x # d
    BY <1>1, <1>2, <2>1, <2>2 DEF Looking
  <2>3. CASE x = d
    <3>1. drive'[d].what = drive[d].what
      BY <1>5
    <3>2. drive[d].st # "slow" \/ drive[d].what = "none"
      BY <1>4, <2>1, <2>3 DEF Looking, DriveStates
    <3>3. CASE drive[d].what = "none"
      BY <1>2, <2>3, <3>1, <3>3 DEF Looking
    <3>4. CASE drive[d].what = "identify"
      <4>1. drive'[d].st \in IF Drive(d).kind = "ata" THEN {"drq"} ELSE {"err"}
        BY <1>1, <3>2, <3>4 DEF Answers
      <4> QED
        BY <1>2, <2>3, <3>1, <3>4, <4>1 DEF Looking
    <3>5. CASE drive[d].what = "packet"
      <4>1. drive'[d].st = "drq"
        BY <1>1, <3>2, <3>5 DEF Answers
      <4> QED
        BY <1>2, <2>1, <2>3, <3>1, <3>5, <4>1 DEF Looking
    <3> QED
      BY <1>4, <2>1, <2>3, <3>3, <3>4, <3>5 DEF DriveStates, Looking
  <2> QED
    BY <2>2, <2>3
<1>8. apc \in {"identify", "packet"} => Probed \in AllDrives
  BY ProbedExists
<1> QED
  BY <1>1, <1>2, <1>3, <1>5, <1>7, <1>8 DEF ProbeInv

LEMMA ProbeStep ==
  ASSUME AtaTypes, ProbeInv, ProbeSelect \/ ProbeError \/ ProbeIdent
  PROVE  ProbeInv'
<1>1. Probing /\ UNCHANGED <<machine, chans>>
  BY DEF ProbeSelect, ProbeError, ProbeIdent, MayReadIdent, Probing, pciVars
<1>2. /\ \A x \in DOMAIN machine.drives : x \in AllDrives /\ Looking(x)
      /\ \A x : Drive(x)' = Drive(x)
      /\ drive \in [AllDrives -> DriveStates]
  BY <1>1, DriveFacts DEF AtaTypes, ProbeInv, Drive
<1>3. ASSUME UNCHANGED drive PROVE \A x \in DOMAIN machine.drives : Looking(x)'
  BY <1>2, <1>3 DEF Looking
<1>4. ASSUME NEW what \in {"identify", "packet"}, what = "packet" => Drive(Probed).kind = "atapi",
             Exists(Probed), Commanded(Probed, TRUE, what, 0, 1)
      PROVE  /\ \A x \in DOMAIN machine.drives : Looking(x)'
             /\ drive'[Probed].what = what
  <2>1. Probed \in AllDrives
    BY <1>2, <1>4 DEF Exists
  <2>2. /\ drive'[Probed] = [st |-> "busy", what |-> what, lba |-> 0, left |-> 1, off |-> 0]
        /\ \A x \in AllDrives \ {Probed} : drive'[x] = drive[x]
    BY <1>2, <1>4, <2>1 DEF Commanded
  <2>3. ASSUME NEW x \in DOMAIN machine.drives PROVE Looking(x)'
    <3>1. CASE x = Probed
      BY <1>2, <1>4, <2>2, <3>1 DEF Looking
    <3>2. CASE x # Probed
      BY <1>2, <2>2, <3>2 DEF Looking
    <3> QED
      BY <3>1, <3>2
  <2> QED
    BY <2>2, <2>3
<1>5. ASSUME NEW found, NextProbe(found), \A x \in DOMAIN machine.drives : Looking(x)'
      PROVE  ProbeInv'
  <2>1. apc' \in {"select", "ready", "failed"}
    BY <1>1, <1>5, NextProbeFacts
  <2> QED
    BY <1>1, <1>5, <2>1 DEF ProbeInv
<1>6. CASE ProbeSelect /\ Exists(Probed)
  <2>1. /\ apc' = "identify" /\ UNCHANGED probe /\ Probed' = Probed
        /\ \E taken \in Takes(Probed) : Commanded(Probed, taken, "identify", 0, 1)
    BY <1>1, <1>6 DEF ProbeSelect, Probed
  <2>2. CASE Commanded(Probed, TRUE, "identify", 0, 1)
    BY <1>1, <1>4, <1>6, <2>1, <2>2 DEF ProbeInv
  <2>3. CASE FALSE \in Takes(Probed) /\ Commanded(Probed, FALSE, "identify", 0, 1)
    <3>1. UNCHANGED drive /\ drive[Probed].st # "idle"
      BY <2>3 DEF Commanded, Takes
    <3>2. drive[Probed].what \in {"identify", "packet"}
      <4>1. Looking(Probed) /\ drive[Probed] \in DriveStates
        BY <1>2, <1>6 DEF Exists
      <4> QED
        BY <3>1, <4>1 DEF Looking, DriveStates
    <3> QED
      BY <1>1, <1>3, <2>1, <3>1, <3>2 DEF ProbeInv
  <2>4. Takes(Probed) \subseteq BOOLEAN
    BY DEF Takes
  <2> QED
    BY <2>1, <2>2, <2>3, <2>4
<1>7. CASE ProbeError /\ Drive(Probed).kind = "atapi"
  <2>1. /\ apc = "identify" /\ apc' = "packet" /\ UNCHANGED probe /\ Probed' = Probed
        /\ Commanded(Probed, TRUE, "packet", 0, 1)
    BY <1>1, <1>7 DEF ProbeError, Probed
  <2>2. Exists(Probed)
    BY <2>1 DEF AtaTypes
  <2> QED
    BY <1>1, <1>2, <1>4, <1>7, <2>1, <2>2 DEF ProbeInv
<1>8. CASE ProbeIdent
  <2>1. apc \in {"identify", "packet"} /\ NextProbe(devs')
    BY <1>8 DEF ProbeIdent, MayReadIdent
  <2>2. ASSUME NEW x \in DOMAIN machine.drives PROVE Looking(x)'
    <3>1. x \in AllDrives /\ (drive'[x] = drive[x] \/ drive'[x] = Idle)
      BY <1>2, <1>8 DEF ProbeIdent
    <3> QED
      BY <1>2, <3>1 DEF Looking, Idle
  <2> QED
    BY <1>5, <2>1, <2>2
<1>9. CASE NextProbe(devs) /\ UNCHANGED drive
  BY <1>3, <1>5, <1>9
<1> QED
  BY <1>6, <1>7, <1>8, <1>9 DEF ProbeSelect, ProbeError

LEMMA CallPlaces ==
  ASSUME AtaTypes, Calls
  PROVE  UNCHANGED <<pciVars, ataVars>> \/ (apc \in {"ready", "answered"} /\ apc' \in {"read", "ready", "no_memory"})
  BY DEF Calls, Request

LEMMA ProbeInductive ==
  ASSUME AtaTypes, ProbeInv, Reading => ReqTypes, DriverStep
  PROVE  ProbeInv'
<1>1. CASE Calls
  <2>1. CASE UNCHANGED <<pciVars, ataVars>>
    BY <2>1 DEF pciVars, ataVars, ProbeInv, Drive, Probed, Probing, Looking
  <2> QED
    BY <1>1, <2>1, CallPlaces DEF ProbeInv, Probing
<1>2. CASE ReadSector \/ ReadFails \/ ReadReturns
  <2>1. apc' \in {"read", "answered"}
    BY <1>2 DEF ReadSector, ReadFails, ReadReturns
  <2> QED
    BY <2>1 DEF ProbeInv, Probing
<1>3. CASE AtaInit
  <2>1. /\ apc = "off" /\ apc' \in {"select", "failed"} /\ UNCHANGED <<machine, drive>>
    BY <1>3, AtaInitTyped DEF AtaInit, pciVars
  <2>2. \A x \in DOMAIN machine.drives : drive'[x] = Idle
    BY <2>1, DriveFacts DEF AtaTypes, ProbeInv
  <2> QED
    BY <2>1, <2>2 DEF ProbeInv, Looking, Idle
<1>4. CASE PciStep /\ UNCHANGED ataVars
  BY <1>4, PciTyped DEF ProbeInv, Probing
<1> QED
  BY <1>1, <1>2, <1>3, <1>4, ProbeStep, ProbeAnswered DEF DriverStep, AtaStep

\* With one controller no place has two names.
LEMMA OnePlace ==
  ASSUME AtaTypes, apc # "off", NumDevice("ide") = 1,
         NEW c \in DOMAIN chans, NEW b \in DOMAIN chans, NEW u, NEW v,
         Place(c, u) = Place(b, v)
  PROVE  c = b /\ u = v
<1>1. /\ c \in 1 .. 2 /\ b \in 1 .. 2
      /\ chans[c] = <<Controller, (c - 1) % 2>> /\ chans[b] = <<Controller, (b - 1) % 2>>
  BY ChannelFacts
<1>2. (c - 1) % 2 = (b - 1) % 2 /\ u = v
  BY <1>1 DEF Place
<1> QED
  BY <1>1, <1>2

\* The places that are still to be looked at after a step.
LEMMA StillFresh ==
  ASSUME AtaTypes, FreshInv, Probing, NumDevice("ide") = 1, Settled \/ ProbeIdent,
         NumDevice("ide")' = 1,
         \A x \in AllDrives \ {Probed} : drive'[x] = drive[x],
         apc' # "identify",
         \/ \E found : NextProbe(found)
         \/ UNCHANGED probe /\ apc' = "packet"
  PROVE  FreshInv'
<1>1. UNCHANGED <<machine, chans>> /\ apc # "off"
  BY DEF Settled, ProbeIdent, pciVars, Probing
<1>2. /\ \A c, u : Place(c, u)' = Place(c, u)
      /\ \A x : Exists(x)' <=> Exists(x)
      /\ Probed = Place(probe[1], probe[2])
  BY <1>1 DEF Place, Exists, Probed
<1>3. probe[1] \in DOMAIN chans /\ probe[2] \in {0, 1}
  BY DEF AtaTypes
<1>4. DOMAIN chans = 1 .. 2 * NumDevice("ide") /\ NumDevice("ide") \in Nat
  BY <1>1, ChannelFacts
<1> SUFFICES ASSUME Probing', NEW c \in DOMAIN chans, NEW u \in {0, 1}, Exists(Place(c, u)),
                    \/ Sooner(probe'[1], probe'[2], c, u)
                    \/ apc' = "select" /\ c = probe'[1] /\ u = probe'[2]
             PROVE  drive'[Place(c, u)].st = "idle"
  BY <1>1, <1>2, Zenon DEF FreshInv
<1>5. Sooner(probe[1], probe[2], c, u)
  <2>1. CASE \E found : NextProbe(found)
    <3>1. PICK found : NextProbe(found)
      BY <2>1
    <3>2. /\ probe' \in (DOMAIN chans) \X {0, 1}
          /\ Sooner(c, u, probe'[1], probe'[2])
               <=> Sooner(c, u, probe[1], probe[2]) \/ (c = probe[1] /\ u = probe[2])
      BY <1>1, <3>1, NextProbeFacts DEF LookedAt
    <3>3. ~Sooner(c, u, probe'[1], probe'[2])
      BY <1>4, <3>2 DEF Sooner
    <3> QED
      BY <1>3, <1>4, <3>2, <3>3 DEF Sooner
  <2>2. CASE UNCHANGED probe /\ apc' = "packet"
    BY <2>2
  <2> QED
    BY <2>1, <2>2
<1>6. drive[Place(c, u)].st = "idle"
  BY <1>5 DEF FreshInv
<1>7. Place(c, u) # Probed
  <2>1. ~(c = probe[1] /\ u = probe[2])
    BY <1>3, <1>4, <1>5 DEF Sooner
  <2> QED
    BY <1>1, <1>2, <1>3, <2>1, OnePlace
<1>8. Place(c, u) \in AllDrives
  BY DriveFacts DEF AtaTypes, Exists
<1> QED
  BY <1>6, <1>7, <1>8

LEMMA FreshInductive ==
  ASSUME AtaTypes, ProbeInv, FreshInv, Reading => ReqTypes, DriverStep
  PROVE  FreshInv'
<1>1. CASE Calls
  <2>1. CASE UNCHANGED <<pciVars, ataVars>>
    <3>1. Settled /\ UNCHANGED <<apc, probe, drive>>
      BY <2>1 DEF pciVars, ataVars, Settled
    <3>2. Probed' = Probed
      BY <3>1 DEF Probed, Settled
    <3> QED
      BY <3>1, <3>2, SettledNames DEF FreshInv, Probing
  <2> QED
    BY <1>1, <2>1, CallPlaces DEF FreshInv, Probing
<1>2. CASE ReadSector \/ ReadFails \/ ReadReturns
  <2>1. apc' \in {"read", "answered"}
    BY <1>2 DEF ReadSector, ReadFails, ReadReturns
  <2> QED
    BY <2>1 DEF FreshInv, Probing
<1>3. CASE AtaInit
  <2>1. apc = "off" /\ apc' \in {"select", "failed"} /\ AtaTypes' /\ UNCHANGED <<machine, drive>>
    BY <1>3, AtaInitTyped DEF AtaInit, pciVars
  <2>2. \A x : Exists(x)' => drive'[x] = Idle
    BY <2>1, DriveFacts DEF AtaTypes, ProbeInv, Exists
  <2>3. \A x : Exists(x)' => drive'[x].st = "idle"
    BY <2>2 DEF Idle
  <2> QED
    BY <2>1, <2>3 DEF FreshInv
<1>4. CASE PciStep /\ UNCHANGED ataVars
  BY <1>4, PciTyped DEF FreshInv, Probing
<1>5. CASE \E d \in AllDrives : DriveAnswer(d)
  <2>1. PICK d \in AllDrives : DriveAnswer(d)
    BY <1>5
  <2>2. Settled /\ UNCHANGED <<apc, probe>>
    BY <2>1, DriveTyped
  <2>3. Probed' = Probed
    BY <2>2 DEF Probed, Settled
  <2>4. \A x \in AllDrives : /\ drive[x].st = "idle" => drive'[x].st = "idle"
                            /\ drive'[x].what = drive[x].what
    <3>1. drive[d] \in DriveStates
      BY DEF AtaTypes
    <3>2. drive'[d].what = drive[d].what /\ drive[d].st # "idle"
      BY <2>1, <3>1, AnswerTyped DEF DriveStates
    <3> QED
      BY <2>1, <3>2, AnswerTyped
  <2>5. \A x : Exists(x) => x \in AllDrives
    BY DriveFacts DEF AtaTypes, Exists
  <2>6. apc = "identify" => Probed \in AllDrives
    BY ProbedExists
  <2> QED
    BY <2>2, <2>3, <2>4, <2>5, <2>6, SettledNames DEF FreshInv, Probing
<1>6. CASE ProbeSelect \/ ProbeError \/ ProbeIdent
  <2> SUFFICES ASSUME NumDevice("ide")' = 1 PROVE FreshInv'
    BY DEF FreshInv
  <2>1. Probing /\ (Settled \/ ProbeIdent)
    BY <1>6 DEF ProbeSelect, ProbeError, ProbeIdent, MayReadIdent, pciVars, Settled, Probing
  <2>2. UNCHANGED <<machine, chans>> /\ NumDevice("ide") = 1
    BY <1>6 DEF ProbeSelect, ProbeError, ProbeIdent, pciVars, NumDevice, OfKind, Header
  <2>3. \A x \in AllDrives \ {Probed} : drive'[x] = drive[x]
    BY <1>6 DEF ProbeSelect, ProbeError, ProbeIdent, Commanded, AtaTypes
  <2>4. CASE ProbeSelect /\ Exists(Probed)
    <3>1. probe[1] \in DOMAIN chans /\ probe[2] \in {0, 1} /\ apc = "select"
      BY <2>1, <2>4 DEF ProbeSelect, AtaTypes
    <3>2. drive[Probed].st = "idle"
      BY <2>1, <2>2, <2>4, <3>1 DEF FreshInv, Probed, Place
    <3>3. /\ Commanded(Probed, TRUE, "identify", 0, 1) /\ apc' = "identify" /\ UNCHANGED probe
          /\ Probed' = Probed
      BY <2>2, <2>4, <3>2 DEF ProbeSelect, Takes, Probed
    <3>4. Probed \in AllDrives
      BY <2>4, DriveFacts DEF AtaTypes, Exists
    <3>5. drive'[Probed].what = "identify"
      BY <3>3, <3>4 DEF Commanded, AtaTypes
    <3>6. ASSUME NEW c \in DOMAIN chans, NEW u \in {0, 1}, Exists(Place(c, u)),
                 Sooner(probe[1], probe[2], c, u)
          PROVE  drive'[Place(c, u)].st = "idle"
      <4>1. drive[Place(c, u)].st = "idle"
        BY <2>1, <2>2, <3>6 DEF FreshInv
      <4>2. ~(c = probe[1] /\ u = probe[2])
        <5>1. DOMAIN chans = 1 .. 2 * NumDevice("ide") /\ NumDevice("ide") \in Nat
          BY <3>1, ChannelFacts
        <5> QED
          BY <3>1, <3>6, <5>1 DEF Sooner
      <4>3. Place(c, u) # Probed
        BY <2>2, <3>1, <4>2, OnePlace DEF Probed, Place
      <4>4. Place(c, u) \in AllDrives
        BY <3>6, DriveFacts DEF AtaTypes, Exists
      <4> QED
        BY <2>3, <4>1, <4>3, <4>4
    <3>7. /\ \A c, u : Place(c, u)' = Place(c, u)
          /\ \A x : Exists(x)' <=> Exists(x)
      BY <2>2 DEF Place, Exists
    <3> QED
      BY <2>2, <3>3, <3>5, <3>6, <3>7 DEF FreshInv
  <2>5. CASE ~(ProbeSelect /\ Exists(Probed))
    <3>1. \/ \E found : NextProbe(found)
          \/ UNCHANGED probe /\ apc' = "packet"
      BY <1>6, <2>5 DEF ProbeSelect, ProbeError, ProbeIdent
    <3>2. apc' # "identify"
      BY <2>1, <2>2, <3>1, NextProbeFacts
    <3> QED
      BY <2>1, <2>2, <2>3, <3>1, <3>2, StillFresh
  <2> QED
    BY <2>4, <2>5
<1> QED
  BY <1>1, <1>2, <1>3, <1>4, <1>5, <1>6 DEF DriverStep, AtaStep

LEMMA EntriesInductive ==
  ASSUME AtaTypes, ProbeInv, FreshInv, EntriesInv, Reading => ReqTypes, DriverStep
  PROVE  EntriesInv'
<1>1. ASSUME Settled PROVE EntriesInv'
  BY <1>1, SettledNames DEF EntriesInv
<1>2. ASSUME devs' = <<>> PROVE EntriesInv'
  BY <1>2 DEF EntriesInv
<1>3. CASE ReadSector \/ ReadFails \/ ReadReturns
  BY <1>1, <1>3, ReadTyped DEF ReadSector, ReadFails, ReadReturns, Reading
<1>4. CASE ProbeSelect \/ ProbeError
  BY <1>1, <1>4 DEF ProbeSelect, ProbeError, pciVars, Settled
<1>5. CASE ProbeIdent
  <2>1. PICK e \in DevEntries :
          /\ devs' = Append(devs, e)
          /\ e.chan = probe[1] /\ e.slave = probe[2]
          /\ Drive(Probed).kind # "other" /\ (e.atapi => Drive(Probed).kind = "atapi")
          /\ NumDevice("ide") = 1 => e.atapi = (Drive(Probed).kind = "atapi")
          /\ e.ident \/ e.atapi
          /\ e.ident => e.size = Drive(Probed).size
    BY <1>5, NewEntry
  <2>2. UNCHANGED <<machine, chans>> /\ NumDevice("ide")' = NumDevice("ide")
    BY <1>5, NewEntry DEF NumDevice, OfKind, Header
  <2> SUFFICES ASSUME NEW i \in DOMAIN devs' PROVE TrueEntry(i)'
    BY DEF EntriesInv
  <2>3. CASE i \in DOMAIN devs
    <3>1. devs'[i] = devs[i]
      BY <2>1, <2>3, Appended
    <3>2. TrueEntry(i)' = TrueEntry(i)
      BY <2>2, <3>1 DEF TrueEntry, DriveOf, Drive
    <3> QED
      BY <2>3, <3>2 DEF EntriesInv
  <2>4. CASE i = Len(devs) + 1
    <3>1. devs'[i] = e
      BY <2>1, <2>4, Appended
    <3>2. DriveOf(i)' = Probed /\ \A d : Drive(d)' = Drive(d)
      BY <2>1, <2>2, <3>1 DEF DriveOf, Probed, Drive
    <3> QED
      BY <2>1, <2>2, <3>1, <3>2 DEF TrueEntry
  <2> QED
    BY <2>1, <2>3, <2>4, Appended
<1>6. CASE AtaInit
  BY <1>2, <1>6, AtaInitTyped
<1>7. CASE PciStep /\ UNCHANGED ataVars
  BY <1>2, <1>7, PciTyped DEF AtaTypes
<1> QED
  BY <1>1, <1>3, <1>4, <1>5, <1>6, <1>7, CallsTyped, DriveTyped DEF DriverStep, AtaStep

\* FoundInv, for a step that does not touch the list or where the driver looks.
LEMMA SettledFound ==
  ASSUME FoundInv, Settled, UNCHANGED probe, Probing' <=> Probing,
         apc' \notin {"off", "failed"} => apc \notin {"off", "failed"}
  PROVE  FoundInv'
<1>1. \A c, u : LookedAt(c, u)' <=> LookedAt(c, u)
  BY DEF LookedAt
<1>2. SUFFICES ASSUME apc' \notin {"off", "failed"} PROVE FoundInv'
  BY DEF FoundInv
<1>3. apc \notin {"off", "failed"}
  BY <1>2
<1>4. UNCHANGED <<machine, chans, devs>>
  BY DEF Settled
<1> QED
  BY <1>1, <1>3, <1>4 DEF FoundInv, Exists, Drive, Place

\* A place without a drive, or with one that the driver cannot use, is passed.
LEMMA PassedFound ==
  ASSUME AtaTypes, FoundInv, Probing, Settled, NextProbe(devs),
         Exists(Probed) => Drive(Probed).kind = "other"
  PROVE  FoundInv'
<1>1. /\ apc' \in {"select", "ready", "failed"}
      /\ \A c \in DOMAIN chans, u \in {0, 1} :
           (Probing' => Sooner(c, u, probe'[1], probe'[2]))
             <=> LookedAt(c, u) \/ (c = probe[1] /\ u = probe[2])
      /\ IF Probing' THEN 2 * (probe'[1] - 1) + probe'[2] = 2 * (probe[1] - 1) + probe[2] + 1
         ELSE 2 * Len(chans) = 2 * (probe[1] - 1) + probe[2] + 1
  BY NextProbeFacts DEF Settled
<1>2. /\ UNCHANGED <<machine, chans, devs>> /\ Len(devs) \in Nat
      /\ \A i \in DOMAIN devs : devs[i].chan \in DOMAIN chans /\ devs[i].slave \in {0, 1}
      /\ probe[1] \in Nat /\ probe[2] \in {0, 1}
  <2>1. \A i \in DOMAIN devs : devs[i] \in DevEntries
    BY DEF AtaTypes
  <2>2. probe[1] \in DOMAIN chans /\ probe[2] \in {0, 1} /\ apc # "off"
    BY DEF AtaTypes, Probing
  <2> QED
    BY <2>1, <2>2, ChannelFacts DEF AtaTypes, DevEntries, Settled
<1>3. apc \notin {"off", "failed"}
  BY DEF Probing
<1>4. \A i \in DOMAIN devs' :
        Probing' => Sooner(devs'[i].chan, devs'[i].slave, probe'[1], probe'[2])
  BY <1>1, <1>2, <1>3 DEF FoundInv
<1>5. \A i, j \in DOMAIN devs' : i < j =>
         Sooner(devs'[i].chan, devs'[i].slave, devs'[j].chan, devs'[j].slave)
  BY <1>2, <1>3 DEF FoundInv
<1>6. ASSUME NEW c \in DOMAIN chans, NEW u \in {0, 1},
             Probing' => Sooner(c, u, probe'[1], probe'[2]),
             Exists(Place(c, u)), Drive(Place(c, u)).kind # "other"
      PROVE  \E i \in DOMAIN devs : devs[i].chan = c /\ devs[i].slave = u
  <2>1. ~(c = probe[1] /\ u = probe[2])
    BY <1>6 DEF Probed, Place
  <2> QED
    BY <1>1, <1>3, <1>6, <2>1 DEF FoundInv
<1>7. IF Probing' THEN Len(devs) <= 2 * (probe'[1] - 1) + probe'[2]
      ELSE Len(devs) <= 2 * Len(chans)
  <2>1. Len(devs) <= 2 * (probe[1] - 1) + probe[2]
    BY <1>3 DEF FoundInv
  <2>2. 2 * (probe[1] - 1) + probe[2] \in Int
    BY <1>2
  <2> QED
    BY <1>1, <1>2, <2>1, <2>2
<1>8. /\ \A d : (Exists(d)' <=> Exists(d)) /\ Drive(d)' = Drive(d)
      /\ \A c, u : Place(c, u)' = Place(c, u)
  BY <1>2 DEF Exists, Drive, Place
<1> QED
  BY <1>2, <1>3, <1>4, <1>5, <1>6, <1>7, <1>8 DEF FoundInv, LookedAt

\* A drive with an entry is the last one that was looked at.
LEMMA AddedFound ==
  ASSUME AtaTypes, ProbeInv, FreshInv, FoundInv, ProbeIdent
  PROVE  FoundInv'
<1>0. PICK e \in DevEntries : devs' = Append(devs, e) /\ e.chan = probe[1] /\ e.slave = probe[2]
  BY NewEntry
<1>1. /\ UNCHANGED <<machine, chans>> /\ apc \in {"identify", "packet"} /\ NextProbe(devs')
  BY NewEntry DEF ProbeIdent
<1>2. /\ DOMAIN devs = 1 .. Len(devs) /\ DOMAIN devs' = 1 .. Len(devs) + 1
      /\ Len(devs) \in Nat /\ Len(devs') = Len(devs) + 1
      /\ \A i \in DOMAIN devs : devs'[i] = devs[i]
      /\ devs'[Len(devs) + 1] = e
  BY <1>0, Appended
<1>3. /\ probe[1] \in DOMAIN chans /\ probe[1] \in Nat /\ probe[2] \in {0, 1}
      /\ Probing /\ apc \notin {"off", "failed"}
  BY <1>1, ProbedExists DEF Probing
<1>4. /\ \A c \in DOMAIN chans, u \in {0, 1} :
           (Probing' => Sooner(c, u, probe'[1], probe'[2]))
             <=> LookedAt(c, u) \/ (c = probe[1] /\ u = probe[2])
      /\ IF Probing' THEN 2 * (probe'[1] - 1) + probe'[2] = 2 * (probe[1] - 1) + probe[2] + 1
         ELSE 2 * Len(chans) = 2 * (probe[1] - 1) + probe[2] + 1
  BY <1>1, <1>3, NextProbeFacts
<1>5. \A i \in DOMAIN devs : devs[i].chan \in DOMAIN chans /\ devs[i].slave \in {0, 1}
  <2>1. \A i \in DOMAIN devs : devs[i] \in DevEntries
    BY DEF AtaTypes
  <2> QED
    BY <2>1 DEF AtaTypes, DevEntries
<1>6. \A i \in DOMAIN devs' :
        Probing' => Sooner(devs'[i].chan, devs'[i].slave, probe'[1], probe'[2])
  <2> SUFFICES ASSUME NEW i \in DOMAIN devs', Probing'
               PROVE  Sooner(devs'[i].chan, devs'[i].slave, probe'[1], probe'[2])
    OBVIOUS
  <2>1. CASE i \in DOMAIN devs
    <3>1. LookedAt(devs[i].chan, devs[i].slave)
      BY <1>3, <2>1 DEF FoundInv
    <3> QED
      BY <1>2, <1>4, <1>5, <2>1, <3>1
  <2>2. CASE i = Len(devs) + 1
    BY <1>0, <1>2, <1>3, <1>4, <2>2
  <2> QED
    BY <1>2, <2>1, <2>2
<1>7. \A i, j \in DOMAIN devs' : i < j =>
         Sooner(devs'[i].chan, devs'[i].slave, devs'[j].chan, devs'[j].slave)
  <2> SUFFICES ASSUME NEW i \in DOMAIN devs', NEW j \in DOMAIN devs', i < j
               PROVE  Sooner(devs'[i].chan, devs'[i].slave, devs'[j].chan, devs'[j].slave)
    OBVIOUS
  <2>1. i \in DOMAIN devs
    BY <1>2
  <2>2. CASE j \in DOMAIN devs
    BY <1>2, <1>3, <2>1, <2>2 DEF FoundInv
  <2>3. CASE j = Len(devs) + 1
    <3>1. LookedAt(devs[i].chan, devs[i].slave)
      BY <1>3, <2>1 DEF FoundInv
    <3> QED
      BY <1>0, <1>2, <1>3, <2>1, <2>3, <3>1 DEF LookedAt
  <2> QED
    BY <1>2, <2>2, <2>3
<1>8. ASSUME NEW c \in DOMAIN chans, NEW u \in {0, 1},
             Probing' => Sooner(c, u, probe'[1], probe'[2]),
             Exists(Place(c, u)), Drive(Place(c, u)).kind # "other"
      PROVE  \E i \in DOMAIN devs' : devs'[i].chan = c /\ devs'[i].slave = u
  <2>1. CASE c = probe[1] /\ u = probe[2]
    BY <1>0, <1>2, <2>1
  <2>2. CASE ~(c = probe[1] /\ u = probe[2])
    <3>1. \E i \in DOMAIN devs : devs[i].chan = c /\ devs[i].slave = u
      BY <1>3, <1>4, <1>8, <2>2 DEF FoundInv
    <3> QED
      BY <1>2, <3>1
  <2> QED
    BY <2>1, <2>2
<1>9. IF Probing' THEN Len(devs') <= 2 * (probe'[1] - 1) + probe'[2]
      ELSE Len(devs') <= 2 * Len(chans)
  <2>1. Len(devs) <= 2 * (probe[1] - 1) + probe[2]
    BY <1>3 DEF FoundInv
  <2>2. 2 * (probe[1] - 1) + probe[2] \in Int
    BY <1>3
  <2> QED
    BY <1>2, <1>4, <2>1, <2>2
<1>10. /\ \A d : (Exists(d)' <=> Exists(d)) /\ Drive(d)' = Drive(d)
       /\ \A c, u : Place(c, u)' = Place(c, u)
  BY <1>1 DEF Exists, Drive, Place
<1> QED
  BY <1>1, <1>3, <1>6, <1>7, <1>8, <1>9, <1>10 DEF FoundInv, LookedAt

LEMMA FoundInductive ==
  ASSUME AtaTypes, ProbeInv, FreshInv, FoundInv, Reading => ReqTypes, DriverStep
  PROVE  FoundInv'
<1>1. CASE Calls
  <2>1. CASE UNCHANGED <<pciVars, ataVars>>
    BY <1>1, <2>1, CallsTyped, SettledFound DEF pciVars, ataVars, Probing
  <2>2. CASE ~UNCHANGED <<pciVars, ataVars>>
    BY <1>1, <2>2, CallsTyped, SettledFound DEF Calls, Request, Probing
  <2> QED
    BY <2>1, <2>2
<1>2. CASE ReadSector \/ ReadFails \/ ReadReturns
  <2>1. Reading
    BY <1>2 DEF ReadSector, ReadFails, ReadReturns, Reading
  <2> QED
    BY <1>2, <2>1, ReadTyped, SettledFound DEF Probing
<1>3. CASE ProbeSelect \/ ProbeError
  <2>1. Settled /\ Probing /\ apc \notin {"off", "failed"}
    BY <1>3 DEF ProbeSelect, ProbeError, pciVars, Settled, Probing
  <2>2. CASE NextProbe(devs)
    <3>1. Exists(Probed) => Drive(Probed).kind = "other" \/ (UNCHANGED probe /\ Probing')
      <4>1. CASE ProbeSelect
        BY <4>1 DEF ProbeSelect, Probing
      <4>2. CASE ProbeError
        <5>1. apc = "identify" /\ drive[Probed].st = "err"
          BY <4>2 DEF ProbeError, IdentifyFailed
        <5>2. Looking(Probed) /\ drive[Probed].what = "identify"
          BY <2>1, <5>1, ProbedExists DEF ProbeInv, Looking
        <5>3. Drive(Probed).kind \in {"ata", "atapi", "other"} /\ Drive(Probed).kind # "ata"
          BY <5>1, <5>2, ProbedExists, DriveFacts DEF AtaTypes, Looking
        <5> QED
          BY <4>2, <5>3 DEF ProbeError, Probing
      <4> QED
        BY <1>3, <4>1, <4>2
    <3> QED
      BY <2>1, <2>2, <3>1, PassedFound, SettledFound
  <2>3. CASE ~NextProbe(devs)
    <3>1. UNCHANGED probe /\ Probing'
      BY <1>3, <2>3 DEF ProbeSelect, ProbeError, Probing
    <3> QED
      BY <2>1, <3>1, SettledFound
  <2> QED
    BY <2>2, <2>3
<1>4. CASE ProbeIdent
  BY <1>4, AddedFound
<1>5. CASE AtaInit
  <2>1. devs' = <<>> /\ apc' \in {"select", "failed"} /\ probe' = <<1, 0>> /\ AtaTypes'
    BY <1>5, AtaInitTyped
  <2> SUFFICES ASSUME apc' = "select" PROVE FoundInv'
    BY <2>1 DEF FoundInv
  <2>2. \A c \in DOMAIN chans', u \in {0, 1} : ~LookedAt(c, u)'
    <3>1. \A c \in DOMAIN chans' : c \in Nat /\ c >= 1
      <4>1. DOMAIN chans' = 1 .. 2 * NumDevice("ide")'
        BY <2>1 DEF AtaTypes
      <4>2. NumDevice("ide")' \in Nat
        <5>1. NumDevice("ide")' = NumDevice("ide")
          BY <1>5 DEF AtaInit, pciVars, NumDevice, OfKind, Header
        <5> QED
          BY <5>1, ControllersCounted, PciConstants DEF AtaTypes
      <4> QED
        BY <4>1, <4>2
    <3> QED
      BY <2>1, <3>1 DEF LookedAt, Probing, Sooner
  <2>3. DOMAIN devs' = {} /\ Len(devs') = 0 /\ Probing'
    BY <2>1 DEF Probing
  <2>4. Len(devs') <= 2 * (probe'[1] - 1) + probe'[2]
    BY <2>1, <2>3
  <2>5. DOMAIN chans' # {}
    <3>1. NumDevice("ide") > 0 /\ NumDevice("ide") \in Nat
      BY <1>5, <2>1, ControllersCounted, PciConstants DEF AtaInit, AtaTypes
    <3>2. DOMAIN chans' = 1 .. 2 * NumDevice("ide")
      BY <1>5 DEF AtaInit
    <3> QED
      BY <3>1, <3>2
  <2> QED
    BY <2>2, <2>3, <2>4, <2>5 DEF FoundInv
<1>6. CASE PciStep /\ UNCHANGED ataVars
  BY <1>6, PciTyped DEF FoundInv
<1>7. CASE \E d \in AllDrives : DriveAnswer(d)
  BY <1>7, DriveTyped, SettledFound DEF Probing
<1> QED
  BY <1>1, <1>2, <1>3, <1>4, <1>5, <1>6, <1>7 DEF DriverStep, AtaStep

-----------------------------------------------------------------------------
(* Reads *)

LEMMA Joined ==
  ASSUME NEW m \in Nat, NEW z \in Nat, NEW X, NEW g \in [1 .. m + z -> X],
         NEW a, a = [k \in 1 .. m |-> g[k]],
         NEW b, b = [k \in 1 .. z |-> g[m + k]]
  PROVE  a \o b = g
<1>1. a \in Seq(X) /\ Len(a) = m
  BY Z3
<1>2. b \in Seq(X) /\ Len(b) = z
  OBVIOUS
<1>3. a \o b = [k \in 1 .. Len(a) + Len(b) |-> IF k <= Len(a) THEN a[k] ELSE b[k - Len(a)]]
  BY <1>1, <1>2
<1>4. ASSUME NEW k \in 1 .. m + z
      PROVE  (IF k <= m THEN a[k] ELSE b[k - m]) = g[k]
  <2>1. CASE k <= m
    BY <2>1
  <2>2. CASE ~(k <= m)
    <3>1. k - m \in 1 .. z /\ m + (k - m) = k
      BY <2>2
    <3> QED
      BY <2>2, <3>1
  <2> QED
    BY <2>1, <2>2
<1> QED
  BY <1>1, <1>2, <1>3, <1>4

\* A read begins.
LEMMA RequestRead ==
  ASSUME AtaTypes, NEW idx \in DOMAIN devs, NEW lba \in Nat, NEW len \in Nat,
         Request(idx, lba, len)
  PROVE  ReadInv'
<1> DEFINE e == devs[idx]
           d == DriveOf(idx)
           sectors == (len + e.size - 1) \div e.size
<1>1. /\ e \in DevEntries /\ sectors \in Nat
      /\ LbaSent(e, lba) \in Nat /\ CountSent(e, sectors) \in Nat \ {0}
  BY RequestTyped
<1>2. d \in AllDrives /\ Drive(d).sector \in Nat \ {0}
  <2>1. d \in DOMAIN machine.drives /\ machine \in Machines
    BY DEF AtaTypes
  <2> QED
    BY <2>1, DriveFacts
<1>3. UNCHANGED <<machine, chans, devs>> /\ apc' \in {"read", "no_memory"}
  BY DEF Request, pciVars
<1>0. PICK taken \in Takes(d) :
        /\ taken \in BOOLEAN
        /\ req' = [NoReq EXCEPT !.idx = idx, !.lba = lba, !.len = len,
                                !.sectors = sectors, !.taken = taken]
        /\ taken => drive'[d] = [st |-> "busy", what |-> "read", lba |-> LbaSent(e, lba),
                                 left |-> CountSent(e, sectors), off |-> 0]
        /\ ignored' = IF taken THEN ignored ELSE ignored \union {d}
  BY RequestFacts, Zenon
<1>4. /\ req'.idx = idx /\ req'.lba = lba /\ req'.len = len /\ req'.sectors = sectors
      /\ req'.done = 0 /\ req'.got = <<>> /\ req'.ok = FALSE /\ req'.taken = taken
      /\ DOMAIN req' = DOMAIN NoReq
  BY <1>0 DEF NoReq
<1>5. taken => drive'[d] = [st |-> "busy", what |-> "read", lba |-> LbaSent(e, lba),
                            left |-> CountSent(e, sectors), off |-> 0]
  BY <1>0
<1>6. /\ DriveOf(req.idx)' = d /\ Drive(d)' = Drive(d)
      /\ Drive(DriveOf(req.idx))' = Drive(d)
  BY <1>3, <1>4 DEF DriveOf, Drive
<1>7. ToldLba' = LbaSent(e, lba) /\ ToldCount' = CountSent(e, sectors)
  BY <1>3, <1>4 DEF ToldLba, ToldCount
<1>8. TakenSoFar' = 0 /\ 0 \div Drive(d).sector = 0 /\ 0 % Drive(d).sector = 0
  <2>1. e.size \in Nat
    BY <1>1 DEF DevEntries
  <2>2. 0 * e.size = 0
    BY <2>1
  <2>3. \A m \in Nat \ {0} : 0 \div m = 0 /\ 0 % m = 0
    OBVIOUS
  <2> QED
    BY <1>2, <1>3, <1>4, <2>2, <2>3 DEF TakenSoFar
<1>9. ReqTypes'
  <2> HIDE DEF sectors
  <2>1. 0 \in 0 .. sectors /\ FALSE \in BOOLEAN
    BY <1>1
  <2> QED
    BY <1>0, <1>3, <1>4, <2>1 DEF ReqTypes, sectors
<1>10. taken => CountInv' /\ KindInv'
  <2> HIDE DEF d, sectors
  <2> QED
    BY <1>1, <1>4, <1>5, <1>6, <1>7 DEF CountInv, KindInv
<1>11. taken => DriveInStep'
  <2> HIDE DEF d, sectors
  <2>1. taken => drive'[d].lba = LbaSent(e, lba) + 0 /\ drive'[d].off = 0
    BY <1>1, <1>5
  <2>2. /\ TakenSoFar' \div Drive(DriveOf(req.idx))'.sector = 0
        /\ TakenSoFar' % Drive(DriveOf(req.idx))'.sector = 0
    BY <1>6, <1>8
  <2> QED
    BY <1>6, <1>7, <2>1, <2>2 DEF DriveInStep
<1>12. GotInv'
  BY <1>4, <1>8 DEF GotInv
<1>13. req'.taken = taken /\ (~taken => DriveOf(req.idx)' \in ignored')
  BY <1>0, <1>4, <1>6
<1> HIDE DEF d, e, sectors
<1> QED
  BY <1>3, <1>9, <1>10, <1>11, <1>12, <1>13 DEF ReadInv, Reading

\* The drive answers.
LEMMA ReadAnswered ==
  ASSUME AtaTypes, ReadInv, NEW d \in AllDrives, DriveAnswer(d)
  PROVE  ReadInv'
<1>1. /\ UNCHANGED <<apc, req, chans, devs, machine, ignored>>
      /\ \A e \in AllDrives \ {d} : drive'[e] = drive[e]
      /\ drive'[d] = [drive[d] EXCEPT !.st = drive'[d].st]
      /\ \/ drive[d].st = "busy" /\ drive'[d].st \in Answers(d)
         \/ drive[d].st = "slow" /\ drive'[d].st = "drq"
  BY AnswerTyped, DriveTyped DEF Settled, DriveAnswer, history
<1>2. /\ DriveOf(req.idx)' = DriveOf(req.idx) /\ ToldLba' = ToldLba /\ ToldCount' = ToldCount
      /\ \A e : Drive(e)' = Drive(e)
      /\ TakenSoFar' = TakenSoFar /\ (Fits' <=> Fits) /\ (ReqTypes' <=> ReqTypes)
      /\ (GotInv' <=> GotInv)
  BY <1>1 DEF DriveOf, ToldLba, ToldCount, Drive, TakenSoFar, Fits, ReqTypes, GotInv, UnitAt
<1>3. ASSUME apc = "read", req.taken
      PROVE  CountInv' /\ KindInv' /\ (Fits => DriveInStep')
  <2>1. DriveOf(req.idx) \in AllDrives /\ drive[DriveOf(req.idx)] \in DriveStates
    BY <1>3, ReadDrive DEF ReadInv, Reading
  <2>2. CountInv /\ KindInv /\ (Fits => DriveInStep)
    BY <1>3 DEF ReadInv
  <2>3. CASE d # DriveOf(req.idx)
    <3>1. drive'[DriveOf(req.idx)] = drive[DriveOf(req.idx)]
      BY <1>1, <2>1, <2>3
    <3> QED
      BY <1>1, <1>2, <2>2, <3>1 DEF CountInv, KindInv, DriveInStep
  <2>4. CASE d = DriveOf(req.idx)
    <3>1. /\ drive'[d].what = drive[d].what /\ drive'[d].lba = drive[d].lba
          /\ drive'[d].left = drive[d].left /\ drive'[d].off = drive[d].off
      BY <1>1, <2>1, <2>4 DEF DriveStates
    <3>2. drive[d] # Idle
      BY <1>1 DEF Idle
    <3>3. /\ drive[d].what = "read" /\ drive[d].left >= 1 /\ drive[d].left + req.done >= ToldCount
          /\ devs[req.idx].size >= Drive(d).sector => drive[d].left + req.done <= ToldCount
      BY <2>2, <2>4, <3>2 DEF CountInv
    <3>4. drive'[d].st # "idle" /\ (drive'[d].st \in {"drq", "slow"} => Drive(d).kind = "ata")
      BY <1>1, <2>2, <2>4, <3>3 DEF KindInv, Answers
    <3>5. CountInv'
      BY <1>1, <1>2, <2>4, <3>1, <3>3, <3>4 DEF CountInv
    <3>6. KindInv'
      BY <1>1, <1>2, <2>2, <2>4, <3>4 DEF KindInv
    <3>7. Fits => DriveInStep'
      BY <1>1, <1>2, <2>2, <2>4, <3>1, <3>2 DEF DriveInStep
    <3> QED
      BY <3>5, <3>6, <3>7
  <2> QED
    BY <2>3, <2>4
<1> QED
  BY <1>1, <1>2, <1>3 DEF ReadInv, Reading

\* The units that a ready drive gives are those that follow in the read, and it goes
\* on behind them.
LEMMA UnitsTaken ==
  ASSUME AtaTypes, EntriesInv, ReqTypes, CountInv, DriveInStep, Fits, GotInv,
         drive[DriveOf(req.idx)].st = "drq"
  PROVE  LET d == DriveOf(req.idx)
             z == devs[req.idx].size
             s == AfterTaking(d, z)
             next == (req.done + 1) * z
         IN /\ req.got \o Taken(d, z) = [k \in 1 .. next |-> UnitAt(k)]
            /\ s # Idle => /\ s.lba = ToldLba + (next \div Drive(d).sector)
                           /\ s.off = next % Drive(d).sector
<1> DEFINE d == DriveOf(req.idx)
           z == devs[req.idx].size
           sec == Drive(d).sector
           s == AfterTaking(d, z)
           n == req.done
           row == (n * z) \div sec
           off == (n * z) % sec
           next == (n + 1) * z
<1>1. /\ sec \in Nat \ {0} /\ z \in Nat \ {0} /\ n \in Nat /\ z <= sec /\ sec % z = 0
      /\ ToldLba \in Nat /\ drive[d] \in DriveStates
  <2>1. d \in DOMAIN machine.drives /\ machine \in Machines
    BY DEF AtaTypes, ReqTypes
  <2>2. /\ sec \in Nat \ {0} /\ z \in Nat \ {0} /\ ToldLba \in Nat /\ drive[d] \in DriveStates
        /\ req.sectors \in Nat
    BY ReadDrive
  <2>3. n \in Nat /\ z <= sec
    BY <2>2 DEF ReqTypes, Fits
  <2>4. sec % z = 0
    <3>1. z = Drive(d).size
      BY DEF EntriesInv, TrueEntry, ReqTypes, Fits
    <3>2. Drive(d).size <= Drive(d).sector => Drive(d).sector % Drive(d).size = 0
      BY <2>1, DriveFacts
    <3> HIDE DEF d, z
    <3> QED
      BY <2>3, <3>1, <3>2
  <2> QED
    BY <2>2, <2>3, <2>4
<1>2. /\ row \in Nat /\ off \in 0 .. sec - 1 /\ n * z = row * sec + off
      /\ off + z <= sec
      /\ off + z < sec => next \div sec = row /\ next % sec = off + z
      /\ off + z = sec => next \div sec = row + 1 /\ next % sec = 0
  <2> HIDE DEF sec, z, n
  <2> QED
    BY <1>1, StepsInRows, ZenonT(60)
<1>3. /\ drive[d].st = "drq" /\ drive[d].what = "read"
      /\ drive[d].lba = ToldLba + row /\ drive[d].off = off
  BY DEF DriveInStep, CountInv, Idle, TakenSoFar
<1>4. s # Idle => s.lba = ToldLba + (next \div sec) /\ s.off = next % sec
  <2> HIDE DEF d, z, sec, n, row, off, next
  <2>1. CASE off + z < sec
    <3>1. s = [drive[d] EXCEPT !.off = off + z]
      BY <1>3, <2>1 DEF AfterTaking, s, sec
    <3>2. s.lba = ToldLba + row /\ s.off = off + z
      BY <1>1, <1>3, <3>1 DEF DriveStates
    <3> QED
      BY <1>2, <2>1, <3>2
  <2>2. CASE off + z = sec
    <3>1. s = IF drive[d].left > 1
              THEN [drive[d] EXCEPT !.st = "busy", !.lba = @ + 1, !.left = @ - 1, !.off = 0]
              ELSE Idle
      BY <1>1, <1>3, <2>2 DEF AfterTaking, s, sec
    <3>2. s # Idle => s.lba = (ToldLba + row) + 1 /\ s.off = 0
      BY <1>1, <1>3, <3>1 DEF DriveStates
    <3>3. (ToldLba + row) + 1 = ToldLba + (row + 1)
      BY <1>1, <1>2
    <3> QED
      BY <1>2, <2>2, <3>2, <3>3
  <2> QED
    BY <1>1, <1>2, <2>1, <2>2
<1> DEFINE m == n * z
           Following(k) == UnitAt(m + k)
<1>5. m \in Nat /\ next = m + z
  <2> HIDE DEF z, n
  <2> QED
    BY <1>1
<1>6. ASSUME NEW k \in 1 .. z PROVE UnitAt(m + k) = <<d, ToldLba + row, off + k - 1>>
  <2>1. off + k - 1 \in 0 .. sec - 1
    <3> HIDE DEF d, z, sec, n, row, off
    <3> QED
      BY <1>1, <1>2
  <2>2. (row * sec + (off + k - 1)) \div sec = row /\ (row * sec + (off + k - 1)) % sec = off + k - 1
    <3> HIDE DEF d, z, sec, n, row, off
    <3>1. row \in Int /\ sec \in Nat \ {0}
      BY <1>1, <1>2
    <3> QED
      BY <2>1, <3>1, Division
  <2>3. m + k - 1 = row * sec + (off + k - 1)
    <3>1. row * sec \in Int
      <4> HIDE DEF row, sec
      <4> QED
        BY <1>1, <1>2
    <3> DEFINE a == row * sec
    <3> HIDE DEF d, z, sec, n, row, off, a, m
    <3>2. m = a + off
      BY <1>2 DEF a, m
    <3> QED
      BY <1>2, <1>5, <3>1, <3>2 DEF a
  <2>4. UnitAt(m + k) = <<d, ToldLba + ((m + k - 1) \div sec), (m + k - 1) % sec>>
    <3>1. k \in Int
      BY <1>1
    <3> HIDE DEF m
    <3> QED
      BY <1>5, <3>1 DEF UnitAt
  <2> HIDE DEF d, z, sec, n, row, off, m
  <2> QED
    BY <2>2, <2>3, <2>4
<1>7. Taken(d, z) = [k \in 1 .. z |-> <<d, ToldLba + row, off + k - 1>>]
  <2>1. ASSUME NEW k \in 1 .. z PROVE drive[d].off + k <= sec
    <3> HIDE DEF d, z, sec, n, row, off
    <3> QED
      BY <1>1, <1>2, <1>3
  <2> HIDE DEF d, z, n, row, off
  <2> QED
    BY <1>3, <2>1 DEF Taken
<1>8. req.got = [k \in 1 .. m |-> UnitAt(k)]
  BY DEF GotInv, TakenSoFar
<1>9. req.got \o Taken(d, z) = [k \in 1 .. m + z |-> UnitAt(k)]
  <2> DEFINE g == [k \in 1 .. m + z |-> UnitAt(k)]
             X == {UnitAt(k) : k \in 1 .. m + z}
  <2>1. g \in [1 .. m + z -> X]
    OBVIOUS
  <2> HIDE DEF d, z, sec, n, row, off, m, X
  <2>2. req.got = [k \in 1 .. m |-> g[k]]
    <3>1. \A k \in 1 .. m : k \in 1 .. m + z
      BY <1>1, <1>5
    <3> QED
      BY <1>8, <3>1
  <2>3. Taken(d, z) = [k \in 1 .. z |-> g[m + k]]
    <3>1. \A k \in 1 .. z : m + k \in 1 .. m + z
      BY <1>1, <1>5
    <3> QED
      BY <1>6, <1>7, <3>1
  <2> HIDE DEF g
  <2>4. req.got \o Taken(d, z) = g
    BY <1>1, <1>5, <2>1, <2>2, <2>3, Joined
  <2> QED
    BY <2>4 DEF g
<1> HIDE DEF m
<1> QED
  BY <1>4, <1>5, <1>9

\* A sector is taken.
LEMMA ReadTakes ==
  ASSUME AtaTypes, EntriesInv, ReadInv, ReadSector
  PROVE  ReadInv'
<1> DEFINE d == DriveOf(req.idx)
           z == devs[req.idx].size
           s == drive[d]
           t == AfterTaking(d, z)
<1>1. /\ UNCHANGED <<machine, chans, devs>> /\ apc = "read" /\ apc' = "read"
      /\ req.done < req.sectors /\ s.st = "drq"
      /\ req' = [req EXCEPT !.done = @ + 1, !.got = @ \o Taken(d, z)]
      /\ drive' = [drive EXCEPT ![d] = t] /\ UNCHANGED ignored
  BY DEF ReadSector, ReadFrame, pciVars
<1>2. /\ ReqTypes
      /\ req.taken => CountInv /\ KindInv /\ (Fits => DriveInStep /\ GotInv)
      /\ ~req.taken => d \in ignored
  BY <1>1 DEF ReadInv, Reading
<1>3. /\ d \in AllDrives /\ s \in DriveStates /\ z \in Nat \ {0}
      /\ req.sectors \in Nat /\ ToldCount \in Nat \ {0}
  BY <1>2, ReadDrive
<1>4. drive'[d] = t
  BY <1>1, <1>3 DEF AtaTypes
<1>5. /\ req'.idx = req.idx /\ req'.lba = req.lba /\ req'.len = req.len
      /\ req'.sectors = req.sectors /\ req'.ok = req.ok /\ req'.taken = req.taken
      /\ req'.done = req.done + 1 /\ req'.got = req.got \o Taken(d, z)
      /\ DOMAIN req' = DOMAIN req
  <2>1. {"idx", "lba", "len", "sectors", "taken", "done", "got", "ok"} \subseteq DOMAIN req
    BY <1>2 DEF ReqTypes, NoReq
  <2> QED
    BY <1>1, <2>1
<1>6. /\ DriveOf(req.idx)' = d /\ Drive(DriveOf(req.idx))' = Drive(d)
      /\ ToldLba' = ToldLba /\ ToldCount' = ToldCount
      /\ TakenSoFar' = (req.done + 1) * z /\ (Fits' <=> Fits)
      /\ \A k : UnitAt(k)' = UnitAt(k)
  BY <1>1, <1>5 DEF DriveOf, Drive, ToldLba, ToldCount, TakenSoFar, Fits, UnitAt
<1>7. ReqTypes'
  <2>1. req.done + 1 \in 0 .. req.sectors
    BY <1>1, <1>2, <1>3 DEF ReqTypes
  <2> QED
    BY <1>1, <1>2, <1>5, <2>1 DEF ReqTypes
<1>8. ASSUME req.taken
      PROVE  /\ s.what = "read" /\ s.left >= 1 /\ s.left + req.done >= ToldCount
             /\ z >= Drive(d).sector => s.left + req.done <= ToldCount
             /\ Drive(d).kind = "ata" /\ req.done \in Nat /\ s.left \in Nat
  BY <1>1, <1>2, <1>3, <1>8 DEF CountInv, KindInv, Idle, ReqTypes, DriveStates
<1>9. ASSUME req.taken
      PROVE  \/ /\ t.st # "idle" /\ t.what = "read" /\ t.left >= 1
                /\ t.left + (req.done + 1) >= ToldCount
                /\ z >= Drive(d).sector => t.left + (req.done + 1) <= ToldCount
             \/ t = Idle /\ req.done + 1 >= ToldCount
  <2>0. Drive(d).sector \in Nat /\ s.off \in Nat
    BY <1>2, <1>3, ReadDrive DEF DriveStates
  <2>1. CASE s.off + z < Drive(d).sector
    <3>1. t = [s EXCEPT !.off = s.off + z]
      BY <1>1, <2>1 DEF AfterTaking, t
    <3>2. t.st = s.st /\ t.what = s.what /\ t.left = s.left
      BY <1>3, <3>1 DEF DriveStates
    <3>3. ~(z >= Drive(d).sector)
      BY <1>3, <2>0, <2>1
    <3> QED
      BY <1>1, <1>3, <1>8, <1>9, <3>2, <3>3
  <2>2. CASE ~(s.off + z < Drive(d).sector) /\ s.left > 1
    <3>1. t = [s EXCEPT !.st = "busy", !.lba = s.lba + 1, !.left = s.left - 1, !.off = 0]
      BY <1>1, <2>2 DEF AfterTaking, t
    <3>2. t.st = "busy" /\ t.what = s.what /\ t.left = s.left - 1
      BY <1>3, <3>1 DEF DriveStates
    <3> QED
      BY <1>1, <1>3, <1>8, <1>9, <2>2, <3>2
  <2>3. CASE ~(s.off + z < Drive(d).sector) /\ ~(s.left > 1)
    <3>1. t = Idle
      BY <1>1, <2>3 DEF AfterTaking, t
    <3> QED
      BY <1>3, <1>8, <1>9, <2>3, <3>1
  <2> QED
    BY <2>1, <2>2, <2>3
<1>10. ASSUME req.taken PROVE CountInv' /\ KindInv'
  <2>1. drive[DriveOf(req.idx)]' = t
    BY <1>4, <1>6
  <2>2. CountInv'
    <3>1. devs'[req'.idx].size = z
      BY <1>1, <1>5
    <3> QED
      BY <1>3, <1>5, <1>6, <1>8, <1>9, <1>10, <2>1, <3>1 DEF CountInv
  <2>3. KindInv'
    BY <1>6, <1>8, <1>10 DEF KindInv
  <2> QED
    BY <2>2, <2>3
<1>11. ASSUME Fits, req.taken PROVE DriveInStep' /\ GotInv'
  <2>1. /\ req.got \o Taken(d, z) = [k \in 1 .. (req.done + 1) * z |-> UnitAt(k)]
        /\ t # Idle => /\ t.lba = ToldLba + (((req.done + 1) * z) \div Drive(d).sector)
                       /\ t.off = ((req.done + 1) * z) % Drive(d).sector
    BY <1>1, <1>2, <1>11, UnitsTaken DEF t
  <2> DEFINE next == (req.done + 1) * z
  <2> HIDE DEF next
  <2>2. GotInv'
    BY <1>5, <1>6, <2>1 DEF GotInv, next
  <2>3. drive[DriveOf(req.idx)]' = t
    BY <1>4, <1>6
  <2>4. DriveInStep'
    BY <1>6, <2>1, <2>3 DEF DriveInStep, next
  <2> QED
    BY <2>2, <2>4
<1>12. /\ apc' = "read" /\ req'.taken = req.taken
       /\ ~req.taken => DriveOf(req.idx)' \in ignored'
  BY <1>1, <1>2, <1>5, <1>6
<1> HIDE DEF d, z, s, t
<1> QED
  BY <1>6, <1>7, <1>10, <1>11, <1>12, SMTT(30) DEF ReadInv, Reading

\* A read ends.
LEMMA ReadEnds ==
  ASSUME AtaTypes, ReadInv, ReadFails \/ ReadReturns
  PROVE  ReadInv'
<1>1. /\ UNCHANGED <<machine, chans, devs, drive, ignored>>
      /\ apc = "read" /\ apc' = "answered"
  BY DEF ReadFails, ReadReturns, ReadFrame, pciVars
<1>2. /\ ReqTypes /\ (req.taken => CountInv /\ KindInv /\ (Fits => GotInv))
      /\ ~req.taken => DriveOf(req.idx) \in ignored
  BY <1>1, SMTT(60) DEF ReadInv, Reading
<1>3. \E ok \in BOOLEAN, cause \in {req.cause, drive[DriveOf(req.idx)].st} :
        req' = [req EXCEPT !.ok = ok, !.cause = cause]
  <2>1. CASE ReadFails
    BY <2>1 DEF ReadFails
  <2>2. CASE ReadReturns
    <3>1. req' = [req EXCEPT !.ok = TRUE] /\ "cause" \in DOMAIN req
      BY <1>2, <2>2 DEF ReadReturns, ReqTypes, NoReq
    <3>2. req' = [req EXCEPT !.ok = TRUE, !.cause = req.cause]
      BY <3>1
    <3> QED
      BY <3>2
  <2> QED
    BY <2>1, <2>2
<1>4. /\ req'.idx = req.idx /\ req'.lba = req.lba /\ req'.len = req.len
      /\ req'.sectors = req.sectors /\ req'.ok \in BOOLEAN /\ req'.taken = req.taken
      /\ req'.done = req.done /\ req'.got = req.got /\ DOMAIN req' = DOMAIN req
  BY <1>2, <1>3 DEF ReqTypes, NoReq
<1>5. /\ DriveOf(req.idx)' = DriveOf(req.idx)
      /\ Drive(DriveOf(req.idx))' = Drive(DriveOf(req.idx))
      /\ ToldCount' = ToldCount /\ TakenSoFar' = TakenSoFar /\ (Fits' <=> Fits)
      /\ \A k : UnitAt(k)' = UnitAt(k)
  BY <1>1, <1>4 DEF DriveOf, Drive, ToldLba, ToldCount, TakenSoFar, Fits, UnitAt
<1>6. ReqTypes' /\ (GotInv' <=> GotInv)
  BY <1>1, <1>2, <1>4, <1>5 DEF ReqTypes, GotInv
<1>7. req'.ok => /\ req'.done = req'.sectors
                 /\ req.taken /\ req'.sectors > 0 => Drive(DriveOf(req.idx))'.kind = "ata"
  <2>1. req'.ok => req.done = req.sectors
    <3>1. CASE ReadFails
      <4>1. ~req'.ok
        BY <1>2, <3>1 DEF ReadFails, ReqTypes, NoReq
      <4> QED
        BY <4>1
    <3>2. CASE ReadReturns
      BY <3>2 DEF ReadReturns
    <3> QED
      BY <3>1, <3>2
  <2>2. req.taken /\ req.done > 0 => Drive(DriveOf(req.idx)).kind = "ata"
    BY <1>2 DEF KindInv
  <2> QED
    BY <1>4, <1>5, <2>1, <2>2
<1>8. ~req'.ok => \/ req'.cause \in {"err", "fault", "slow"}
                  \/ req'.cause = "idle" /\ (ToldCount' # req'.sectors \/ ~req.taken)
  <2>1. CASE ReadFails
    <3>1. /\ req'.cause = drive[DriveOf(req.idx)].st /\ req.done < req.sectors
          /\ drive[DriveOf(req.idx)].st \in {"err", "fault", "slow", "idle"}
      BY <1>2, <2>1 DEF ReadFails, PollFails, ReqTypes, NoReq
    <3>2. req.taken /\ drive[DriveOf(req.idx)].st = "idle" => req.done >= ToldCount
      BY <1>2 DEF CountInv
    <3>3. ToldCount \in Nat /\ req.sectors \in Nat /\ req.done \in Int
      BY <1>2, ReadDrive DEF ReqTypes
    <3> QED
      BY <1>4, <1>5, <3>1, <3>2, <3>3
  <2>2. CASE ReadReturns
    <3>1. req'.ok
      BY <1>2, <2>2 DEF ReadReturns, ReqTypes, NoReq
    <3> QED
      BY <3>1
  <2> QED
    BY <2>1, <2>2
<1>9. ~req.taken => DriveOf(req.idx)' \in ignored'
  BY <1>1, <1>2, <1>5
<1> QED
  BY <1>1, <1>2, <1>4, <1>5, <1>6, <1>7, <1>8, <1>9 DEF ReadInv, Reading

LEMMA ReadInductive ==
  ASSUME AtaTypes, ProbeInv, FreshInv, EntriesInv, ReadInv, DriverStep
  PROVE  ReadInv'
<1>1. ASSUME ~Reading' PROVE ReadInv'
  BY <1>1 DEF ReadInv, Reading
<1>2. CASE Calls
  <2>1. CASE UNCHANGED <<pciVars, ataVars>>
    <3>1. UNCHANGED <<machine, chans, devs, apc, drive, req, ignored>>
      BY <2>1 DEF pciVars, ataVars, history
    <3> QED
      BY <3>1, ZenonT(60) DEF ReadInv, Reading, ReqTypes, CountInv, KindInv, DriveInStep, GotInv, Fits,
                  TakenSoFar, ToldLba, ToldCount, DriveOf, Drive, UnitAt
  <2>2. CASE \E idx \in DOMAIN devs, lba \in Nat, len \in Nat : Request(idx, lba, len)
    BY <2>2, RequestRead
  <2>3. CASE apc' = "ready"
    BY <1>1, <2>3 DEF Reading
  <2>4. \/ UNCHANGED <<pciVars, ataVars>> \/ apc' = "ready"
        \/ \E idx \in DOMAIN devs, lba \in Nat, len \in Nat : Request(idx, lba, len)
    BY <1>2 DEF Calls
  <2> QED
    BY <2>1, <2>2, <2>3, <2>4, SMTT(60)
<1>3. CASE AtaStep
  <2>1. CASE AtaInit \/ ProbeSelect \/ ProbeError \/ ProbeIdent
    BY <1>1, <2>1, AtaInitTyped, ProbeTyped DEF Reading
  <2> QED
    BY <1>3, <2>1, ReadTakes, ReadEnds DEF AtaStep
<1>4. CASE PciStep /\ UNCHANGED ataVars
  BY <1>1, <1>4, PciTyped DEF Reading
<1> QED
  BY <1>2, <1>3, <1>4, ReadAnswered DEF DriverStep

-----------------------------------------------------------------------------
(* The drives that are left in the middle of a command *)

\* A drive is not told of more sectors than there are to read, unless of none.
LEMMA CountFits ==
  ASSUME NEW e, NEW sectors \in Nat \ {0}
  PROVE  CountSent(e, sectors) <= sectors
<1>1. PICK wrap \in Nat \ {0} :
        CountSent(e, sectors) = IF sectors % wrap = 0 THEN wrap ELSE sectors % wrap
  <2>1. CountWrap * CountWrap \in Nat \ {0}
    <3>1. \A m \in Nat \ {0} : m * m \in Nat \ {0}
      OBVIOUS
    <3> QED
      BY <3>1, AtaConstants
  <2> QED
    BY <2>1, AtaConstants DEF CountSent
<1>2. \A m \in Nat \ {0} : sectors % m <= sectors /\ (sectors < m => sectors % m = sectors)
  OBVIOUS
<1> QED
  BY <1>1, <1>2

LEMMA BehindRead ==
  ASSUME AtaTypes, ReadInv, BehindInv, ReadSector \/ ReadFails \/ ReadReturns
  PROVE  BehindInv'
<1> DEFINE d == DriveOf(req.idx)
<1>1. apc = "read" /\ UNCHANGED <<chans, devs, probe, ignored, machine>>
  BY DEF ReadSector, ReadFails, ReadReturns, ReadFrame, pciVars
<1>2. ReqTypes /\ (req.taken => CountInv) /\ (~req.taken => d \in ignored)
  BY <1>1 DEF ReadInv, Reading
<1>3. d \in AllDrives /\ req.sectors \in Nat /\ drive[d] \in DriveStates
  BY <1>2, ReadDrive
<1>4. /\ ignored \subseteq behind
      /\ \A x \in AllDrives : x \in behind \/ x = d \/ Resting(x)
  BY <1>1 DEF BehindInv, InUse
<1>5. CASE ReadSector
  <2>1. apc' = "read" /\ UNCHANGED behind
    BY <1>5 DEF ReadSector
  <2>2. DriveOf(req.idx)' = d
    <3>1. req'.idx = req.idx
      BY <1>2, <1>5 DEF ReadSector, ReqTypes, NoReq
    <3> QED
      BY <1>1, <3>1 DEF DriveOf
  <2>3. \A x \in AllDrives : x # d => drive'[x] = drive[x]
    BY <1>3, <1>5 DEF ReadSector, AtaTypes
  <2> QED
    BY <1>1, <1>4, <2>1, <2>2, <2>3 DEF BehindInv, InUse, Resting
<1>6. CASE ReadFails \/ ReadReturns
  <2>1. apc' = "answered" /\ UNCHANGED drive /\ behind \subseteq behind'
    BY <1>6 DEF ReadFails, ReadReturns
  <2>2. Resting(d) \/ d \in behind'
    <3>1. CASE ReadFails
      BY <3>1 DEF ReadFails, PollFails, Resting
    <3>2. CASE ReadReturns /\ ~LeavesBehind(req.idx, req.sectors) /\ req.taken
      <4>1. /\ req.done = req.sectors /\ req.sectors \in Nat \ {0}
            /\ ~(devs[req.idx].size < Drive(d).sector)
        BY <1>3, <3>2 DEF ReadReturns, LeavesBehind
      <4>2. ToldCount <= req.sectors /\ ToldCount \in Nat
        BY <1>2, <4>1, CountFits, ReadDrive DEF ToldCount
      <4>3. devs[req.idx].size >= Drive(d).sector
        BY <1>2, <4>1, ReadDrive
      <4>4. drive[d].st # "idle" =>
              drive[d].left >= 1 /\ drive[d].left + req.done <= ToldCount
        BY <1>2, <3>2, <4>3 DEF CountInv, Idle
      <4>5. drive[d].left \in Nat
        BY <1>3 DEF DriveStates
      <4> QED
        BY <4>1, <4>2, <4>4, <4>5 DEF Resting
    <3>3. CASE ReadReturns /\ LeavesBehind(req.idx, req.sectors)
      BY <3>3 DEF ReadReturns
    <3>4. CASE ~req.taken
      BY <1>2, <1>4, <2>1, <3>4
    <3> QED
      BY <1>6, <3>1, <3>2, <3>3, <3>4
  <2>3. \A x : Resting(x)' <=> Resting(x)
    BY <2>1 DEF Resting
  <2> QED
    BY <1>1, <1>4, <2>1, <2>2, <2>3 DEF BehindInv
<1> QED
  BY <1>5, <1>6

LEMMA BehindProbe ==
  ASSUME AtaTypes, BehindInv, ProbeSelect \/ ProbeError \/ ProbeIdent
  PROVE  BehindInv'
<1>1. Probing /\ UNCHANGED <<machine, chans>> /\ behind \subseteq behind'
  BY DEF ProbeSelect, ProbeError, ProbeIdent, MayReadIdent, Probing, pciVars
<1>2. /\ ignored \subseteq behind /\ drive \in [AllDrives -> DriveStates]
      /\ \A x \in AllDrives : x \in behind \/ InUse(x) \/ Resting(x)
      /\ \A x : InUse(x) => x = Probed /\ apc \in {"identify", "packet"}
  BY <1>1 DEF BehindInv, InUse, AtaTypes, Probing
<1>3. \A x \in AllDrives \ {Probed} : drive'[x] = drive[x]
  BY <1>2 DEF ProbeSelect, ProbeError, ProbeIdent, Commanded
<1>4. \A x \in AllDrives \ {Probed} : x \in behind' \/ Resting(x)'
  BY <1>1, <1>2, <1>3 DEF Resting
<1>6. CASE ProbeSelect
  <2>1. apc = "select" /\ UNCHANGED behind
    BY <1>6 DEF ProbeSelect
  <2>2. CASE Exists(Probed)
    <3>1. PICK taken \in Takes(Probed) : Commanded(Probed, taken, "identify", 0, 1)
      BY <1>6, <2>2 DEF ProbeSelect
    <3>2. Probed \in AllDrives
      BY <2>2, DriveFacts DEF AtaTypes, Exists
    <3>3. taken \in BOOLEAN /\ (~taken => Probed \in behind)
      BY <1>2, <2>1, <3>2 DEF Takes, Resting
    <3>4. ignored' \subseteq behind'
      BY <1>2, <2>1, <3>1, <3>3 DEF Commanded
    <3>5. apc' = "identify" /\ Probed' = Probed
      BY <1>1, <1>6, <2>2 DEF ProbeSelect, Probed
    <3> QED
      BY <1>4, <3>4, <3>5 DEF BehindInv, InUse
  <2>3. CASE ~Exists(Probed)
    <3>1. UNCHANGED <<drive, ignored>>
      BY <1>6, <2>3 DEF ProbeSelect
    <3>2. \A x \in AllDrives : x \in behind' \/ Resting(x)'
      BY <1>2, <2>1, <3>1 DEF Resting
    <3> QED
      BY <1>2, <2>1, <3>1, <3>2 DEF BehindInv
  <2> QED
    BY <2>2, <2>3
<1>7. CASE ProbeError
  <2>1. apc = "identify" /\ drive[Probed].st = "err" /\ UNCHANGED <<behind, ignored>>
    BY <1>7 DEF ProbeError, IdentifyFailed, Commanded
  <2>2. CASE Drive(Probed).kind = "atapi"
    <3>1. UNCHANGED probe /\ apc' = "packet"
      BY <1>7, <2>2 DEF ProbeError
    <3>2. Probed' = Probed
      BY <1>1, <3>1 DEF Probed
    <3> QED
      BY <1>2, <1>4, <2>1, <3>1, <3>2 DEF BehindInv, InUse
  <2>3. CASE Drive(Probed).kind # "atapi"
    <3>1. UNCHANGED drive
      BY <1>7, <2>3 DEF ProbeError
    <3>2. \A x \in AllDrives : x \in behind' \/ Resting(x)'
      BY <1>2, <2>1, <3>1 DEF Resting
    <3> QED
      BY <1>2, <2>1, <3>2 DEF BehindInv
  <2> QED
    BY <2>2, <2>3
<1>9. CASE ProbeIdent
  <2>1. UNCHANGED ignored /\ Probed \in AllDrives
    BY <1>9, ProbedExists DEF ProbeIdent, MayReadIdent
  <2>2. Probed \in behind' \/ drive'[Probed] = Idle
    BY <1>2, <1>9, <2>1 DEF ProbeIdent
  <2>3. \A x \in AllDrives : x \in behind' \/ Resting(x)'
    BY <1>4, <2>2 DEF Resting, Idle
  <2> QED
    BY <1>1, <1>2, <2>1, <2>3 DEF BehindInv
<1> QED
  BY <1>6, <1>7, <1>9

LEMMA BehindInductive ==
  ASSUME AtaTypes, ProbeInv, ReadInv, BehindInv, DriverStep
  PROVE  BehindInv'
<1>1. CASE Calls
  <2>1. CASE UNCHANGED <<pciVars, ataVars>>
    BY <2>1 DEF pciVars, ataVars, history, BehindInv, InUse, Resting, Probed, DriveOf
  <2>2. ASSUME apc \in {"ready", "answered"}
        PROVE  \A x \in AllDrives : x \in behind \/ Resting(x)
    BY <2>2 DEF BehindInv, InUse
  <2>3. CASE \E idx \in DOMAIN devs, lba \in Nat, len \in Nat :
               apc \in {"ready", "answered"} /\ Request(idx, lba, len)
    <3>1. PICK idx \in DOMAIN devs, lba \in Nat, len \in Nat :
            apc \in {"ready", "answered"} /\ Request(idx, lba, len)
      BY <2>3
    <3> DEFINE d == DriveOf(idx)
    <3>2. PICK taken \in Takes(d) :
            /\ taken \in BOOLEAN /\ req'.idx = idx
            /\ \A x \in AllDrives \ {d} : drive'[x] = drive[x]
            /\ ignored' = IF taken THEN ignored ELSE ignored \union {d}
            /\ d \in AllDrives /\ UNCHANGED behind
      <4>1. PICK taken \in Takes(d) :
              /\ taken \in BOOLEAN
              /\ req' = [NoReq EXCEPT !.idx = idx, !.lba = lba, !.len = len,
                          !.sectors = (len + devs[idx].size - 1) \div devs[idx].size,
                          !.taken = taken]
              /\ \A x \in AllDrives \ {d} : drive'[x] = drive[x]
              /\ ignored' = IF taken THEN ignored ELSE ignored \union {d}
              /\ d \in AllDrives /\ UNCHANGED behind
        BY <3>1, RequestFacts, Zenon
      <4>2. req'.idx = idx
        BY <4>1 DEF NoReq
      <4> HIDE DEF d
      <4> QED
        BY <4>1, <4>2
    <3>3. /\ apc' \in {"read", "no_memory"} /\ DriveOf(req.idx)' = d
      BY <3>1, <3>2 DEF Request, DriveOf
    <3> HIDE DEF d
    <3>4. ~taken => d \in behind
      BY <2>2, <3>1, <3>2 DEF Takes, Resting
    <3>5. ignored' \subseteq behind'
      BY <3>2, <3>4 DEF BehindInv
    <3>6. ASSUME apc' = "read", NEW x \in AllDrives PROVE x \in behind' \/ InUse(x)' \/ Resting(x)'
      <4>1. CASE x = d
        BY <3>3, <3>6, <4>1 DEF InUse
      <4>2. CASE x # d
        BY <2>2, <3>1, <3>2, <3>6, <4>2 DEF Resting
      <4> QED
        BY <4>1, <4>2
    <3> QED
      BY <3>3, <3>5, <3>6 DEF BehindInv
  <2>4. CASE apc = "answered" /\ apc' = "ready" /\ UNCHANGED <<drive, history>>
    BY <2>2, <2>4 DEF history, BehindInv, Resting
  <2> QED
    BY <1>1, <2>1, <2>3, <2>4 DEF Calls
<1>2. CASE ReadSector \/ ReadFails \/ ReadReturns
  BY <1>2, BehindRead
<1>3. CASE ProbeSelect \/ ProbeError \/ ProbeIdent
  BY <1>3, BehindProbe
<1>4. CASE AtaInit
  <2>1. /\ apc = "off" /\ apc' \in {"select", "failed"} /\ UNCHANGED <<drive, behind, ignored>>
    BY <1>4, AtaInitTyped DEF AtaInit, history
  <2> QED
    BY <2>1 DEF BehindInv, InUse, Resting
<1>5. CASE PciStep /\ UNCHANGED ataVars
  BY <1>5 DEF ataVars, history, BehindInv, InUse, Resting, Probed, DriveOf
<1>6. CASE \E d \in AllDrives : DriveAnswer(d)
  <2>1. PICK d \in AllDrives : DriveAnswer(d)
    BY <1>6
  <2>2. UNCHANGED <<apc, probe, req, chans, devs, behind, ignored>>
    BY <2>1 DEF DriveAnswer, history
  <2>3. ~Resting(d) /\ \A x \in AllDrives \ {d} : drive'[x] = drive[x]
    BY <2>1, AnswerTyped DEF Resting
  <2>4. \A x : InUse(x)' <=> InUse(x)
    BY <2>2 DEF InUse, Probed, DriveOf
  <2> QED
    BY <2>1, <2>2, <2>3, <2>4 DEF BehindInv, Resting
<1> QED
  BY <1>1, <1>2, <1>3, <1>4, <1>5, <1>6 DEF DriverStep, AtaStep

-----------------------------------------------------------------------------
(* The whole *)

Inv ==
  /\ Types /\ ProbeInv /\ FreshInv /\ EntriesInv /\ FoundInv
  /\ TablesInv /\ ReadInv /\ BehindInv

LEMMA TablesInductive ==
  ASSUME Types, TablesInv, ProbeInv, FreshInv, Reading => ReqTypes, [Next]_vars
  PROVE  TablesInv'
<1>1. DriverStep
  BY NextPlaces
<1>2. CASE GptStep
  <2>1. Settled
    BY <1>2, GptCalls, CallsTyped DEF Types
  <2>2. past' \in {past, past \union {"parts"}} \/ past' = IF Len(devs) > DiskSlots THEN {"tables"} ELSE {}
    BY <1>2 DEF GptStep, GptInit, ReadMbr, MbrRead, HeaderRead, ArrayRead, GptDone, GiveUp, GptFrame
  <2> QED
    BY <2>1, <2>2 DEF TablesInv, Settled
<1>3. CASE UNCHANGED past /\ Settled
  BY <1>3 DEF TablesInv, Settled
<1>4. CASE UNCHANGED past /\ gpt = "off"
  BY <1>4 DEF TablesInv, Types, GptPlaces
<1>5. UNCHANGED past \/ GptStep
  BY DEF Next, Main, ProgramRead, ProgramAnswered, DriveStep, vars, gptVars
<1>6. Settled \/ gpt = "off"
  <2>1. apc \in {"off", "select", "identify", "packet"} => gpt = "off"
    BY DEF Types, GptPlaces
  <2>2. CASE AtaStep
    <3>1. CASE ReadSector \/ ReadFails \/ ReadReturns
      BY <3>1, ReadTyped DEF Types, ReadSector, ReadFails, ReadReturns, Reading
    <3> QED
      BY <2>1, <2>2, <3>1 DEF AtaStep, AtaInit, ProbeSelect, ProbeError, ProbeIdent, MayReadIdent
  <2> QED
    BY <1>1, <2>1, <2>2, CallsTyped, PciTyped, DriveTyped DEF DriverStep, Types
<1> QED
  BY <1>2, <1>3, <1>4, <1>5, <1>6

LEMMA InvInductive == Inv /\ [Next]_vars => Inv'
<1> SUFFICES ASSUME Inv, [Next]_vars PROVE Inv'
  OBVIOUS
<1>1. /\ Types /\ AtaTypes /\ ProbeInv /\ FreshInv /\ EntriesInv /\ FoundInv
      /\ TablesInv /\ ReadInv /\ BehindInv
      /\ Reading => ReqTypes
  BY DEF Inv, Types, ReadInv
<1>2. GptPlaces' /\ DriverStep
  BY <1>1, NextPlaces
<1>3. AtaTypes'
  BY <1>1, <1>2, StepTyped
<1>4. ProbeInv' /\ FreshInv' /\ EntriesInv' /\ FoundInv'
  BY <1>1, <1>2, ProbeInductive, FreshInductive, EntriesInductive, FoundInductive
<1>5. TablesInv' /\ ReadInv' /\ BehindInv'
  BY <1>1, <1>2, TablesInductive, ReadInductive, BehindInductive
<1> QED
  BY <1>2, <1>3, <1>4, <1>5 DEF Inv, Types

LEMMA InvInitially == Init => Inv
<1> SUFFICES ASSUME Init PROVE Inv
  OBVIOUS
<1>1. Types
  BY InitTypes
<1>2. apc = "off" /\ devs = <<>> /\ past = {}
  BY DEF Init, AtaBoot, GptBoot
<1>3. FreshInv /\ EntriesInv /\ FoundInv /\ TablesInv /\ ReadInv
  BY <1>2 DEF FreshInv, Probing, EntriesInv, FoundInv, TablesInv, ReadInv, Reading
<1>4. \A d \in AllDrives : drive[d] = Idle
  BY DEF Init, AtaBoot
<1>5. ProbeInv /\ BehindInv
  BY <1>2, <1>4 DEF Init, AtaBoot, ProbeInv, Probing, BehindInv, Resting, Idle
<1> QED
  BY <1>1, <1>3, <1>5 DEF Inv

\* The list of drives, once it is made, has those that can be used and no others.
LEMMA ListExact ==
  ASSUME Inv, apc \in {"ready", "read", "answered"}
  PROVE  {DriveOf(i) : i \in DOMAIN devs} =
           {d \in DOMAIN machine.drives :
              d[1] = GetDevice("ide", 0) /\ Drive(d).kind # "other"}
<1>1. /\ AtaTypes /\ EntriesInv /\ machine \in Machines
      /\ apc \notin {"off", "failed"} /\ ~Probing
  BY DEF Inv, Types, AtaTypes, Probing
<1>2. /\ NumDevice("ide") \in Nat /\ DOMAIN chans = 1 .. 2 * NumDevice("ide")
      /\ \A c \in DOMAIN chans : chans[c] = <<Controller, (c - 1) % 2>>
  BY <1>1, ChannelFacts
<1>3. /\ DOMAIN chans # {}
      /\ \A c \in DOMAIN chans, u \in {0, 1} :
           LET d == Place(c, u) IN
           LookedAt(c, u) /\ Exists(d) /\ Drive(d).kind # "other" =>
             \E i \in DOMAIN devs : devs[i].chan = c /\ devs[i].slave = u
  BY <1>1 DEF Inv, FoundInv
<1>4. ASSUME NEW i \in DOMAIN devs
      PROVE  /\ DriveOf(i) \in DOMAIN machine.drives
             /\ DriveOf(i)[1] = GetDevice("ide", 0) /\ Drive(DriveOf(i)).kind # "other"
  <2>1. devs[i].chan \in DOMAIN chans /\ DriveOf(i) \in DOMAIN machine.drives
    BY <1>1 DEF AtaTypes
  <2>2. DriveOf(i)[1] = Controller
    BY <1>2, <2>1 DEF DriveOf
  <2> QED
    BY <1>1, <2>1, <2>2 DEF EntriesInv, TrueEntry, Controller
<1>5. ASSUME NEW d \in DOMAIN machine.drives,
             d[1] = GetDevice("ide", 0), Drive(d).kind # "other"
      PROVE  \E i \in DOMAIN devs : DriveOf(i) = d
  <2>1. d = <<d[1], d[2], d[3]>> /\ d[2] \in {0, 1} /\ d[3] \in {0, 1}
    BY <1>1, DriveFacts
  <2>2. PICK c \in DOMAIN chans : (c - 1) % 2 = d[2]
    <3>1. NumDevice("ide") > 0
      BY <1>2, <1>3
    <3>2. 2 * NumDevice("ide") >= 2 /\ 2 * NumDevice("ide") \in Nat
      BY <1>2, <3>1
    <3> DEFINE at == d[2] + 1
    <3>3. at \in DOMAIN chans /\ (at - 1) % 2 = d[2]
      BY <1>2, <2>1, <3>2
    <3> HIDE DEF at
    <3> QED
      BY <3>3
  <2>3. chans[c] = <<Controller, (c - 1) % 2>>
    BY <1>2, <2>2
  <2>4. chans[c][1] = d[1] /\ chans[c][2] = d[2]
    BY <1>5, <2>2, <2>3 DEF Controller
  <2>5. Place(c, d[3]) = d
    BY <2>1, <2>4 DEF Place
  <2>6. LookedAt(c, d[3]) /\ Exists(d)
    BY <1>1, <1>5 DEF LookedAt, Exists
  <2>7. PICK i \in DOMAIN devs : devs[i].chan = c /\ devs[i].slave = d[3]
    <3>1. c \in DOMAIN chans /\ d[3] \in {0, 1}
      BY <2>1, <2>2
    <3>2. Exists(Place(c, d[3])) /\ Drive(Place(c, d[3])).kind # "other"
      BY <1>5, <2>5, <2>6
    <3> QED
      BY <1>3, <2>6, <3>1, <3>2
  <2> QED
    BY <2>5, <2>7 DEF DriveOf, Place
<1> QED
  BY <1>4, <1>5

\* Every drive that answers has its entries, in the order of the channels; the list is
\* longer than the reader's tables only with several controllers.
THEOREM ListsDrives == Spec => []DrivesExact
<1>1. ASSUME Inv PROVE DrivesExact
  <2> SUFFICES ASSUME apc \in {"ready", "read", "answered"} PROVE DrivesExact
    BY DEF DrivesExact
  <2>1. AtaTypes /\ EntriesInv /\ apc \notin {"off", "failed"} /\ ~Probing
    BY <1>1 DEF Inv, Types, Probing
  <2>2. /\ NumDevice("ide") \in Nat /\ DOMAIN chans = 1 .. 2 * NumDevice("ide")
        /\ Len(chans) = 2 * NumDevice("ide")
        /\ \A c \in DOMAIN chans : chans[c] = <<Controller, (c - 1) % 2>>
    BY <2>1, ChannelFacts
  <2>3. ASSUME NumDevice("ide") = 1, NEW i \in DOMAIN devs, NEW j \in DOMAIN devs, i < j
        PROVE  LET a == DriveOf(i) b == DriveOf(j)
               IN a[2] < b[2] \/ (a[2] = b[2] /\ a[3] < b[3])
    <3>1. Sooner(devs[i].chan, devs[i].slave, devs[j].chan, devs[j].slave)
      BY <1>1, <2>1, <2>3 DEF Inv, FoundInv
    <3>2. ASSUME NEW k \in DOMAIN devs
          PROVE  /\ DriveOf(k)[2] = devs[k].chan - 1 /\ DriveOf(k)[3] = devs[k].slave
                 /\ devs[k].chan \in 1 .. 2
      <4>1. devs[k].chan \in DOMAIN chans
        BY <2>1 DEF AtaTypes
      <4>2. devs[k].chan \in 1 .. 2
        BY <2>2, <2>3, <4>1
      <4>3. \A c \in 1 .. 2 : (c - 1) % 2 = c - 1
        OBVIOUS
      <4> QED
        BY <2>2, <4>1, <4>2, <4>3 DEF DriveOf
    <3> QED
      BY <3>1, <3>2 DEF Sooner
  <2>4. "tables" \in past => NumDevice("ide") > 1
    <3>1. Len(devs) <= 2 * Len(chans)
      BY <1>1, <2>1 DEF Inv, FoundInv
    <3>2. "tables" \in past => Len(devs) > 4
      <4>1. Len(devs) \in Nat
        BY <2>1 DEF AtaTypes
      <4> QED
        BY <1>1, <4>1, GptConstants DEF Inv, TablesInv
    <3>3. Len(devs) \in Nat
      BY <2>1 DEF AtaTypes
    <3> QED
      BY <2>2, <3>1, <3>2, <3>3
  <2>5. \A i \in DOMAIN devs :
          /\ devs[i].atapi => Drive(DriveOf(i)).kind = "atapi"
          /\ NumDevice("ide") = 1 => devs[i].atapi = (Drive(DriveOf(i)).kind = "atapi")
          /\ devs[i].ident \/ devs[i].atapi
    BY <2>1 DEF EntriesInv, TrueEntry
  <2> QED
    BY <1>1, <2>3, <2>4, <2>5, ListExact DEF DrivesExact
<1> QED
  BY <1>1, InvInitially, InvInductive, PTL DEF Spec

LEMMA BufferRight ==
  ASSUME Inv, apc = "answered", req.ok, req.taken, Fits,
         Nameable(devs[req.idx], req.lba, req.len)
  PROVE  LET d == DriveOf(req.idx)
             sec == Drive(d).sector
         IN Buffer = [k \in 1 .. req.len |-> <<d, req.lba + ((k - 1) \div sec), (k - 1) % sec>>]
<1> DEFINE e == devs[req.idx]
           d == DriveOf(req.idx)
           sec == Drive(d).sector
<1>1. AtaTypes /\ ReqTypes /\ GotInv /\ req.done = req.sectors
  BY DEF Inv, Types, ReadInv, Reading
<1>2. /\ e.size \in Nat \ {0} /\ req.sectors \in Nat /\ sec \in Nat \ {0}
      /\ req.lba \in Nat /\ req.len \in Nat
      /\ req.sectors = (req.len + e.size - 1) \div e.size
  BY <1>1, ReadDrive DEF ReqTypes
<1>3. req.len <= req.sectors * e.size
  <2> DEFINE z == e.size
             q == req.sectors
  <2> HIDE DEF z, q
  <2>1. PICK r \in 0 .. z - 1 : req.len + z - 1 = q * z + r
    <3>1. req.len + z - 1 \in Int /\ z \in Nat \ {0}
      BY <1>2 DEF z
    <3>2. q = (req.len + z - 1) \div z
      BY <1>2 DEF z, q
    <3> QED
      BY <3>1, <3>2, QuotientOfInt
  <2>2. q * z \in Int
    BY <1>2 DEF z, q
  <2> QED
    BY <1>2, <2>1, <2>2 DEF z, q
<1>4. Buffer = [k \in 1 .. req.len |-> <<d, req.lba + ((k - 1) \div sec), (k - 1) % sec>>]
  <2> DEFINE all == req.sectors * e.size
  <2>1. req.got = [k \in 1 .. all |-> UnitAt(k)]
    BY <1>1 DEF GotInv, TakenSoFar
  <2>2. all \in Nat /\ req.len <= all
    <3>1. \A i, j \in Nat : i * j \in Nat
      OBVIOUS
    <3> QED
      BY <1>2, <1>3, <3>1
  <2>3. ASSUME NEW k \in 1 .. req.len
        PROVE  (IF k <= Len(req.got) THEN req.got[k] ELSE Garbage)
                 = <<d, req.lba + ((k - 1) \div sec), (k - 1) % sec>>
    <3> HIDE DEF all
    <3>1. Len(req.got) = all
      BY <2>1, <2>2
    <3>2. k \in 1 .. all
      BY <1>2, <2>2
    <3>3. req.got[k] = UnitAt(k)
      BY <2>1, <3>2
    <3>4. ToldLba = req.lba
      <4>1. Lbas(e) \in Nat \ {0}
        BY AtaConstants DEF Lbas
      <4>2. req.lba \in 0 .. Lbas(e) - 1
        <5>1. req.lba + req.len <= Lbas(e) /\ req.len >= 1
          BY <1>2, <2>2 DEF Nameable
        <5> QED
          BY <1>2, <4>1, <5>1
      <4>3. \A m \in Nat \ {0} : \A l \in 0 .. m - 1 : l % m = l
        OBVIOUS
      <4> QED
        BY <4>1, <4>2, <4>3 DEF ToldLba, LbaSent
    <3> QED
      BY <2>2, <3>1, <3>2, <3>3, <3>4 DEF UnitAt
  <2> QED
    BY <2>3 DEF Buffer
<1> QED
  BY <1>4

LEMMA ReadIsRight ==
  ASSUME Inv
  PROVE  ReadRight
<1>1. ignored \subseteq behind
  BY DEF Inv, BehindInv
<1>2. ASSUME apc = "answered", ~req.ok
      PROVE  \/ req.cause \in {"err", "fault", "slow"}
             \/ req.cause = "idle" /\ (ToldCount # req.sectors \/ ~req.taken)
  BY <1>2 DEF Inv, ReadInv, Reading
<1> QED
  BY <1>1, <1>2, BufferRight DEF ReadRight, Fits, ToldCount

\* A read that the drive heeded and that is answered with success has the units that were
\* asked for, in order; a failure has a cause; and only a drive that was left in the
\* middle of a command can fail to heed the next.
THEOREM ReadsAreRight == Spec => []ReadRight
BY ReadIsRight, InvInitially, InvInductive, PTL DEF Spec

-----------------------------------------------------------------------------
(* The partitions *)

\* A read that succeeded is one of an ATA drive, and so of one that was waited for.
LEMMA ReadFits ==
  ASSUME Inv, apc = "answered", req.ok, Heeded(req.idx), req.len > 0
  PROVE  req.taken /\ Fits
<1>1. /\ AtaTypes /\ EntriesInv /\ ReqTypes
      /\ ~req.taken => DriveOf(req.idx) \in ignored
      /\ req.taken /\ req.sectors > 0 => Drive(DriveOf(req.idx)).kind = "ata"
  BY DEF Inv, Types, ReadInv, Reading
<1>2. req.taken /\ Whole(req.idx)
  BY <1>1 DEF Heeded
<1>3. req.sectors > 0
  <2>1. devs[req.idx].size \in Nat \ {0} /\ req.len \in Nat \ {0}
    BY <1>1, ReadDrive DEF ReqTypes
  <2>2. req.sectors = (req.len + devs[req.idx].size - 1) \div devs[req.idx].size
    BY <1>1 DEF ReqTypes
  <2>3. \A a, b \in Nat \ {0} : (a + b - 1) \div b > 0
    OBVIOUS
  <2> QED
    BY <2>1, <2>2, <2>3
<1>4. req.idx \in DOMAIN devs
  BY <1>1 DEF ReqTypes
<1>5. devs[req.idx].ident
  BY <1>1, <1>2, <1>3, <1>4 DEF EntriesInv, TrueEntry
<1> QED
  BY <1>2, <1>5 DEF Fits, Whole

\* The first unit of the disk is what is taken for it.
LEMMA ProtectiveTrue ==
  ASSUME Inv, GptInv, gpt = "mbr", apc = "answered", req.ok, Heeded(disk),
         NEW protective \in Protective
  PROVE  protective = DiskOf(disk).mbr
<1>1. req.idx = disk /\ req.len = 1 /\ req.lba = 0
  BY DEF GptInv, GptStages
<1>2. req.taken /\ Fits
  BY <1>1, ReadFits
<1> DEFINE d == DriveOf(disk)
           sec == Drive(d).sector
<1>3. Nameable(devs[req.idx], req.lba, req.len)
  <2>1. Lbas(devs[disk]) \in Nat \ {0}
    BY AtaConstants DEF Lbas
  <2> QED
    BY <1>1, <2>1 DEF Nameable
<1>4. sec \in Nat \ {0}
  BY <1>1, ReadDrive DEF Inv, Types, ReadInv, Reading
<1>5. Buffer = [k \in 1 .. 1 |-> <<d, 0 + ((k - 1) \div sec), (k - 1) % sec>>]
  BY <1>1, <1>2, <1>3, BufferRight
<1>6. Buffer[1] = <<d, 0, 0>>
  <2> HIDE DEF d, sec
  <2>1. (1 - 1) \div sec = 0 /\ (1 - 1) % sec = 0
    BY <1>4
  <2> QED
    BY <1>5, <2>1
<1> QED
  BY <1>6 DEF Protective

\* A slot of a part of the array that was read is what the disk has there.
LEMMA SlotTrue ==
  ASSUME Inv, GptInv, gpt = "array", apc = "answered", req.ok, Named(disk), Heeded(disk),
         NEW k \in 1 .. DiskOf(disk).count
  PROVE  SlotRead(k) = DiskOf(disk).slots[k] /\ SlotRead(k) # Unknown
<1> DEFINE d == DriveOf(disk)
           on == DiskOf(disk)
           sec == Drive(d).sector
           j == (k - 1) \div PerUnit
           r == (k - 1) % PerUnit
<1>1. AtaTypes /\ ReqTypes
  BY DEF Inv, Types, ReadInv, Reading
<1>2. /\ req.idx = disk /\ req.lba = on.array /\ req.len = ArrayUnits(on.count)
      /\ disk \in DOMAIN devs
  BY <1>1 DEF GptInv, GptStages, ReqTypes
<1>3. d \in DOMAIN machine.drives /\ machine \in Machines
  BY <1>1, <1>2 DEF AtaTypes
<1>4. /\ on.array \in Nat /\ on.count \in Nat /\ on.slots \in Seq(Nat) /\ on.count <= Len(on.slots)
      /\ sec \in Nat \ {0}
  <2>1. Drive(d).disk = on
    BY DEF DiskOf
  <2> QED
    BY <1>3, <2>1, DiskFacts, DriveFacts
<1>5. /\ ArrayUnits(on.count) \in Nat /\ ArrayUnits(on.count) <= on.count
      /\ j \in Nat /\ r \in Nat /\ j + 1 <= ArrayUnits(on.count) /\ k = j * PerUnit + r + 1
  <2> HIDE DEF on
  <2>1. PerUnit \in Nat \ {0}
    BY GptConstants
  <2>2. k \in 1 .. on.count
    BY DEF on
  <2> QED
    BY <1>4, <2>1, <2>2, Packets DEF ArrayUnits
<1>6. req.taken /\ Fits
  <2>1. req.len > 0
    BY <1>2, <1>5
  <2> QED
    BY <1>2, <2>1, ReadFits
<1>7. Nameable(devs[req.idx], req.lba, req.len)
  BY <1>2 DEF Named
<1>8. Buffer = [n \in 1 .. req.len |-> <<d, req.lba + ((n - 1) \div sec), (n - 1) % sec>>]
  BY <1>2, <1>6, <1>7, BufferRight
<1> DEFINE u == Buffer[j + 1]
<1>9. u = <<d, on.array + (j \div sec), j % sec>>
  <2> HIDE DEF d, on, sec, j
  <2>1. j + 1 \in 1 .. req.len /\ (j + 1) - 1 = j
    BY <1>2, <1>5
  <2> QED
    BY <1>2, <1>8, <2>1
<1>10. ((u[2] - on.array) * sec + u[3]) * PerUnit + r + 1 = k
  <2> HIDE DEF d, on, sec, j, r, u
  <2>1. u[2] = on.array + (j \div sec) /\ u[3] = j % sec
    BY <1>9
  <2>2. j \div sec \in Nat /\ j % sec \in Nat /\ j = (j \div sec) * sec + (j % sec)
    <3>1. j \div sec \in Nat /\ j % sec \in 0 .. sec - 1 /\ j = (j \div sec) * sec + (j % sec)
      BY <1>4, <1>5, Quotient
    <3> QED
      BY <1>4, <3>1
  <2>3. u[2] - on.array = j \div sec
    <3> DEFINE q == j \div sec
               a == on.array
    <3>1. u[2] = a + q /\ a \in Nat /\ q \in Nat
      BY <1>4, <2>1, <2>2
    <3> HIDE DEF a, q
    <3>2. u[2] - a = q
      BY <3>1
    <3> QED
      BY <3>2 DEF a, q
  <2>4. (u[2] - on.array) * sec + u[3] = j
    BY <2>1, <2>2, <2>3
  <2> QED
    BY <1>5, <2>4
<1>11. u # Garbage /\ u[1] = d
  <2> HIDE DEF d, on, sec, j
  <2> QED
    BY <1>9 DEF Garbage
<1>12. k \in DOMAIN on.slots /\ on.slots[k] \in Nat
  <2> HIDE DEF on
  <2>1. k \in 1 .. on.count
    BY DEF on
  <2> QED
    BY <1>4, <2>1
<1>13. SlotRead(k) = IF u = Garbage \/ k \notin DOMAIN on.slots THEN Unknown ELSE on.slots[k]
  <2>1. Drive(u[1]) = Drive(d) /\ Drive(d).disk = on
    BY <1>11 DEF DiskOf
  <2>2. Drive(u[1]).disk.array = on.array /\ Drive(u[1]).disk.slots = on.slots
    BY <2>1
  <2> QED
    BY <1>10, <2>1, <2>2 DEF SlotRead
<1> HIDE DEF u, on
<1> QED
  BY <1>11, <1>12, <1>13 DEF Unknown, on

\* Steps after which all that is said of the drives stays as it was.
LEMMA SettledParts ==
  ASSUME Settled, ignored \subseteq ignored'
  PROVE  /\ UNCHANGED devs
         /\ \A i : /\ DiskOf(i)' = DiskOf(i)
                   /\ (Named(i)' <=> Named(i)) /\ (Heeded(i)' => Heeded(i))
<1>1. UNCHANGED <<devs, machine, chans>>
  BY DEF Settled
<1>2. \A i : DiskOf(i)' = DiskOf(i) /\ DriveOf(i)' = DriveOf(i) /\ (Named(i)' <=> Named(i))
  BY <1>1 DEF DiskOf, Named, Nameable, Lbas, Drive, DriveOf
<1>3. \A i : Heeded(i)' => Heeded(i)
  BY <1>1, <1>2 DEF Heeded, Whole, Drive
<1> QED
  BY <1>1, <1>2, <1>3

LEMMA PartsKept ==
  ASSUME Settled, ignored \subseteq ignored', UNCHANGED <<parts, count>>, NEW i, TrueParts(i)
  PROVE  TrueParts(i)'
<1>1. DiskOf(i)' = DiskOf(i) /\ (Named(i)' <=> Named(i)) /\ (Heeded(i)' => Heeded(i))
  BY SettledParts
<1>2. NonEmpty(parts[i])' = NonEmpty(parts[i])
  BY DEF NonEmpty
<1> QED
  BY <1>1, <1>2 DEF TrueParts

\* Before a drive's array is read nothing is known of its partitions.
LEMMA NoPartsYet ==
  ASSUME NEW i, parts[i] = <<>>, TrueParts(i)
  PROVE  count[i] = 0
<1>1. NonEmpty(parts[i]) = {}
  BY DEF NonEmpty
<1> QED
  BY <1>1, FS_EmptySet DEF TrueParts

LEMMA PartsStart ==
  ASSUME Types, GptInit
  PROVE  GptInv'
<1>1. /\ parts' = [i \in 1 .. Len(devs) |-> <<>>] /\ count' = [i \in 1 .. Len(devs) |-> 0]
      /\ gpt' \in {"next", "damaged"} /\ UNCHANGED devs /\ DOMAIN devs = 1 .. Len(devs)
  BY DEF GptInit, ataVars, Types, AtaTypes
<1>2. ASSUME NEW i \in DOMAIN devs' PROVE TrueParts(i)' /\ parts'[i] = <<>>
  <2>1. parts'[i] = <<>> /\ count'[i] = 0
    BY <1>1, <1>2
  <2>2. NonEmpty(parts'[i]) = {}
    BY <2>1 DEF NonEmpty
  <2>3. \E n \in Nat : DOMAIN parts'[i] = 1 .. n
    <3>1. DOMAIN parts'[i] = 1 .. 0 /\ 0 \in Nat
      BY <2>1
    <3> QED
      BY <3>1
  <2>4. count'[i] = Cardinality(NonEmpty(parts'[i]))
    BY <2>1, <2>2, FS_EmptySet
  <2> QED
    BY <2>1, <2>3, <2>4 DEF TrueParts
<1> QED
  BY <1>1, <1>2 DEF GptInv, GptStages

LEMMA SubSeqOfPrefix ==
  ASSUME NEW s \in Seq(Nat), NEW n \in Nat, n <= Len(s)
  PROVE  SubSeq(s, 1, n) = [k \in 1 .. n |-> s[k]]
  OBVIOUS

\* The parts of a drive after its array was read.
LEMMA PartsRead ==
  ASSUME Inv, GptInv, ArrayRead
  PROVE  GptInv'
<1> DEFINE on == DiskOf(disk)
<1>1. /\ gpt = "array" /\ apc = "answered" /\ gpt' \in {"next", "damaged"} /\ disk' = disk + 1
      /\ Settled /\ ignored \subseteq ignored'
      /\ disk \in DOMAIN devs /\ on.count \in Nat
      /\ on.slots \in Seq(Nat) /\ on.count <= Len(on.slots)
  <2>1. /\ gpt = "array" /\ apc = "answered" /\ gpt' \in {"next", "damaged"} /\ disk' = disk + 1
        /\ Settled /\ ignored \subseteq ignored' /\ AtaTypes
    BY DEF ArrayRead, Answered, Settled, pciVars, history, Inv, Types
  <2>2. disk \in DOMAIN devs
    BY <2>1 DEF Inv, Types, GptPlaces
  <2>3. DriveOf(disk) \in DOMAIN machine.drives /\ machine \in Machines
    BY <2>1, <2>2 DEF AtaTypes
  <2> QED
    BY <2>1, <2>2, <2>3, DiskFacts DEF DiskOf
<1>2. /\ DOMAIN parts = DOMAIN devs /\ DOMAIN count = DOMAIN devs
      /\ \A i \in DOMAIN devs : TrueParts(i)
      /\ \A i \in DOMAIN devs : i >= disk => parts[i] = <<>>
      /\ on.sign /\ (Heeded(disk) => on.mbr)
  BY <1>1 DEF GptInv
<1>3. DOMAIN devs = 1 .. Len(devs) /\ Len(devs) \in Nat
  BY DEF Inv, Types, AtaTypes
<1>4. /\ \A i \in DOMAIN devs : i # disk => parts'[i] = parts[i] /\ count'[i] = count[i]
      /\ DOMAIN parts' = DOMAIN parts /\ DOMAIN count' = DOMAIN count
      /\ UNCHANGED devs
  BY <1>1, <1>2 DEF ArrayRead, Settled
<1>5. ASSUME NEW i \in DOMAIN devs, i # disk PROVE TrueParts(i)'
  <2>1. parts'[i] = parts[i] /\ count'[i] = count[i] /\ TrueParts(i)
    BY <1>2, <1>4, <1>5
  <2>2. NonEmpty(parts'[i]) = NonEmpty(parts[i])
    BY <2>1
  <2> QED
    BY <1>1, <2>1, <2>2, SettledParts DEF TrueParts
<1>6. ASSUME NEW p \in DOMAIN devs, p = disk PROVE TrueParts(p)'
  <2>1. CASE ~(req.ok /\ past = {})
    <3>1. UNCHANGED <<parts, count>>
      BY <2>1 DEF ArrayRead
    <3> QED
      BY <1>1, <1>2, <1>6, <3>1, PartsKept
  <2>2. CASE req.ok /\ past = {}
    <3>1. PICK junk \in {0, Unknown} :
            parts' = [parts EXCEPT ![disk] =
                        [k \in 1 .. on.count |-> IF SlotRead(k) = Unknown THEN junk ELSE SlotRead(k)]]
      BY <2>2 DEF ArrayRead
    <3>2. parts'[disk] = [k \in 1 .. on.count |-> IF SlotRead(k) = Unknown THEN junk ELSE SlotRead(k)]
      BY <1>1, <1>2, <3>1
    <3>3. count'[disk] = Cardinality(NonEmpty(parts'[disk]))
      <4>1. parts[disk] = <<>>
        BY <1>1, <1>2, <1>3
      <4>2. count[disk] = 0
        BY <1>1, <1>2, <4>1, NoPartsYet
      <4>3. count'[disk] = 0 + Cardinality(NonEmpty(parts'[disk]))
        BY <1>1, <1>2, <2>2, <4>2 DEF ArrayRead
      <4>4. Cardinality(NonEmpty(parts'[disk])) \in Nat
        <5>1. IsFiniteSet(1 .. on.count)
          BY <1>1, FS_Interval
        <5>2. NonEmpty(parts'[disk]) \subseteq 1 .. on.count
          BY <3>2 DEF NonEmpty
        <5> QED
          BY <5>1, <5>2, FS_Subset, FS_CardinalityType
      <4> QED
        BY <4>3, <4>4
    <3>4. ASSUME Named(disk), Heeded(disk) PROVE parts'[disk] = SubSeq(on.slots, 1, on.count)
      <4>1. ASSUME NEW k \in 1 .. on.count PROVE parts'[disk][k] = on.slots[k]
        <5>1. SlotRead(k) = on.slots[k] /\ SlotRead(k) # Unknown
          BY <1>1, <2>2, <3>4, SlotTrue
        <5> QED
          BY <3>2, <5>1
      <4>2. parts'[disk] = [k \in 1 .. on.count |-> on.slots[k]]
        <5>1. DOMAIN parts'[disk] = 1 .. on.count
          BY <3>2
        <5>2. parts'[disk] = [k \in DOMAIN parts'[disk] |-> parts'[disk][k]]
          BY <3>2
        <5> HIDE DEF on
        <5> QED
          BY <4>1, <5>1, <5>2
      <4> HIDE DEF on
      <4> QED
        BY <1>1, <4>2, SubSeqOfPrefix
    <3>5. DOMAIN parts'[disk] = 1 .. on.count
      BY <3>2
    <3>6. DiskOf(p)' = on /\ (Named(p)' <=> Named(p)) /\ (Heeded(p)' => Heeded(p))
      BY <1>1, <1>6, SettledParts
    <3>7. \E n \in Nat : DOMAIN parts'[p] = 1 .. n
      BY <1>1, <1>6, <3>5
    <3>8. count'[p] = Cardinality(NonEmpty(parts'[p]))
      BY <1>6, <3>3
    <3>9. Heeded(p)' /\ Named(p)' => parts'[p] = SubSeq(on.slots, 1, on.count)
      BY <1>6, <3>4, <3>6
    <3>10. NonEmpty(parts[p])' = NonEmpty(parts'[p])
      BY DEF NonEmpty
    <3>11. on.sign /\ (Heeded(p)' => on.mbr)
      BY <1>2, <1>6, <3>6
    <3> HIDE DEF on
    <3> QED
      BY <3>6, <3>7, <3>8, <3>9, <3>10, <3>11 DEF TrueParts
  <2> QED
    BY <2>1, <2>2
<1>7. ASSUME NEW i \in DOMAIN devs, i >= disk + 1 PROVE parts'[i] = <<>>
  BY <1>1, <1>2, <1>3, <1>4, <1>7
<1> QED
  BY <1>1, <1>2, <1>4, <1>5, <1>6, <1>7 DEF GptInv, GptStages

\* What has been found out stays, and so does the read at hand.
LEMMA GptKept ==
  ASSUME GptInv, Settled, ignored \subseteq ignored', UNCHANGED <<gpt, disk, parts, count>>,
         gpt \in GptStages =>
           req'.idx = req.idx /\ req'.lba = req.lba /\ req'.len = req.len
  PROVE  GptInv'
<1> SUFFICES ASSUME gpt # "off" PROVE GptInv'
  BY DEF GptInv
<1>1. UNCHANGED devs /\ \A i \in DOMAIN devs : TrueParts(i)'
  BY PartsKept, SettledParts DEF GptInv
<1>2. DiskOf(disk)' = DiskOf(disk) /\ (Heeded(disk)' => Heeded(disk))
  BY SettledParts
<1> QED
  BY <1>1, <1>2 DEF GptInv, GptStages

\* The next read for a drive.
LEMMA NextStage ==
  ASSUME GptInv, gpt # "off", UNCHANGED <<disk, parts, count>>,
         gpt' \in GptStages, NEW lba, NEW len, Request(disk, lba, len),
         gpt' \in {"mbr", "header"} => len = 1 /\ (gpt' = "mbr" => lba = 0),
         gpt' \in {"header", "array"} => (Heeded(disk) => DiskOf(disk).mbr),
         gpt' = "array" => /\ DiskOf(disk).sign
                           /\ lba = DiskOf(disk).array /\ len = ArrayUnits(DiskOf(disk).count)
  PROVE  GptInv'
<1>1. Settled /\ ignored \subseteq ignored'
      /\ req'.idx = disk /\ req'.lba = lba /\ req'.len = len
  BY DEF Request, Commanded, Settled, pciVars, NoReq
<1>2. \A i \in DOMAIN devs : TrueParts(i)'
  <2>1. \A i \in DOMAIN devs : TrueParts(i)
    BY DEF GptInv
  <2> QED
    BY <1>1, <2>1, PartsKept
<1>3. UNCHANGED devs /\ DiskOf(disk)' = DiskOf(disk) /\ (Heeded(disk)' => Heeded(disk))
  BY <1>1, SettledParts
<1> QED
  BY <1>1, <1>2, <1>3 DEF GptInv, GptStages

\* A drive that is no GPT drive is passed.
LEMMA GivenUp ==
  ASSUME Types, GptInv, gpt \in GptStages, GiveUp
  PROVE  GptInv'
<1>1. Settled /\ ignored \subseteq ignored'
      /\ gpt' = "next" /\ disk' = disk + 1 /\ UNCHANGED <<parts, count>>
  BY DEF GiveUp, Settled, pciVars, history
<1>2. UNCHANGED devs /\ \A i \in DOMAIN devs : TrueParts(i)'
  BY <1>1, PartsKept, SettledParts DEF GptInv, GptStages
<1>3. \A i \in DOMAIN devs : i >= disk + 1 => i >= disk
  <2>1. disk \in DOMAIN devs /\ DOMAIN devs = 1 .. Len(devs) /\ Len(devs) \in Nat
    BY DEF Types, AtaTypes, GptPlaces, GptStages
  <2> QED
    BY <2>1
<1> QED
  BY <1>1, <1>2, <1>3 DEF GptInv, GptStages

LEMMA GptInductive == Inv /\ GptInv /\ [Next]_vars => GptInv'
<1> SUFFICES ASSUME Inv, GptInv, [Next]_vars PROVE GptInv'
  OBVIOUS
<1>1. /\ Types /\ AtaTypes /\ ProbeInv /\ FreshInv /\ EntriesInv /\ GptPlaces /\ ReadInv
      /\ Reading => ReqTypes
  BY DEF Inv, Types, ReadInv
<1>2. CASE GptStep
  <2>1. CASE GptInit
    BY <1>1, <2>1, PartsStart
  <2>2. CASE ReadMbr
    <3>1. gpt = "next" /\ gpt' = "mbr" /\ UNCHANGED <<disk, parts, count>> /\ Request(disk, 0, 1)
      BY <2>2 DEF ReadMbr, GptFrame
    <3> QED
      BY <3>1, NextStage DEF GptStages
  <2>3. CASE MbrRead
    <3>1. CASE GiveUp
      BY <1>1, <2>3, <3>1, GivenUp DEF MbrRead, Answered, GptStages
    <3>2. CASE ~GiveUp
      <4>1. PICK protective \in Protective :
              /\ req.ok /\ protective /\ gpt' = "header" /\ GptFrame /\ Request(disk, 1, 1)
        BY <2>3, <3>2 DEF MbrRead
      <4>2. gpt = "mbr" /\ apc = "answered" /\ UNCHANGED <<disk, parts, count>>
        BY <2>3, <4>1 DEF MbrRead, Answered, GptFrame
      <4>3. Heeded(disk) => DiskOf(disk).mbr
        BY <4>1, <4>2, ProtectiveTrue
      <4> QED
        BY <4>1, <4>2, <4>3, NextStage DEF GptStages
    <3> QED
      BY <3>1, <3>2
  <2>4. CASE HeaderRead
    <3>1. CASE GiveUp
      BY <1>1, <2>4, <3>1, GivenUp DEF HeaderRead, Answered, GptStages
    <3>2. CASE ~GiveUp
      <4>1. /\ gpt = "header" /\ gpt' = "array" /\ UNCHANGED <<disk, parts, count>>
            /\ DiskOf(disk).sign
            /\ Request(disk, DiskOf(disk).array, ArrayUnits(DiskOf(disk).count))
        BY <2>4, <3>2 DEF HeaderRead, Answered, Signed, ArrayLba
      <4>2. Heeded(disk) => DiskOf(disk).mbr
        BY <4>1 DEF GptInv
      <4> QED
        BY <4>1, <4>2, NextStage DEF GptStages
    <3> QED
      BY <3>1, <3>2
  <2>5. CASE ArrayRead
    BY <2>5, PartsRead
  <2>6. CASE GptDone
    <3>1. /\ gpt # "off" /\ gpt' = "done" /\ UNCHANGED <<disk, parts, count, devs, ignored>>
          /\ Settled
      BY <2>6 DEF GptDone, ataVars, pciVars, history, Settled
    <3>2. \A i \in DOMAIN devs : TrueParts(i)'
      BY <3>1, PartsKept DEF GptInv
    <3> QED
      BY <3>1, <3>2 DEF GptInv, GptStages
  <2> QED
    BY <1>2, <2>1, <2>2, <2>3, <2>4, <2>5, <2>6 DEF GptStep
<1>3. ASSUME UNCHANGED <<gpt, disk, parts, count>>, gpt = "off" PROVE GptInv'
  BY <1>3 DEF GptInv
<1>4. CASE ProgramRead \/ ProgramAnswered
  <2>1. /\ gpt = "done" /\ UNCHANGED <<gpt, disk, parts, count>> /\ Settled
        /\ ignored \subseteq ignored'
    BY <1>4 DEF ProgramRead, ProgramAnswered, Request, Commanded, gptVars, pciVars, history,
                Settled
  <2> QED
    BY <2>1, GptKept DEF GptStages
<1>5. CASE AtaStep /\ UNCHANGED gptVars
  <2>1. UNCHANGED <<gpt, disk, parts, count>>
    BY <1>5 DEF gptVars
  <2>2. CASE ReadSector \/ ReadFails \/ ReadReturns
    <3>1. Reading
      BY <2>2 DEF ReadSector, ReadFails, ReadReturns, Reading
    <3>2. Settled /\ ignored \subseteq ignored'
      BY <1>1, <2>2, <3>1, ReadTyped DEF ReadSector, ReadFails, ReadReturns, ReadFrame
    <3>3. req'.idx = req.idx /\ req'.lba = req.lba /\ req'.len = req.len
      <4>1. {"idx", "lba", "len"} \subseteq DOMAIN req
        BY <1>1, <3>1 DEF ReqTypes, NoReq
      <4> QED
        BY <2>2, <4>1 DEF ReadSector, ReadFails, ReadReturns
    <3> QED
      BY <2>1, <3>2, <3>3, GptKept
  <2>3. CASE AtaInit \/ ProbeSelect \/ ProbeError \/ ProbeIdent
    <3>1. apc \in {"off", "select", "identify", "packet"}
      BY <2>3 DEF AtaInit, ProbeSelect, ProbeError, ProbeIdent, MayReadIdent
    <3>2. gpt = "off"
      BY <1>1, <3>1 DEF GptPlaces
    <3> QED
      BY <1>3, <2>1, <3>2
  <2> QED
    BY <1>5, <2>2, <2>3 DEF AtaStep
<1>6. CASE PciStep /\ UNCHANGED <<ataVars, gptVars>>
  <2>1. apc = "off"
    BY <1>1, <1>6, PciTyped
  <2> QED
    BY <1>1, <1>3, <1>6, <2>1 DEF gptVars, GptPlaces
<1>7. CASE \E d \in AllDrives : DriveStep(d)
  <2>1. PICK d \in AllDrives : DriveAnswer(d) /\ UNCHANGED gptVars
    BY <1>7 DEF DriveStep
  <2>2. Settled /\ UNCHANGED <<req, ignored>>
    BY <1>1, <2>1, DriveTyped DEF DriveAnswer, history
  <2> QED
    BY <2>1, <2>2, GptKept DEF gptVars
<1>8. CASE UNCHANGED vars
  BY <1>8, GptKept DEF vars, gptVars, pciVars, ataVars, history, Settled
<1> QED
  BY <1>2, <1>4, <1>5, <1>6, <1>7, <1>8 DEF Next, Main

\* The partitions that are known of a drive are those on its disk, slot by slot, as long
\* as it heeded its commands, the array can be named and the sectors are what they seem;
\* and of them only the first can be asked for.
THEOREM PartitionsMatch == Spec => []GptMatchesDisk
<1>1. ASSUME Inv, GptInv PROVE GptMatchesDisk
  <2> SUFFICES ASSUME gpt = "done", NEW i \in DOMAIN devs,
                      parts[i] # <<>>, Heeded(i), Named(i)
      PROVE  LET on == DiskOf(i) IN
             /\ on.mbr /\ on.sign
             /\ parts[i] = SubSeq(on.slots, 1, on.count)
             /\ count[i] = Cardinality(UsedSlots(on))
             /\ count[i] > 0 => PartEntry(i, 0) = Min(UsedSlots(on))
             /\ \A p \in 1 .. count[i] : PartEntry(i, p) = 0
    BY DEF GptMatchesDisk, Heeded, Named, Whole
  <2> DEFINE on == DiskOf(i)
  <2>1. /\ on.mbr /\ on.sign /\ parts[i] = SubSeq(on.slots, 1, on.count)
        /\ count[i] = Cardinality(NonEmpty(parts[i]))
    BY <1>1 DEF GptInv, TrueParts
  <2>2. on.count \in Nat /\ on.slots \in Seq(Nat) /\ on.count <= Len(on.slots)
    <3>1. DriveOf(i) \in DOMAIN machine.drives /\ machine \in Machines
      BY <1>1 DEF Inv, Types, AtaTypes
    <3> QED
      BY <3>1, DiskFacts DEF DiskOf
  <2> HIDE DEF on
  <2>3. NonEmpty(parts[i]) = UsedSlots(on)
    <3>1. parts[i] = [k \in 1 .. on.count |-> on.slots[k]]
      BY <2>1, <2>2, SubSeqOfPrefix
    <3> QED
      BY <3>1 DEF NonEmpty, UsedSlots
  <2>4. UsedSlots(on) \in SUBSET Nat
    BY <2>2 DEF UsedSlots
  <2>5. ASSUME count[i] > 0 PROVE PartEntry(i, 0) = Min(UsedSlots(on))
    <3>1. UsedSlots(on) # {}
      <4>1. UsedSlots(on) = {} => count[i] = 0
        BY <2>1, <2>3, FS_EmptySet
      <4> QED
        BY <2>5, <4>1
    <3> QED
      BY <2>3, <2>5, <3>1 DEF PartEntry, Min
  <2>6. \A p \in 1 .. count[i] : PartEntry(i, p) = 0
    BY DEF PartEntry
  <2> QED
    BY <2>1, <2>3, <2>5, <2>6 DEF on
<1>2. Init => GptInv
  BY DEF Init, GptBoot, GptInv
<1> QED
  BY <1>1, <1>2, InvInitially, InvInductive, GptInductive, PTL DEF Spec

-----------------------------------------------------------------------------
(* The scan: the buses that are reached *)

Secondaries(buses) == {Header(a).secondary : a \in BridgesOn(buses)}

LEMMA ReachedUnfolds ==
  /\ ReachedIn[0] = Hosts
  /\ \A n \in 1 .. DepthMax : ReachedIn[n] = ReachedIn[n - 1] \union Secondaries(ReachedIn[n - 1])
<1> DEFINE Buses == Hosts \union {Header(a).secondary : a \in DOMAIN machine.pci}
           F == [buses \in SUBSET Buses |-> buses \union Secondaries(buses)]
           Reach(f) == [n \in 0 .. DepthMax |->
                          IF n = 0 THEN Hosts ELSE f[n - 1] \union Secondaries(f[n - 1])]
<1>1. F \in [SUBSET Buses -> SUBSET Buses] /\ Hosts \in SUBSET Buses
  <2>1. ASSUME NEW buses PROVE Secondaries(buses) \subseteq Buses
    BY DEF Secondaries, BridgesOn, Functions
  <2> HIDE DEF Buses
  <2>2. F \in [SUBSET Buses -> SUBSET Buses]
    BY <2>1
  <2> QED
    BY <2>2 DEF Buses
<1>2. PICK f \in [0 .. DepthMax -> SUBSET Buses] : Iterates(f, F, Hosts, DepthMax)
  <2>1. DepthMax \in Nat
    BY PciConstants
  <2> HIDE DEF F, Buses
  <2> QED
    BY <1>1, <2>1, IteratesExist
<1>3. f = Reach(f)
  <2>1. f[0] = Hosts /\ \A k \in 1 .. DepthMax : f[k] = F[f[k - 1]]
    BY <1>2 DEF Iterates
  <2>2. \A k \in 1 .. DepthMax : f[k] = f[k - 1] \union Secondaries(f[k - 1])
    <3> HIDE DEF Buses
    <3> TAKE k \in 1 .. DepthMax
    <3>1. k - 1 \in 0 .. DepthMax
      BY PciConstants
    <3>2. f[k - 1] \in SUBSET Buses
      BY <1>2, <3>1
    <3> QED
      BY <2>1, <3>2
  <2> HIDE DEF F, Buses
  <2>3. \A k \in 0 .. DepthMax : f[k] = Reach(f)[k]
    BY <2>1, <2>2, PciConstants
  <2> QED
    BY <1>2, <2>3
<1>4. ReachedIn = CHOOSE g : g = Reach(g)
  BY DEF ReachedIn, Secondaries
<1>5. ReachedIn = Reach(ReachedIn)
  <2> HIDE DEF Reach
  <2> QED
    BY <1>3, <1>4
<1>6. \A g : \A n \in 0 .. DepthMax :
        Reach(g)[n] = IF n = 0 THEN Hosts ELSE g[n - 1] \union Secondaries(g[n - 1])
  OBVIOUS
<1> HIDE DEF Reach
<1>7. \A n \in 0 .. DepthMax :
        ReachedIn[n] = IF n = 0 THEN Hosts
                       ELSE ReachedIn[n - 1] \union Secondaries(ReachedIn[n - 1])
  BY <1>5, <1>6, Zenon
<1>8. ASSUME NEW n \in 0 .. DepthMax
      PROVE  ReachedIn[n] = IF n = 0 THEN Hosts
                            ELSE ReachedIn[n - 1] \union Secondaries(ReachedIn[n - 1])
  BY <1>7, Zenon
<1>9. 0 \in 0 .. DepthMax /\ \A n \in 1 .. DepthMax : n \in 0 .. DepthMax /\ n # 0
  BY PciConstants
<1> QED
  BY <1>8, <1>9, Zenon

LEMMA FixedMachine ==
  ASSUME machine' = machine
  PROVE  /\ Hosts' = Hosts /\ ReachedIn' = ReachedIn 
         /\ \A bus : Looked(bus)' = Looked(bus) /\ WaysTo(bus)' = WaysTo(bus)
         /\ \A a : Header(a)' = Header(a) /\ Follows(a)' = Follows(a)
         /\ Tree' = Tree /\ Reached' = Reached /\ Near' = Near
<1>1. /\ Hosts' = Hosts /\ \A bus : Looked(bus)' = Looked(bus)
      /\ \A a : Header(a)' = Header(a) /\ Follows(a)' = Follows(a)
  BY DEF Hosts, Looked, Header, Follows, Present, Multi
<1>2. \A B : BridgesOn(B)' = BridgesOn(B)
  BY DEF BridgesOn, Functions, Skipped, Header, Present
<1>3. ReachedIn' = ReachedIn
  BY <1>1, <1>2 DEF ReachedIn, BridgesOn, Functions, Skipped, Hosts, Header, Present, Multi
<1> QED
  BY <1>1, <1>2, <1>3 DEF Tree, Reached, Near, WaysTo

\* What the scan is to find: the functions of the buses that are reached, but for those
\* that it skips.
There == {a \in Functions : a[1] \in Reached /\ ~Skipped(a)}

\* What the loops look at on a bus are its functions but for those.
LEMMA LookedFunctions ==
  ASSUME machine \in Machines, NEW bus
  PROVE  Looked(bus) = {a \in Functions : a[1] = bus /\ ~Skipped(a)}
<1>1. ASSUME NEW a \in DOMAIN machine.pci, a[1] = bus
      PROVE  a \in Looked(bus) <=> a \in Functions /\ ~Skipped(a)
  <2> DEFINE first == <<bus, a[2], 0>>
  <2>1. a = <<bus, a[2], a[3]>>
    BY <1>1, BusesOfMachines
  <2>2. CASE a[3] = 0
    <3>1. a = first
      BY <2>1, <2>2
    <3>2. a \in Looked(bus) <=> ~Header(a).multi
      BY <1>1, <2>2, <3>1 DEF Looked, Present, Multi
    <3>3. a \in Functions
      BY <1>1, <3>1 DEF Functions
    <3> QED
      BY <2>2, <3>2, <3>3 DEF Skipped
  <2>3. CASE a[3] # 0
    <3>1. a # first
      BY <2>1, <2>3
    <3>2. a \in Looked(bus) <=> Present(first) /\ Header(first).multi
      BY <1>1, <2>3 DEF Looked, Present, Multi
    <3>3. a \in Functions <=> Present(first) /\ Header(first).multi
      BY <1>1, <3>1 DEF Functions
    <3> QED
      BY <2>3, <3>2, <3>3 DEF Skipped
  <2> QED
    BY <2>2, <2>3
<1>2. \A a \in Looked(bus) : a \in DOMAIN machine.pci /\ a[1] = bus
  BY DEF Looked
<1>3. Functions \subseteq DOMAIN machine.pci
  BY DEF Functions
<1> QED
  BY <1>1, <1>2, <1>3

LEMMA BridgesLooked ==
  ASSUME machine \in Machines, NEW buses, NEW a
  PROVE  a \in BridgesOn(buses) <=> a[1] \in buses /\ a \in Looked(a[1]) /\ Follows(a)
  BY LookedFunctions DEF BridgesOn, Follows

LEMMA LookedAddresses ==
  ASSUME machine \in Machines, NEW bus, NEW a \in Looked(bus)
  PROVE  a \in DOMAIN machine.pci /\ a \in Nat \X Nat \X Nat /\ a # NoEntry /\ a[1] = bus
<1>1. a \in DOMAIN machine.pci /\ a[1] = bus
  BY DEF Looked
<1>2. a \in Nat \X Nat \X Nat
  BY <1>1, BusesOfMachines
<1>3. a # NoEntry
  <2>1. PICK b \in Nat, d \in Nat, f \in Nat : a = <<b, d, f>>
    BY <1>2
  <2>2. Len(<<b, d, f>>) = 3 /\ Len(<<>>) = 0
    OBVIOUS
  <2> QED
    BY <2>1, <2>2 DEF NoEntry
<1> QED
  BY <1>1, <1>2, <1>3

LEMMA ThereIsFinite ==
  ASSUME machine \in Machines
  PROVE  /\ There \subseteq DOMAIN machine.pci /\ IsFiniteSet(There)
         /\ BridgesOn(Reached) \subseteq There /\ IsFiniteSet(BridgesOn(Reached))
         /\ \A a \in There : a[1] \in Reached /\ a \in Looked(a[1]) /\ a # NoEntry
<1>1. There \subseteq DOMAIN machine.pci /\ BridgesOn(Reached) \subseteq There
  BY DEF There, Functions, BridgesOn
<1>2. IsFiniteSet(There) /\ IsFiniteSet(BridgesOn(Reached))
  <2>1. IsFiniteSet(DOMAIN machine.pci)
    BY BusesOfMachines
  <2> QED
    BY <1>1, <2>1, FS_Subset
<1>3. \A a \in There : a[1] \in Reached /\ a \in Looked(a[1])
  BY LookedFunctions DEF There
<1>4. \A a \in There : a # NoEntry
  BY <1>3, LookedAddresses
<1> QED
  BY <1>1, <1>2, <1>3, <1>4

\* The buses reached in n steps are among those reached in more.
LEMMA ReachedGrows ==
  /\ \A n \in 0 .. DepthMax : ReachedIn[n] \subseteq Reached
  /\ \A n \in 1 .. DepthMax : ReachedIn[n - 1] \subseteq ReachedIn[n]
<1>1. \A n \in 1 .. DepthMax : ReachedIn[n - 1] \subseteq ReachedIn[n]
  BY ReachedUnfolds
<1> DEFINE S == {m \in Nat : m <= DepthMax => \A n \in 0 .. m : ReachedIn[n] \subseteq ReachedIn[m]}
<1>2. 0 \in S
  OBVIOUS
<1>3. ASSUME NEW m \in Nat, m \in S PROVE m + 1 \in S
  <2>1. SUFFICES ASSUME m + 1 <= DepthMax, NEW n \in 0 .. m + 1
                 PROVE  ReachedIn[n] \subseteq ReachedIn[m + 1]
    OBVIOUS
  <2>2. ReachedIn[m] \subseteq ReachedIn[m + 1]
    <3>1. m + 1 \in 1 .. DepthMax /\ (m + 1) - 1 = m
      BY <2>1, PciConstants
    <3> QED
      BY <1>1, <3>1
  <2>3. CASE n \in 0 .. m
    <3>1. ReachedIn[n] \subseteq ReachedIn[m]
      BY <1>3, <2>1, <2>3, PciConstants
    <3> QED
      BY <2>2, <3>1
  <2>4. CASE n = m + 1
    BY <2>4
  <2> QED
    BY <2>3, <2>4
<1>4. DepthMax \in S
  <2>1. DepthMax \in Nat
    BY PciConstants
  <2> HIDE DEF S
  <2> QED
    BY <1>2, <1>3, <2>1, InductionOverNat
<1>5. \A n \in 0 .. DepthMax : ReachedIn[n] \subseteq Reached
  <2>1. DepthMax <= DepthMax
    BY PciConstants
  <2> QED
    BY <1>4, <2>1 DEF Reached
<1> QED
  BY <1>1, <1>5

\* A bus that is reached is a host's or behind a bridge on a bus reached before it.
LEMMA ReachedOver ==
  \A n \in 1 .. DepthMax : \A bus \in ReachedIn[n] :
    bus \in Hosts \/ \E a \in BridgesOn(ReachedIn[n - 1]) : Header(a).secondary = bus
<1> DEFINE Over(n, bus) ==
             bus \in Hosts \/ \E a \in BridgesOn(ReachedIn[n - 1]) : Header(a).secondary = bus
           S == {n \in Nat : n \in 1 .. DepthMax => \A bus \in ReachedIn[n] : Over(n, bus)}
<1>1. 0 \in S
  OBVIOUS
<1>2. ASSUME NEW n \in Nat, n \in S PROVE n + 1 \in S
  <2>1. SUFFICES ASSUME n + 1 \in 1 .. DepthMax, NEW bus \in ReachedIn[n + 1]
                 PROVE  Over(n + 1, bus)
    OBVIOUS
  <2>2. (n + 1) - 1 = n
    OBVIOUS
  <2>3. ReachedIn[n + 1] = ReachedIn[n] \union Secondaries(ReachedIn[n])
    BY <2>1, <2>2, ReachedUnfolds
  <2>4. CASE bus \in Secondaries(ReachedIn[n])
    BY <2>2, <2>4 DEF Secondaries
  <2>5. CASE bus \in ReachedIn[n] /\ n = 0
    BY <2>5, ReachedUnfolds
  <2>6. CASE bus \in ReachedIn[n] /\ n # 0
    <3>1. n \in 1 .. DepthMax
      BY <2>1, <2>6, PciConstants
    <3>2. Over(n, bus)
      BY <1>2, <2>6, <3>1
    <3>3. ReachedIn[n - 1] \subseteq ReachedIn[n]
      BY <3>1, ReachedGrows
    <3>4. BridgesOn(ReachedIn[n - 1]) \subseteq BridgesOn(ReachedIn[n])
      BY <3>3 DEF BridgesOn
    <3> QED
      BY <2>2, <3>2, <3>4
  <2> QED
    BY <2>3, <2>4, <2>5, <2>6
<1>3. \A n \in Nat : n \in S
  <2> HIDE DEF S
  <2> QED
    BY <1>1, <1>2, InductionOverNat
<1> QED
  BY <1>3, PciConstants

\* In a tree a bus behind a bridge is behind no other and no host's.
LEMMA OneWay ==
  ASSUME machine \in Machines, Tree,
         NEW a \in BridgesOn(Reached), Header(a).secondary \in Reached
  PROVE  /\ Header(a).secondary \notin Hosts
         /\ \A b \in BridgesOn(Reached) : Header(b).secondary = Header(a).secondary => b = a
<1> DEFINE bus == Header(a).secondary
           W == {b \in BridgesOn(Reached) : Header(b).secondary = bus}
<1>1. IsFiniteSet(W) /\ a \in W
  BY ThereIsFinite, FS_Subset
<1>2. (IF bus \in Hosts THEN 1 ELSE 0) + Cardinality(W) = 1
  BY DEF Tree, WaysTo
<1>3. Cardinality(W) \in Nat /\ Cardinality(W) # 0
  BY <1>1, FS_CardinalityType, FS_EmptySet
<1>4. bus \notin Hosts /\ Cardinality(W) = 1
  BY <1>2, <1>3
<1>5. PICK x : W = {x}
  BY <1>1, <1>4, FS_Singleton
<1> QED
  BY <1>1, <1>4, <1>5

\* In a tree the bus behind a bridge is one step further than the bridge's bus.
LEMMA OneFurther ==
  ASSUME machine \in Machines, Tree, NEW n \in 1 .. DepthMax,
         NEW a \in BridgesOn(ReachedIn[n - 1]), n > 1 => a[1] \notin ReachedIn[n - 2]
  PROVE  /\ a \in BridgesOn(Reached) /\ Header(a).secondary \in ReachedIn[n]
         /\ Header(a).secondary \notin ReachedIn[n - 1]
<1> DEFINE bus == Header(a).secondary
<1>1. a \in BridgesOn(Reached) /\ bus \in ReachedIn[n] /\ bus \in Reached
  <2>1. ReachedIn[n - 1] \subseteq Reached
    BY ReachedGrows, PciConstants
  <2>2. bus \in ReachedIn[n]
    BY ReachedUnfolds DEF Secondaries
  <2>3. a \in BridgesOn(Reached)
    BY <2>1 DEF BridgesOn
  <2>4. ReachedIn[n] \subseteq Reached
    BY ReachedGrows, PciConstants
  <2> QED
    BY <2>2, <2>3, <2>4
<1>2. ASSUME bus \in ReachedIn[n - 1] PROVE FALSE
  <2>1. bus \notin Hosts
    BY <1>1, OneWay
  <2>2. n - 1 \in 1 .. DepthMax /\ (n - 1) - 1 = n - 2 /\ n > 1
    BY <1>2, <2>1, ReachedUnfolds, PciConstants
  <2>3. PICK b \in BridgesOn(ReachedIn[n - 2]) : Header(b).secondary = bus
    BY <1>2, <2>1, <2>2, ReachedOver
  <2>4. ReachedIn[n - 2] \subseteq Reached
    BY <2>2, ReachedGrows, PciConstants
  <2>5. b \in BridgesOn(Reached)
    BY <2>4 DEF BridgesOn
  <2>6. b = a
    BY <1>1, <2>3, <2>5, OneWay
  <2>7. a[1] \in ReachedIn[n - 2]
    BY <2>3, <2>6 DEF BridgesOn
  <2> QED
    BY <2>2, <2>7
<1> QED
  BY <1>1, <1>2

-----------------------------------------------------------------------------
(* The scan: its invariant *)

Seen    == {cache[i] : i \in Cached}
Waiting == UNION {stack[k] : k \in DOMAIN stack}

\* The buses that the scan has come to.
Opened ==
  (Hosts \ hosts) \union {Header(a).secondary : a \in {b \in Seen : Follows(b)}}

ScanTypes ==
  /\ pci \in {"off", "scan", "found", "none", "overflow", "damaged"}
  /\ cache \in [0 .. CacheWrap - 1 -> (DOMAIN machine.pci) \union {NoEntry}]
  /\ stack \in Seq(SUBSET DOMAIN machine.pci)
  /\ hosts \subseteq Hosts
  /\ pci # "scan" => stack = <<>>
  /\ pci = "off" => Cached = {} /\ hosts = {}
  /\ pci \in {"found", "none"} => hosts = {}
  /\ pci # "damaged" => cache_len \in 0 .. CacheRoom /\ Cached = 0 .. cache_len - 1
  /\ pci = "damaged" => Cached = 0 .. CacheRoom

\* The k-th bus being scanned is k - 1 bridges away, and in a tree no nearer.
FramesInv ==
  /\ Len(stack) <= DepthMax
  /\ \A k \in DOMAIN stack : \E bus \in ReachedIn[k - 1] :
       /\ stack[k] \subseteq Looked(bus)
       /\ Tree /\ k > 1 => bus \notin ReachedIn[k - 2]

\* Nothing of a bus that the scan has come to is left out.
CoverInv ==
  pci \in {"scan", "found", "none"} =>
    \A bus \in Opened : Looked(bus) \subseteq Seen \union Waiting

\* In a tree nothing is looked at twice.
OnceInv ==
  Tree =>
    /\ \A i, j \in Cached : cache[i] = cache[j] => i = j
    /\ Seen \intersect Waiting = {}
    /\ \A k, l \in DOMAIN stack : k # l => stack[k] \intersect stack[l] = {}
    /\ \A a \in Seen \union Waiting : a[1] \in Opened

FarInv == pci = "overflow" => ~(Tree /\ Near)

ScanInv == ScanTypes /\ Seen \subseteq There /\ FramesInv /\ CoverInv /\ OnceInv /\ FarInv

-----------------------------------------------------------------------------
(* The scan: its steps *)

LEMMA MinOf ==
  ASSUME NEW S \in SUBSET Nat, S # {}
  PROVE  Min(S) \in S
<1>1. PICK n \in S : \A m \in S : n <= m
  BY LeastNatural
<1> QED
  BY <1>1, Zenon DEF Min

LEMMA FirstOf ==
  ASSUME machine \in Machines, NEW bus, NEW S \in SUBSET Looked(bus), S # {}
  PROVE  First(S) \in S
<1>1. \A a \in S : a \in Nat \X Nat \X Nat /\ a[1] = bus
  BY LookedAddresses
<1> DEFINE D == {a[2] : a \in S}
<1>2. PICK d \in D : \A e \in D : d <= e
  <2>1. D \in SUBSET Nat /\ D # {}
    BY <1>1
  <2> HIDE DEF D
  <2> QED
    BY <2>1, LeastNatural
<1> DEFINE F == {a[3] : a \in {b \in S : b[2] = d}}
<1>3. PICK f \in F : \A g \in F : f <= g
  <2>1. F \in SUBSET Nat /\ F # {}
    BY <1>1, <1>2
  <2> HIDE DEF F
  <2> QED
    BY <2>1, LeastNatural
<1>4. PICK a \in S : a[2] = d /\ a[3] = f
  BY <1>3
<1>5. ASSUME NEW b \in S \ {a} PROVE Earlier(a, b)
  <2>1. a = <<bus, d, f>> /\ b = <<bus, b[2], b[3]>> /\ b[2] \in Nat /\ b[3] \in Nat
        /\ d \in Nat /\ f \in Nat
    BY <1>1, <1>4
  <2>2. d <= b[2] /\ (b[2] = d => f <= b[3])
    BY <1>2, <1>3
  <2>3. b[2] # d \/ b[3] # f
    BY <2>1
  <2> QED
    BY <1>4, <2>1, <2>2, <2>3 DEF Earlier
<1> HIDE DEF D, F
<1> QED
  BY <1>4, <1>5, Zenon DEF First

\* What does not change with the state of the scan.
LEMMA FixedScan ==
  ASSUME machine' = machine
  PROVE  There' = There
<1>1. Functions' = Functions /\ \A a : Skipped(a)' = Skipped(a)
  BY DEF Functions, Skipped, Present, Header
<1> QED
  BY <1>1, FixedMachine DEF There

LEMMA ScanStarts ==
  ASSUME Init PROVE ScanInv
<1>1. Cached = {} /\ Seen = {} /\ Waiting = {} /\ stack = <<>> /\ hosts = {} /\ pci = "off"
  BY DEF Init, PciBoot, Cached, Seen, Waiting, NoEntry
<1>2. ScanTypes
  BY <1>1, PciConstants DEF Init, PciBoot, ScanTypes, NoEntry
<1> QED
  BY <1>1, <1>2, PciConstants DEF ScanInv, FramesInv, CoverInv, OnceInv, FarInv

\* A step that leaves the cache alone, stacks and host buses apart.
LEMMA ScanHost ==
  ASSUME machine \in Machines, ScanInv, EnumHost
  PROVE  ScanInv'
<1> DEFINE bus == Min(hosts)
<1>1. /\ machine' = machine /\ pci = "scan" /\ pci' = pci
      /\ cache' = cache /\ cache_len' = cache_len
      /\ stack = <<>> /\ stack' = <<Looked(bus)>> /\ hosts' = hosts \ {bus}
  BY DEF EnumHost
<1>2. bus \in hosts /\ bus \in Hosts
  <2>1. Hosts \subseteq Nat
    BY PciConstants DEF Hosts
  <2>2. hosts \in SUBSET Nat /\ hosts # {}
    BY <2>1 DEF ScanInv, ScanTypes, EnumHost
  <2> QED
    BY <2>2, MinOf DEF ScanInv, ScanTypes
<1> HIDE DEF bus
<1>3. bus \in ReachedIn[0] /\ bus \in Reached
  BY <1>2, ReachedUnfolds, ReachedGrows, PciConstants
<1>4. /\ Cached' = Cached /\ Seen' = Seen
      /\ Waiting = {} /\ Waiting' = Looked(bus) /\ DOMAIN stack' = {1} /\ stack'[1] = Looked(bus)
  BY <1>1 DEF Cached, Seen, Waiting
<1>5. Opened' = Opened \union {bus}
  BY <1>1, <1>2, <1>4, FixedMachine DEF Opened
<1>8. ScanTypes'
  <2>1. Looked(bus) \in SUBSET DOMAIN machine.pci
    BY DEF Looked
  <2>2. stack' \in Seq(SUBSET DOMAIN machine'.pci)
    <3>1. \A S : \A x \in S : <<x>> \in Seq(S)
      OBVIOUS
    <3> QED
      BY <1>1, <2>1, <3>1
  <2> QED
    BY <1>1, <1>2, <1>4, <2>2, FixedMachine DEF ScanInv, ScanTypes
<1>9. FramesInv'
  <2>1. Len(stack') <= DepthMax
    BY <1>1, PciConstants
  <2> QED
    BY <1>1, <1>3, <1>4, <2>1, FixedMachine DEF FramesInv
<1>10. CoverInv'
  BY <1>1, <1>4, <1>5, FixedMachine DEF ScanInv, CoverInv
<1>11. OnceInv'
  <2>1. SUFFICES ASSUME Tree PROVE OnceInv'
    BY <1>1, FixedMachine DEF OnceInv
  <2>2. bus \notin Opened
    <3>1. SUFFICES ASSUME NEW a \in Seen, Follows(a), Header(a).secondary = bus PROVE FALSE
      BY <1>2 DEF Opened
    <3>2. a \in BridgesOn(Reached)
      BY <3>1 DEF ScanInv, There, BridgesOn, Follows
    <3> QED
      BY <1>2, <1>3, <2>1, <3>1, <3>2, OneWay
  <2>3. Seen \intersect Looked(bus) = {}
    BY <2>1, <2>2, LookedAddresses DEF ScanInv, OnceInv
  <2>4. \A a \in Looked(bus) : a[1] \in Opened'
    BY <1>5, LookedAddresses
  <2> QED
    BY <1>1, <1>4, <1>5, <2>1, <2>3, <2>4 DEF ScanInv, OnceInv
<1> QED
  BY <1>1, <1>4, <1>8, <1>9, <1>10, <1>11, FixedScan DEF ScanInv, FarInv

\* The function that is looked at, and what is left of its bus.
Addr == First(stack[Len(stack)])
Rest(k) == IF k = Len(stack) THEN stack[k] \ {Addr} ELSE stack[k]

\* EnumFunction in terms of the frames.
Deeper ==
  /\ Follows(Addr) /\ Len(stack) # DepthMax /\ cache_len # CacheRoom /\ pci' = pci
  /\ Len(stack') = Len(stack) + 1
  /\ \A k \in 1 .. Len(stack) : stack'[k] = Rest(k)
  /\ stack'[Len(stack) + 1] = Looked(Header(Addr).secondary)
Along ==
  /\ ~Follows(Addr) /\ cache_len # CacheRoom /\ pci' = pci
  /\ Len(stack') = Len(stack)
  /\ \A k \in 1 .. Len(stack) : stack'[k] = Rest(k)
TooDeep ==
  /\ Follows(Addr) /\ Len(stack) = DepthMax /\ cache_len # CacheRoom
  /\ pci' = "overflow" /\ stack' = <<>>
TooMany ==
  cache_len = CacheRoom /\ pci' = "damaged" /\ stack' = <<>>

LEMMA FunctionFrames ==
  ASSUME ScanTypes, EnumFunction
  PROVE  /\ stack' \in Seq(SUBSET DOMAIN machine.pci) /\ DOMAIN stack' = 1 .. Len(stack')
         /\ Len(stack) \in Nat \ {0} /\ DOMAIN stack = 1 .. Len(stack)
         /\ stack[Len(stack)] # {}
         /\ pci = "scan" /\ machine' = machine /\ hosts' = hosts
         /\ cache' = [cache EXCEPT ![cache_len] = Addr]
         /\ cache_len' = (cache_len + 1) % CacheWrap
         /\ Deeper \/ Along \/ TooDeep \/ TooMany
<1> DEFINE n == Len(stack)
           S == SUBSET DOMAIN machine.pci
           rest == [stack EXCEPT ![n] = @ \ {Addr}]
           more == Looked(Header(Addr).secondary)
<1>1. stack \in Seq(S) /\ stack # <<>>
  BY DEF ScanTypes, EnumFunction
<1>2. n \in Nat \ {0} /\ DOMAIN stack = 1 .. n /\ stack[n] \in S
  BY <1>1
<1>3. more \in S
  BY DEF Looked
<1>4. rest \in Seq(S) /\ Len(rest) = n /\ \A k \in 1 .. n : rest[k] = Rest(k)
  <2> HIDE DEF S
  <2>1. stack[n] \ {Addr} \in S
    BY <1>2 DEF S
  <2>2. \A k \in 1 .. n : stack[k] \in S
    BY <1>1, <1>2, SMTT(60)
  <2>3. DOMAIN rest = 1 .. n /\ \A k \in 1 .. n : rest[k] = Rest(k)
    BY <1>2 DEF Rest
  <2>4. \A k \in 1 .. n : Rest(k) \in S
    BY <2>1, <2>2 DEF Rest
  <2>5. rest \in [1 .. n -> S]
    <3>1. rest = [k \in 1 .. n |-> rest[k]]
      BY <1>2
    <3> HIDE DEF rest
    <3> QED
      BY <2>3, <2>4, <3>1
  <2> HIDE DEF rest
  <2> QED
    BY <1>2, <2>3, <2>5
<1>5. /\ Append(rest, more) \in Seq(S) /\ Len(Append(rest, more)) = n + 1
      /\ \A k \in 1 .. n : Append(rest, more)[k] = Rest(k)
      /\ Append(rest, more)[n + 1] = more
  <2> HIDE DEF S, rest, more
  <2> QED
    BY <1>2, <1>3, <1>4, AppendProperties
<1>6. /\ stack[n] # {} /\ pci = "scan" /\ machine' = machine /\ hosts' = hosts
      /\ cache' = [cache EXCEPT ![cache_len] = Addr]
      /\ cache_len' = (cache_len + 1) % CacheWrap
  BY DEF EnumFunction, Addr, Last
<1>9. /\ cache_len = CacheRoom => pci' = "damaged" /\ stack' = <<>>
      /\ cache_len # CacheRoom /\ ~Follows(Addr) => stack' = rest /\ pci' = pci
      /\ cache_len # CacheRoom /\ Follows(Addr) =>
           IF n = DepthMax THEN pci' = "overflow" /\ stack' = <<>>
           ELSE stack' = Append(rest, more) /\ pci' = pci
  BY DEF EnumFunction, Addr, Last
<1> HIDE DEF rest, more, S
<1>7. stack' \in Seq(S) /\ (Deeper \/ Along \/ TooDeep \/ TooMany)
  <2>1. <<>> \in Seq(S)
    OBVIOUS
  <2>2. CASE cache_len # CacheRoom /\ Follows(Addr) /\ n = DepthMax
    BY <1>9, <2>1, <2>2 DEF TooDeep
  <2>3. CASE cache_len # CacheRoom /\ Follows(Addr) /\ n # DepthMax
    BY <1>5, <1>9, <2>3 DEF Deeper, more
  <2>4. CASE cache_len # CacheRoom /\ ~Follows(Addr)
    BY <1>4, <1>9, <2>4 DEF Along
  <2>5. CASE cache_len = CacheRoom
    BY <1>9, <2>1, <2>5 DEF TooMany
  <2> QED
    BY <2>2, <2>3, <2>4, <2>5
<1>8. DOMAIN stack' = 1 .. Len(stack')
  BY <1>7
<1> QED
  BY <1>2, <1>6, <1>7, <1>8 DEF S

\* Which function that is.
LEMMA FunctionThere ==
  ASSUME machine \in Machines, ScanInv, EnumFunction
  PROVE  LET n == Len(stack) IN
         /\ n \in 1 .. DepthMax /\ Addr \in stack[n] /\ Addr \in Waiting
         /\ Addr \in There /\ Addr \in Looked(Addr[1]) /\ Addr # NoEntry
         /\ Addr \in DOMAIN machine.pci
         /\ Addr[1] \in ReachedIn[n - 1]
         /\ Tree /\ n > 1 => Addr[1] \notin ReachedIn[n - 2]
         /\ Follows(Addr) => Addr \in BridgesOn(ReachedIn[n - 1])
<1> DEFINE n == Len(stack)
<1>1. n \in 1 .. DepthMax /\ n \in DOMAIN stack /\ stack[n] # {}
  BY FunctionFrames, PciConstants DEF ScanInv, FramesInv
<1>2. PICK bus \in ReachedIn[n - 1] : /\ stack[n] \subseteq Looked(bus)
                                      /\ Tree /\ n > 1 => bus \notin ReachedIn[n - 2]
  BY <1>1 DEF ScanInv, FramesInv
<1>3. Addr \in stack[n]
  BY <1>1, <1>2, FirstOf DEF Addr
<1>4. Addr \in Looked(bus) /\ Addr[1] = bus /\ Addr # NoEntry /\ Addr \in DOMAIN machine.pci
  BY <1>2, <1>3, LookedAddresses
<1>5. ReachedIn[n - 1] \subseteq Reached
  BY <1>1, ReachedGrows, PciConstants
<1>6. Addr \in Waiting
  BY <1>1, <1>3 DEF Waiting
<1>7. Addr \in There
  BY <1>2, <1>4, <1>5, LookedFunctions DEF There
<1>8. Follows(Addr) => Addr \in BridgesOn(ReachedIn[n - 1])
  BY <1>2, <1>4, BridgesLooked
<1> HIDE DEF n
<1>9. Addr \in Looked(Addr[1]) /\ Addr[1] \in ReachedIn[n - 1]
      /\ (Tree /\ n > 1 => Addr[1] \notin ReachedIn[n - 2])
  BY <1>2, <1>4
<1> QED
  BY <1>1, <1>3, <1>4, <1>6, <1>7, <1>8, <1>9 DEF n

\* What is in the cache afterwards.
LEMMA FunctionCached ==
  ASSUME machine \in Machines, ScanInv, EnumFunction
  PROVE  /\ cache_len \in 0 .. CacheRoom /\ Cached = 0 .. cache_len - 1
         /\ cache' \in [0 .. CacheWrap - 1 -> (DOMAIN machine.pci) \union {NoEntry}]
         /\ cache'[cache_len] = Addr /\ \A i \in Cached : cache'[i] = cache[i]
         /\ Cached' = Cached \union {cache_len} /\ Cached' = 0 .. cache_len
         /\ Seen' = Seen \union {Addr}
         /\ cache_len # CacheRoom => cache_len' = cache_len + 1
<1>1. /\ cache' = [cache EXCEPT ![cache_len] = Addr]
      /\ cache_len' = (cache_len + 1) % CacheWrap
      /\ pci = "scan"
  BY FunctionFrames DEF ScanInv
<1>2. Addr # NoEntry /\ Addr \in DOMAIN machine.pci
  BY FunctionThere
<1>3. /\ cache \in [0 .. CacheWrap - 1 -> (DOMAIN machine.pci) \union {NoEntry}]
      /\ cache_len \in 0 .. CacheRoom /\ Cached = 0 .. cache_len - 1
  BY <1>1 DEF ScanInv, ScanTypes
<1>4. CacheRoom \in Nat /\ CacheWrap \in Nat \ {0} /\ cache_len \in 0 .. CacheWrap - 1
  BY <1>3, PciConstants
<1>5. /\ cache' \in [0 .. CacheWrap - 1 -> (DOMAIN machine.pci) \union {NoEntry}]
      /\ cache'[cache_len] = Addr
      /\ \A i \in 0 .. CacheWrap - 1 : i # cache_len => cache'[i] = cache[i]
  BY <1>1, <1>2, <1>3, <1>4
<1>6. Cached' = Cached \union {cache_len} /\ Cached' = 0 .. cache_len
  <2>1. Cached' = Cached \union {cache_len}
    BY <1>2, <1>4, <1>5 DEF Cached
  <2> QED
    BY <1>3, <2>1
<1>7. \A i \in Cached : cache'[i] = cache[i]
  BY <1>3, <1>4, <1>5
<1>8. Seen' = Seen \union {Addr}
  BY <1>5, <1>6, <1>7 DEF Seen
<1>9. ASSUME cache_len # CacheRoom PROVE cache_len' = cache_len + 1
  <2>1. cache_len + 1 \in 0 .. CacheWrap - 1
    BY <1>3, <1>9, PciConstants
  <2>2. (cache_len + 1) % CacheWrap = cache_len + 1
    BY <1>4, <2>1, Wrapping, ZenonT(60)
  <2> QED
    BY <1>1, <2>2
<1> QED
  BY <1>3, <1>5, <1>6, <1>7, <1>8, <1>9

\* What waits afterwards.
LEMMA FunctionWaiting ==
  ASSUME machine \in Machines, ScanInv, EnumFunction, Deeper \/ Along
  PROVE  /\ Waiting \subseteq Waiting' \union {Addr}
         /\ Along => Waiting' \subseteq Waiting
         /\ Deeper => /\ Waiting' \subseteq Waiting \union Looked(Header(Addr).secondary)
                      /\ Looked(Header(Addr).secondary) \subseteq Waiting'
<1> DEFINE n == Len(stack)
           more == Looked(Header(Addr).secondary)
<1>1. n \in Nat \ {0} /\ DOMAIN stack = 1 .. n /\ DOMAIN stack' = 1 .. Len(stack')
  <2>1. ScanTypes
    BY DEF ScanInv
  <2> QED
    BY <2>1, FunctionFrames
<1>2. \A k \in 1 .. n : k \in DOMAIN stack' /\ stack'[k] = Rest(k)
  <2>1. /\ Len(stack') = n \/ Len(stack') = n + 1
        /\ \A k \in 1 .. n : stack'[k] = Rest(k)
    BY ZenonT(60) DEF Deeper, Along
  <2> HIDE DEF n
  <2>2. PICK m : m = Len(stack')
    BY ZenonT(60)
  <2>3. n \in Nat /\ (m = n \/ m = n + 1)
    BY <1>1, <2>1, <2>2
  <2>4. \A k \in 1 .. n : k \in 1 .. m
    BY <2>3
  <2> QED
    BY <1>1, <2>1, <2>2, <2>4
<1>3. Waiting \subseteq Waiting' \union {Addr}
  <2>1. SUFFICES ASSUME NEW k \in 1 .. n, NEW a \in stack[k], a # Addr PROVE a \in Waiting'
    BY <1>1 DEF Waiting
  <2>2. a \in stack'[k]
    BY <1>2, <2>1 DEF Rest
  <2> QED
    BY <1>2, <2>2 DEF Waiting
<1>4. \A k \in 1 .. n : stack'[k] \subseteq Waiting
  BY <1>1, <1>2 DEF Rest, Waiting
<1> HIDE DEF more, n
<1>5. Along => Waiting' \subseteq Waiting
  <2>1. SUFFICES ASSUME Along PROVE Waiting' \subseteq Waiting
    OBVIOUS
  <2>2. DOMAIN stack' = 1 .. n
    BY <1>1, <2>1 DEF Along, n
  <2> QED
    BY <1>4, <2>2 DEF Waiting
<1>6. Deeper => Waiting' \subseteq Waiting \union more /\ more \subseteq Waiting'
  <2>1. SUFFICES ASSUME Deeper PROVE Waiting' \subseteq Waiting \union more /\ more \subseteq Waiting'
    OBVIOUS
  <2>2. DOMAIN stack' = 1 .. n + 1 /\ stack'[n + 1] = more
    BY <1>1, <2>1 DEF Deeper, n, more
  <2>3. \A k \in DOMAIN stack' : k \in 1 .. n \/ k = n + 1
    BY <1>1, <2>2
  <2>4. \A k \in DOMAIN stack' : stack'[k] \subseteq Waiting \union more
    BY <1>4, <2>2, <2>3
  <2>5. n + 1 \in DOMAIN stack'
    BY <1>1, <2>2
  <2> QED
    BY <2>2, <2>4, <2>5 DEF Waiting
<1> QED
  BY <1>3, <1>5, <1>6 DEF more

LEMMA FunctionFramesInv ==
  ASSUME machine \in Machines, ScanInv, EnumFunction
  PROVE  FramesInv'
<1> DEFINE n == Len(stack)
           Fit(k, frame) == \E bus \in ReachedIn[k - 1] :
                              /\ frame \subseteq Looked(bus)
                              /\ Tree /\ k > 1 => bus \notin ReachedIn[k - 2]
<1>1. n \in 1 .. DepthMax /\ DOMAIN stack = 1 .. n /\ DOMAIN stack' = 1 .. Len(stack')
  <2>1. ScanTypes
    BY DEF ScanInv
  <2>2. n \in 1 .. DepthMax
    BY FunctionThere
  <2> QED
    BY <2>1, <2>2, FunctionFrames
<1>2. SUFFICES Len(stack') <= DepthMax /\ \A k \in DOMAIN stack' : Fit(k, stack'[k])
  <2>1. machine' = machine
    BY FunctionFrames DEF ScanInv
  <2> QED
    BY <2>1, FixedMachine DEF FramesInv
<1>3. \A k \in 1 .. n : Fit(k, Rest(k))
  BY <1>1 DEF ScanInv, FramesInv, Rest
<1>4. CASE TooDeep \/ TooMany
  BY <1>4, PciConstants DEF TooDeep, TooMany
<1>5. CASE Along
  <2> HIDE DEF Fit
  <2> QED
    BY <1>1, <1>3, <1>5 DEF Along
<1>6. CASE Deeper
  <2> DEFINE bus == Header(Addr).secondary
  <2>1. n + 1 <= DepthMax /\ Len(stack') = n + 1
    <3>1. n # DepthMax /\ Len(stack') = n + 1
      BY <1>6, Zenon DEF Deeper
    <3> HIDE DEF n
    <3> QED
      BY <1>1, <3>1, PciConstants
  <2>2. /\ bus \in ReachedIn[n]
        /\ Tree => bus \notin ReachedIn[n - 1]
    <3>1. Addr \in BridgesOn(ReachedIn[n - 1])
      BY <1>6, FunctionThere DEF Deeper
    <3>2. bus \in ReachedIn[n]
      BY <1>1, <3>1, ReachedUnfolds DEF Secondaries
    <3>3. Tree => bus \notin ReachedIn[n - 1]
      <4>1. Tree /\ n > 1 => Addr[1] \notin ReachedIn[n - 2]
        BY FunctionThere
      <4> HIDE DEF n, bus
      <4> QED
        BY <1>1, <3>1, <4>1, OneFurther DEF bus
    <3> QED
      BY <3>2, <3>3
  <2>3. Fit(n + 1, Looked(bus))
    <3>1. (n + 1) - 1 = n /\ (n + 1) - 2 = n - 1
      BY <1>1
    <3> HIDE DEF n, bus
    <3> QED
      BY <2>2, <3>1
  <2>4. stack'[n + 1] = Looked(bus) /\ \A k \in 1 .. n : stack'[k] = Rest(k)
    BY <1>6 DEF Deeper
  <2>5. \A k \in 1 .. n + 1 : k \in 1 .. n \/ k = n + 1
    BY <1>1
  <2> HIDE DEF Fit, bus, n
  <2> QED
    BY <1>1, <1>3, <2>1, <2>3, <2>4, <2>5
<1> QED
  BY <1>4, <1>5, <1>6, FunctionFrames, SMTT(30) DEF ScanInv

\* The buses the scan has come to.
LEMMA FunctionOpened ==
  ASSUME machine \in Machines, ScanInv, EnumFunction
  PROVE  Opened' = IF Follows(Addr) THEN Opened \union {Header(Addr).secondary} ELSE Opened
<1>1. machine' = machine /\ hosts' = hosts /\ Seen' = Seen \union {Addr}
  BY FunctionFrames, FunctionCached DEF ScanInv
<1> QED
  BY <1>1, FixedMachine DEF Opened

LEMMA FunctionCover ==
  ASSUME machine \in Machines, ScanInv, EnumFunction
  PROVE  CoverInv'
<1>1. machine' = machine /\ pci = "scan" /\ (Deeper \/ Along \/ TooDeep \/ TooMany)
  BY FunctionFrames DEF ScanInv
<1>2. SUFFICES ASSUME ~TooDeep, ~TooMany, NEW bus \in Opened'
               PROVE  Looked(bus) \subseteq Seen' \union Waiting'
  BY <1>1, FixedMachine DEF CoverInv, TooDeep, TooMany
<1>3. Seen' = Seen \union {Addr}
  BY FunctionCached
<1>4. Waiting \subseteq Waiting' \union {Addr}
      /\ (Deeper => Looked(Header(Addr).secondary) \subseteq Waiting')
  BY <1>1, <1>2, FunctionWaiting
<1>5. CASE bus \in Opened
  BY <1>1, <1>3, <1>4, <1>5 DEF ScanInv, CoverInv
<1>6. CASE bus \notin Opened
  <2>1. Follows(Addr) /\ bus = Header(Addr).secondary
    BY <1>2, <1>6, FunctionOpened
  <2>2. Deeper
    BY <1>1, <1>2, <2>1 DEF Along
  <2> QED
    BY <1>4, <2>1, <2>2
<1> QED
  BY <1>5, <1>6

LEMMA FunctionTypes ==
  ASSUME machine \in Machines, ScanInv, EnumFunction
  PROVE  ScanTypes'
<1>1. /\ machine' = machine /\ hosts' = hosts /\ pci = "scan"
      /\ stack' \in Seq(SUBSET DOMAIN machine.pci)
      /\ \/ pci' = "scan" /\ cache_len # CacheRoom
         \/ pci' = "overflow" /\ stack' = <<>> /\ cache_len # CacheRoom
         \/ pci' = "damaged" /\ stack' = <<>> /\ cache_len = CacheRoom
  BY FunctionFrames DEF ScanInv, Deeper, Along, TooDeep, TooMany
<1>2. cache' \in [0 .. CacheWrap - 1 -> (DOMAIN machine.pci) \union {NoEntry}]
  BY FunctionCached
<1>3. cache_len # CacheRoom => cache_len' \in 0 .. CacheRoom /\ Cached' = 0 .. cache_len' - 1
  <2>1. SUFFICES ASSUME cache_len # CacheRoom
                 PROVE  cache_len' \in 0 .. CacheRoom /\ Cached' = 0 .. cache_len' - 1
    OBVIOUS
  <2>2. /\ Cached' = 0 .. cache_len /\ cache_len' = cache_len + 1 /\ cache_len \in 0 .. CacheRoom
    BY <2>1, FunctionCached
  <2> QED
    BY <2>1, <2>2, PciConstants
<1>4. cache_len = CacheRoom => Cached' = 0 .. CacheRoom
  BY FunctionCached
<1>5. hosts' \subseteq Hosts'
  BY <1>1, FixedMachine DEF ScanInv, ScanTypes
<1>6. pci' # "off" /\ pci' \notin {"found", "none"} /\ (pci' # "scan" => stack' = <<>>)
  BY <1>1
<1>7. /\ stack' \in Seq(SUBSET DOMAIN machine'.pci)
      /\ cache' \in [0 .. CacheWrap - 1 -> (DOMAIN machine'.pci) \union {NoEntry}]
  BY <1>1, <1>2
<1>8. /\ pci' # "damaged" => cache_len' \in 0 .. CacheRoom /\ Cached' = 0 .. cache_len' - 1
      /\ pci' = "damaged" => Cached' = 0 .. CacheRoom
  BY <1>1, <1>3, <1>4
<1>9. pci' \in {"off", "scan", "found", "none", "overflow", "damaged"}
  BY <1>1
<1> QED
  BY <1>5, <1>6, <1>7, <1>8, <1>9 DEF ScanTypes

\* Things that are all different are not more than there are to choose from.
LEMMA AtMost ==
  ASSUME NEW S, IsFiniteSet(S), NEW n \in Nat, NEW f, DOMAIN f = 0 .. n - 1,
         \A i \in 0 .. n - 1 : f[i] \in S,
         \A i, j \in 0 .. n - 1 : f[i] = f[j] => i = j
  PROVE  n <= Cardinality(S)
<1> DEFINE g == [i \in 0 .. n - 1 |-> f[i]]
<1>1. g \in Injection(0 .. n - 1, S)
  BY DEF Injection, IsInjective
<1>2. Cardinality(0 .. n - 1) = n
  BY FS_Interval
<1> HIDE DEF g
<1> QED
  BY <1>1, <1>2, FS_Injection

LEMMA FunctionOnce ==
  ASSUME machine \in Machines, ScanInv, EnumFunction
  PROVE  OnceInv'
<1> DEFINE n == Len(stack)
           more == Looked(Header(Addr).secondary)
<1>1. /\ machine' = machine /\ (Deeper \/ Along \/ TooDeep \/ TooMany)
      /\ DOMAIN stack = 1 .. n /\ DOMAIN stack' = 1 .. Len(stack')
  BY FunctionFrames DEF ScanInv
<1>2. SUFFICES ASSUME Tree PROVE OnceInv'
  BY <1>1, FixedMachine DEF OnceInv
<1>3. /\ \A i, j \in Cached : cache[i] = cache[j] => i = j
      /\ Seen \intersect Waiting = {}
      /\ \A k, l \in DOMAIN stack : k # l => stack[k] \intersect stack[l] = {}
      /\ \A a \in Seen \union Waiting : a[1] \in Opened
  BY <1>2 DEF ScanInv, OnceInv
<1>4. /\ Seen' = Seen \union {Addr} /\ Cached' = Cached \union {cache_len}
      /\ cache'[cache_len] = Addr /\ \A i \in Cached : cache'[i] = cache[i]
  BY FunctionCached
<1>5. /\ n \in 1 .. DepthMax /\ Addr \in Waiting /\ Addr \in There /\ Addr \in stack[n]
      /\ Addr[1] \in ReachedIn[n - 1]
      /\ Tree /\ n > 1 => Addr[1] \notin ReachedIn[n - 2]
      /\ Follows(Addr) => Addr \in BridgesOn(ReachedIn[n - 1])
  BY FunctionThere
<1>6. Addr \notin Seen
  BY <1>3, <1>5
<1>7. \A i \in Cached : cache[i] \in Seen
  BY DEF Seen
<1>9. \A i, j \in Cached' : cache'[i] = cache'[j] => i = j
  BY <1>3, <1>4, <1>6, <1>7
<1>11. Opened \subseteq Opened' /\ (Follows(Addr) => Opened' = Opened \union {Header(Addr).secondary})
  BY FunctionOpened
<1>12. \A k \in 1 .. n : Rest(k) \subseteq stack[k] /\ Addr \notin Rest(k)
  <2>1. n \in 1 .. n
    BY <1>5, PciConstants
  <2> TAKE k \in 1 .. n
  <2>2. CASE k = n
    BY <2>2 DEF Rest
  <2>3. CASE k # n
    <3>1. Rest(k) = stack[k]
      BY <2>3, SMTT(60) DEF Rest
    <3>2. stack[k] \intersect stack[n] = {}
      BY <1>1, <1>3, <2>1, <2>3
    <3> QED
      BY <1>5, <3>1, <3>2
  <2> QED
    BY <2>2, <2>3
<1>13. \A k, l \in 1 .. n : k # l => Rest(k) \intersect Rest(l) = {}
  BY <1>1, <1>3, <1>12
<1>14. \A k \in 1 .. n : Rest(k) \subseteq Waiting
  BY <1>1, <1>12 DEF Waiting
<1>15. CASE TooDeep \/ TooMany
  <2>1. stack' = <<>> /\ Waiting' = {} /\ DOMAIN stack' = {}
    BY <1>15 DEF TooDeep, TooMany, Waiting
  <2>2. \A a \in Seen' \union Waiting' : a[1] \in Opened'
    BY <1>3, <1>4, <1>5, <1>11, <2>1
  <2> QED
    BY <1>9, <2>1, <2>2 DEF OnceInv
<1>16. CASE Along
  <2>1. /\ DOMAIN stack' = 1 .. n /\ \A k \in 1 .. n : stack'[k] = Rest(k)
    BY <1>1, <1>16, Zenon DEF Along
  <2>2. Waiting' \subseteq Waiting /\ Addr \notin Waiting'
    BY <1>12, <1>14, <2>1 DEF Waiting
  <2>3. Seen' \intersect Waiting' = {}
    BY <1>3, <1>4, <2>2
  <2>4. \A a \in Seen' \union Waiting' : a[1] \in Opened'
    BY <1>3, <1>4, <1>5, <1>11, <2>2
  <2>5. \A k, l \in DOMAIN stack' : k # l => stack'[k] \intersect stack'[l] = {}
    BY <1>13, <2>1
  <2> QED
    BY <1>9, <2>3, <2>4, <2>5 DEF OnceInv
<1>17. CASE Deeper
  <2> DEFINE bus == Header(Addr).secondary
  <2>1. Follows(Addr) /\ Addr \in BridgesOn(ReachedIn[n - 1])
    BY <1>5, <1>17 DEF Deeper
  <2>2. bus \in Reached /\ Addr \in BridgesOn(Reached)
    <3>1. bus \in ReachedIn[n] /\ Addr \in BridgesOn(Reached)
      BY <1>2, <1>5, <2>1, OneFurther
    <3>2. ReachedIn[n] \subseteq Reached
      BY <1>5, ReachedGrows, PciConstants
    <3> QED
      BY <3>1, <3>2
  <2>3. bus \notin Opened
    <3>1. SUFFICES ASSUME NEW a \in Seen, Follows(a), Header(a).secondary = bus PROVE FALSE
      BY <1>2, <2>2, OneWay DEF Opened
    <3>2. a \in BridgesOn(Reached)
      BY <3>1 DEF ScanInv, There, BridgesOn, Follows
    <3>3. a = Addr
      BY <1>2, <2>2, <3>1, <3>2, OneWay
    <3> QED
      BY <1>6, <3>1, <3>3
  <2>4. \A a \in more : a[1] = bus
    BY LookedAddresses
  <2> HIDE DEF more, bus
  <2>5. more \intersect (Seen \union Waiting) = {} /\ Addr \notin more
    BY <1>3, <1>5, <2>3, <2>4
  <2>6. /\ Len(stack') = n + 1 /\ \A k \in 1 .. n : stack'[k] = Rest(k)
        /\ stack'[n + 1] = more
    BY <1>17, ZenonT(60) DEF Deeper, more
  <2>7. DOMAIN stack' = 1 .. n + 1 /\ \A k \in DOMAIN stack' : k \in 1 .. n \/ k = n + 1
    BY <1>1, <1>5, <2>6, PciConstants
  <2>8. Waiting' \subseteq Waiting \union more /\ Addr \notin Waiting'
    BY <1>12, <1>14, <2>5, <2>6, <2>7 DEF Waiting
  <2>9. Seen' \intersect Waiting' = {}
    BY <1>3, <1>4, <2>5, <2>8
  <2>10. bus \in Opened'
    BY <1>11, <2>1 DEF bus
  <2>11. \A a \in Seen' \union Waiting' : a[1] \in Opened'
    BY <1>3, <1>4, <1>5, <1>11, <2>4, <2>8, <2>10
  <2>12. \A k, l \in DOMAIN stack' : k # l => stack'[k] \intersect stack'[l] = {}
    BY <1>13, <1>14, <2>5, <2>6, <2>7
  <2> QED
    BY <1>9, <2>9, <2>11, <2>12 DEF OnceInv
<1> QED
  BY <1>1, <1>15, <1>16, <1>17

LEMMA ScanFunction ==
  ASSUME machine \in Machines, ScanInv, EnumFunction
  PROVE  ScanInv'
<1>1. /\ machine' = machine /\ pci = "scan"
      /\ (Deeper \/ Along \/ TooDeep \/ TooMany)
  BY FunctionFrames DEF ScanInv
<1>2. There' = There /\ Tree' = Tree /\ Near' = Near
  BY <1>1, FixedMachine, FixedScan
<1>3. Seen' \subseteq There'
  <2>1. Seen' \subseteq Seen \union {Addr} /\ Addr \in There /\ Seen \subseteq There
    BY FunctionCached, FunctionThere DEF ScanInv
  <2> QED
    BY <1>2, <2>1
<1>4. FarInv'
  <2>1. SUFFICES ASSUME TooDeep, Tree PROVE ~Near
    BY <1>1, <1>2 DEF FarInv, Deeper, Along, TooMany
  <2>2. /\ Addr \in BridgesOn(ReachedIn[DepthMax - 1]) /\ DepthMax \in 1 .. DepthMax
        /\ DepthMax > 1 => Addr[1] \notin ReachedIn[DepthMax - 2]
    BY <2>1, FunctionThere, PciConstants DEF TooDeep
  <2>3. /\ Header(Addr).secondary \in ReachedIn[DepthMax]
        /\ Header(Addr).secondary \notin ReachedIn[DepthMax - 1]
    BY <2>1, <2>2, OneFurther
  <2> QED
    BY <2>3 DEF Near, Reached
<1> QED
  BY <1>3, <1>4, FunctionTypes, FunctionFramesInv, FunctionCover, FunctionOnce DEF ScanInv

LEMMA ScanReturn ==
  ASSUME machine \in Machines, ScanInv, EnumReturn
  PROVE  ScanInv'
<1> DEFINE n == Len(stack)
           S == SUBSET DOMAIN machine.pci
<1>1. /\ machine' = machine /\ pci' = pci /\ hosts' = hosts /\ pci = "scan"
      /\ cache' = cache /\ cache_len' = cache_len
      /\ stack' = SubSeq(stack, 1, n - 1) /\ stack # <<>> /\ stack[n] = {}
  BY DEF EnumReturn, Front, Last
<1>2. stack \in Seq(S) /\ n \in Nat \ {0} /\ DOMAIN stack = 1 .. n
  <2>1. stack \in Seq(S)
    BY DEF ScanInv, ScanTypes
  <2> QED
    BY <1>1, <2>1
<1>3. /\ stack' \in Seq(S) /\ Len(stack') = n - 1 /\ DOMAIN stack' = 1 .. n - 1
      /\ \A k \in 1 .. n - 1 : stack'[k] = stack[k]
  <2> HIDE DEF S
  <2> QED
    BY <1>1, <1>2
<1> HIDE DEF S, n
<1>4. Waiting' = Waiting
  <2>1. \A k \in 1 .. n : k \in 1 .. n - 1 \/ stack[k] = {}
    BY <1>1, <1>2
  <2> QED
    BY <1>2, <1>3, <2>1 DEF Waiting
<1>5. Cached' = Cached /\ Seen' = Seen
  BY <1>1 DEF Cached, Seen
<1>6. There' = There /\ Tree' = Tree /\ Opened' = Opened
  BY <1>1, <1>5, FixedMachine, FixedScan DEF Opened
<1>7. ScanTypes'
  BY <1>1, <1>3, <1>5, FixedMachine DEF ScanInv, ScanTypes, S
<1>8. FramesInv'
  <2>1. Len(stack') <= DepthMax
    BY <1>2, <1>3, PciConstants DEF ScanInv, FramesInv, n
  <2> DEFINE Fit(k, frame) == \E bus \in ReachedIn[k - 1] :
                                /\ frame \subseteq Looked(bus)
                                /\ Tree /\ k > 1 => bus \notin ReachedIn[k - 2]
  <2>2. \A k \in 1 .. n : Fit(k, stack[k])
    BY <1>2 DEF ScanInv, FramesInv
  <2>3. \A k \in 1 .. n - 1 : k \in 1 .. n
    BY <1>2
  <2>4. \A k \in DOMAIN stack' : Fit(k, stack'[k])
    <3> HIDE DEF Fit
    <3> QED
      BY <1>3, <2>2, <2>3
  <2>5. machine' = machine
    BY <1>1
  <2> QED
    BY <2>1, <2>4, <2>5, FixedMachine DEF FramesInv
<1>9. CoverInv'
  BY <1>1, <1>4, <1>5, <1>6, FixedMachine DEF ScanInv, CoverInv
<1>10. OnceInv'
  <2>1. \A k \in DOMAIN stack' : k \in DOMAIN stack /\ stack'[k] = stack[k]
    BY <1>2, <1>3
  <2> QED
    BY <1>1, <1>4, <1>5, <1>6, <2>1 DEF ScanInv, OnceInv
<1> QED
  BY <1>1, <1>5, <1>6, <1>7, <1>8, <1>9, <1>10 DEF ScanInv, FarInv

\* Steps that move nothing but pci and hosts, before the scan and after it.
LEMMA ScanEnds ==
  ASSUME machine \in Machines, ScanInv, PciInit \/ PciReturn
  PROVE  ScanInv'
<1>1. /\ machine' = machine /\ stack' = stack /\ stack = <<>>
      /\ cache' = cache /\ cache_len' = cache_len
      /\ pci' \in {"scan", "found", "none"} /\ pci \in {"off", "scan"}
      /\ pci = "off" => pci' = "scan" /\ hosts' = Hosts
      /\ pci = "scan" => pci' \in {"found", "none"} /\ hosts' = hosts /\ hosts = {}
  BY DEF ScanInv, ScanTypes, PciInit, PciReturn
<1>2. /\ Cached' = Cached /\ Seen' = Seen
      /\ Waiting = {} /\ Waiting' = {}
  BY <1>1 DEF Cached, Seen, Waiting
<1>3. pci = "off" => Seen = {}
  BY DEF ScanInv, ScanTypes, Seen
<1>4. There' = There /\ Tree' = Tree
  BY <1>1, FixedMachine, FixedScan
<1>5. (pci = "off" => Opened' = {}) /\ (pci = "scan" => Opened' = Opened)
  BY <1>1, <1>2, <1>3, FixedMachine DEF Opened
<1>6. ScanTypes'
  BY <1>1, <1>2, FixedMachine DEF ScanInv, ScanTypes
<1>7. FramesInv'
  BY <1>1, PciConstants DEF FramesInv
<1>8. CoverInv'
  BY <1>1, <1>2, <1>5, FixedMachine DEF ScanInv, CoverInv
<1>9. OnceInv'
  <2>1. \A a \in Seen' \union Waiting' : Tree => a[1] \in Opened'
    BY <1>1, <1>2, <1>3, <1>5 DEF ScanInv, OnceInv
  <2> QED
    BY <1>1, <1>2, <1>4, <2>1 DEF ScanInv, OnceInv
<1> QED
  BY <1>1, <1>2, <1>4, <1>6, <1>7, <1>8, <1>9 DEF ScanInv, FarInv

LEMMA ScanRests ==
  ASSUME ScanInv, UNCHANGED pciVars
  PROVE  ScanInv'
<1>1. /\ machine' = machine /\ pci' = pci /\ hosts' = hosts /\ stack' = stack
      /\ cache' = cache /\ cache_len' = cache_len
  BY DEF pciVars
<1>2. Cached' = Cached /\ Seen' = Seen /\ Waiting' = Waiting
  BY <1>1 DEF Cached, Seen, Waiting
<1>3. There' = There /\ Tree' = Tree /\ Opened' = Opened
  BY <1>1, <1>2, FixedMachine, FixedScan DEF Opened
<1>4. ScanTypes' /\ FramesInv'
  BY <1>1, <1>2, FixedMachine DEF ScanInv, ScanTypes, FramesInv
<1>5. CoverInv' /\ OnceInv'
  BY <1>1, <1>2, <1>3, FixedMachine DEF ScanInv, CoverInv, OnceInv
<1> QED
  BY <1>1, <1>2, <1>3, <1>4, <1>5, FixedMachine DEF ScanInv, FarInv

LEMMA ScanInductive ==
  ASSUME Inv, ScanInv, [Next]_vars
  PROVE  ScanInv'
<1>1. PciStep \/ UNCHANGED pciVars
  <2>1. DriverStep
    BY NextPlaces DEF Inv, ReadInv
  <2>2. CASE Calls
    BY <2>2 DEF Calls, Request
  <2>3. CASE AtaStep
    BY <2>3 DEF AtaStep, AtaInit, ProbeSelect, ProbeError, ProbeIdent, ReadSector, ReadFails,
                ReadReturns, ReadFrame
  <2>4. CASE \E d \in AllDrives : DriveAnswer(d)
    BY <2>4 DEF DriveAnswer
  <2> QED
    BY <2>1, <2>2, <2>3, <2>4 DEF DriverStep
<1>2. machine \in Machines
  BY DEF Inv, Types, AtaTypes
<1> QED
  BY <1>1, <1>2, ScanHost, ScanFunction, ScanReturn, ScanEnds, ScanRests DEF PciStep

\* When the scan is over it has come to every bus there is.
LEMMA ScanComplete ==
  ASSUME machine \in Machines, ScanInv, pci \in {"found", "none"}
  PROVE  There = Seen
<1>1. /\ stack = <<>> /\ hosts = {} /\ Waiting = {} /\ Seen \subseteq There
      /\ \A bus \in Opened : Looked(bus) \subseteq Seen
  BY DEF ScanInv, ScanTypes, CoverInv, Waiting
<1> DEFINE S == {n \in Nat : n <= DepthMax => ReachedIn[n] \subseteq Opened}
<1>2. 0 \in S
  BY <1>1, ReachedUnfolds DEF Opened
<1>3. ASSUME NEW n \in Nat, n \in S PROVE n + 1 \in S
  <2>1. SUFFICES ASSUME n + 1 <= DepthMax, NEW bus \in ReachedIn[n + 1] PROVE bus \in Opened
    OBVIOUS
  <2>2. n + 1 \in 1 .. DepthMax /\ (n + 1) - 1 = n /\ n <= DepthMax
    BY <2>1, PciConstants
  <2>3. ReachedIn[n] \subseteq Opened
    BY <1>3, <2>2
  <2>4. CASE bus \in Hosts
    BY <1>1, <2>4 DEF Opened
  <2>5. CASE \E a \in BridgesOn(ReachedIn[n]) : Header(a).secondary = bus
    <3>1. PICK a \in BridgesOn(ReachedIn[n]) : Header(a).secondary = bus
      BY <2>5
    <3>2. a[1] \in Opened /\ a \in Looked(a[1]) /\ Follows(a)
      BY <2>3, <3>1, BridgesLooked
    <3>3. a \in Seen
      BY <1>1, <3>2
    <3> QED
      BY <3>1, <3>2, <3>3 DEF Opened
  <2> QED
    BY <2>1, <2>2, <2>4, <2>5, ReachedOver
<1>4. Reached \subseteq Opened
  <2>1. DepthMax \in Nat /\ DepthMax <= DepthMax
    BY PciConstants
  <2>2. DepthMax \in S
    <3> HIDE DEF S
    <3> QED
      BY <1>2, <1>3, <2>1, InductionOverNat
  <2> QED
    BY <2>1, <2>2 DEF Reached
<1> QED
  BY <1>1, <1>4, ThereIsFinite

\* The functions of the buses that are reached are found, each once if there is one way to
\* each bus, but for the first of a device with several: ScanInv says it of every state,
\* and when the scan is over nothing waits.
THEOREM ScanFindsAll == Spec => []CacheExact
<1>1. Init => ScanInv
  BY ScanStarts
<1>2. Inv /\ ScanInv /\ [Next]_vars => ScanInv'
  BY ScanInductive
<1>3. ASSUME Inv, ScanInv PROVE CacheExact
  <2> DEFINE there == {a \in Functions : a[1] \in Reached}
  <2>1. machine \in Machines /\ There = {a \in there : ~Skipped(a)} /\ IsFiniteSet(There)
    <3>1. machine \in Machines
      BY <1>3 DEF Inv, Types, AtaTypes
    <3> QED
      BY <3>1, ThereIsFinite DEF There
  <2>2. \A i \in Cached : cache[i] \in There
    BY <1>3 DEF ScanInv, Seen
  <2>3. pci \in {"found", "none"} => There = {cache[i] : i \in Cached}
    BY <1>3, <2>1, ScanComplete DEF Seen
  <2>4. ASSUME pci \in {"found", "none"}, Tree, NEW a \in There
        PROVE  Cardinality({i \in Cached : cache[i] = a}) = 1
    <3>1. \A i, j \in Cached : cache[i] = cache[j] => i = j
      BY <1>3, <2>4 DEF ScanInv, OnceInv
    <3>2. PICK i \in Cached : cache[i] = a
      BY <2>3, <2>4
    <3>3. {j \in Cached : cache[j] = a} = {i}
      BY <3>1, <3>2
    <3> QED
      BY <3>3, FS_Singleton
  <2>5. pci = "overflow" => ~(Tree /\ Near)
    BY <1>3 DEF ScanInv, FarInv
  <2>6. ASSUME pci = "damaged", Tree PROVE Cardinality(There) > CacheRoom
    <3>1. /\ Cached = 0 .. CacheRoom
          /\ \A k, l \in Cached : cache[k] = cache[l] => k = l
      BY <1>3, <2>6 DEF ScanInv, ScanTypes, OnceInv
    <3> DEFINE f == [k \in 0 .. (CacheRoom + 1) - 1 |-> cache[k]]
    <3>2. CacheRoom + 1 \in Nat /\ 0 .. (CacheRoom + 1) - 1 = Cached
      BY <3>1, PciConstants
    <3>3. DOMAIN f = 0 .. (CacheRoom + 1) - 1 /\ \A k \in 0 .. (CacheRoom + 1) - 1 : f[k] = cache[k]
      OBVIOUS
    <3> HIDE DEF f
    <3>4. /\ \A k \in 0 .. (CacheRoom + 1) - 1 : f[k] \in There
          /\ \A k, l \in 0 .. (CacheRoom + 1) - 1 : f[k] = f[l] => k = l
      BY <2>2, <3>1, <3>2, <3>3
    <3>5. CacheRoom + 1 <= Cardinality(There)
      BY <2>1, <3>2, <3>3, <3>4, AtMost
    <3>6. Cardinality(There) \in Nat
      BY <2>1, FS_CardinalityType
    <3> QED
      BY <3>5, <3>6, PciConstants
  <2> HIDE DEF there
  <2>7. \A i \in Cached : cache[i] \in there /\ ~Skipped(cache[i])
    BY <2>1, <2>2
  <2>8. ASSUME pci \in {"found", "none"}, NEW a \in there
        PROVE  Skipped(a) \/ \E i \in Cached : cache[i] = a
    BY <2>1, <2>3, <2>8
  <2>9. ASSUME pci \in {"found", "none"}, Tree, NEW a \in there, ~Skipped(a)
        PROVE  Cardinality({i \in Cached : cache[i] = a}) = 1
    BY <2>1, <2>4, <2>9
  <2>10. pci = "damaged" /\ Tree => Cardinality({a \in there : ~Skipped(a)}) > CacheRoom
    BY <2>1, <2>6
  <2> QED
    BY <2>5, <2>7, <2>8, <2>9, <2>10 DEF CacheExact, there
<1> QED
  BY <1>1, <1>2, <1>3, InvInitially, InvInductive, PTL DEF Spec

=============================================================================
