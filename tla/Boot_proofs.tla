----------------------------- MODULE Boot_proofs -----------------------------
(***************************************************************************)
(* Theorems about the boot chain, for every disk, every machine, every map *)
(* of its memory, and every size of a word, a segment, a transfer, a page  *)
(* and a page table.                                                       *)
(*                                                                         *)
(* CopyInv is what makes PartitionLoaded inductive: while the boot record  *)
(* copies, the place the packet points at, the LBA in it, the counter and  *)
(* the sectors that are loaded all tell the same number of passes.         *)
(*                                                                         *)
(* LoadInv is what makes FreeIsKnown and OwnersApart inductive: page       *)
(* tables are taken from memory in ascending order, first below the        *)
(* placement address and then from the end of the heap; blocks come from   *)
(* the entries of the map, which sorting does not change.                  *)
(***************************************************************************)
EXTENDS Boot, Iteration

MbrPlaces ==
  {"test_mem", "test_mbr_part", "test_ext", "reset_disk", "read_gpt",
   "read_part_arr", "test_part", "copy_block", "jump", "gone", "hang", "wild"}

MbrTypes ==
  /\ mbr \in MbrPlaces
  /\ mbr # "gone" => parts \in Tables
  /\ entry \in 1 .. 4

\* How often the loop goes round for a size, where it ends.
Passes(size) == IF Iterations(size) = 0 THEN Word ELSE Iterations(size)

\* What the sectors of memory hold after k passes.
Copied(p, k) == [i \in 1 .. k |-> (p.start + i - 1) % Dword]

Chosen(p) == p.bbp /\ ~p.far /\ bbp_size = (p.end - p.start) % Dword

\* The packet after k passes of the loop.
PacketAt(p, k) ==
  /\ dap.segm \in 0 .. Segments - 1 /\ dap.buff \in 0 .. SegmentSectors - 1
  /\ Target(dap) = BOOT_LOC + k
  /\ dap.lba = (p.start + k) % Dword

CopyInv ==
  /\ mbr \in {"test_mem", "test_mbr_part", "test_ext", "reset_disk", "read_gpt",
              "read_part_arr", "test_part"} => loaded = <<>>
  /\ mbr = "copy_block" =>
       /\ Chosen(parts[entry])
       /\ \/ Target(dap) \in 0 .. BOOT_LOC - 1
          \/ \E k \in 0 .. Passes(bbp_size) - 1 :
               /\ PacketAt(parts[entry], k)
               /\ cx = (Passes(bbp_size) - k) % Word
               /\ loaded = Copied(parts[entry], k)
  /\ mbr = "jump" =>
       /\ Chosen(parts[entry])
       /\ Passes(bbp_size) <= Segments * SegmentSectors - BOOT_LOC
       /\ loaded = Copied(parts[entry], Passes(bbp_size))

MbrInv == MbrTypes /\ CopyInv

-----------------------------------------------------------------------------
(* The counter *)

\* The loop of the boot record goes round at least once and at most a word's times.
LEMMA PassesRange ==
  ASSUME NEW size \in 0 .. Dword - 1
  PROVE  /\ Passes(size) \in 1 .. Word
         /\ Iterations(size) = Passes(size) % Word
<1>1. Word \in Nat \ {0}
  BY BootConstants
<1>2. \A n \in Int : n % Word \in 0 .. Word - 1
  BY <1>1
<1>3. Iterations(size) \in 0 .. Word - 1
  BY <1>2, BootConstants DEF Iterations
<1> QED
  BY <1>1, <1>3, Wrapping DEF Passes

\* Each pass takes one off the counter, which is zero after the last one.
LEMMA CounterFalls ==
  ASSUME NEW n \in 1 .. Word, NEW k \in 0 .. n - 1
  PROVE  /\ (((n - k) % Word) - 1) % Word = (n - (k + 1)) % Word
         /\ (n - (k + 1)) % Word = 0 <=> k + 1 = n
<1>1. Word \in Nat \ {0, 1} /\ n - (k + 1) \in 0 .. Word - 1
  BY BootConstants
<1>2. (n - (k + 1)) % Word = n - (k + 1)
  BY <1>1, Wrapping
<1>3. CASE n - k = Word
  BY <1>1, <1>2, <1>3, Wrapping
<1>4. CASE n - k # Word
  <2>1. n - k \in 0 .. Word - 1
    BY <1>1, <1>4
  <2>2. (n - k) % Word = n - k
    BY <1>1, <2>1, Wrapping
  <2> QED
    BY <1>1, <1>2, <2>2
<1> QED
  BY <1>3, <1>4

-----------------------------------------------------------------------------
(* The copy *)

\* The packet after one more pass: the next sector, or the first one of memory.
LEMMA NextPacketAt ==
  ASSUME NEW p \in Entries, NEW k \in Nat, PacketAt(p, k), dap' = NextPacket(dap)
  PROVE  Target(dap') \in 0 .. BOOT_LOC - 1 \/ PacketAt(p, k + 1)'
<1> DEFINE s == dap.segm
           b == dap.buff
<1>1. /\ SegmentSectors \in Nat \ {0} /\ Segments \in Nat \ {0} /\ Dword \in Nat \ {0}
      /\ BOOT_LOC \in 1 .. SegmentSectors - 1
  BY BootConstants
<1>2. /\ s \in 0 .. Segments - 1 /\ b \in 0 .. SegmentSectors - 1
      /\ s * SegmentSectors + b = BOOT_LOC + k
      /\ dap.lba = (p.start + k) % Dword
  BY DEF PacketAt, Target
<1>7. s \in 0 .. Segments - 1 /\ b \in 0 .. SegmentSectors - 1
  BY <1>2
<1>8. IF b + 1 < SegmentSectors
      THEN (b + 1) \div SegmentSectors = 0 /\ (b + 1) % SegmentSectors = b + 1
      ELSE (b + 1) \div SegmentSectors = 1 /\ (b + 1) % SegmentSectors = 0
  BY <1>1, <1>7, Carry
<1>9. s % Segments = s /\ Segments % Segments = 0
      /\ (s + 1 < Segments => (s + 1) % Segments = s + 1)
  <2>1. s + 1 < Segments => s + 1 \in 0 .. Segments - 1
    BY <1>1, <1>7
  <2> QED
    BY <1>1, <1>7, <2>1, Wrapping
<1>3. /\ dap'.segm = (s + (b + 1) \div SegmentSectors) % Segments
      /\ dap'.buff = (b + 1) % SegmentSectors
      /\ dap'.lba  = (dap.lba + 1) % Dword
  BY DEF NextPacket
<1> HIDE DEF s, b
<1>4. dap'.lba = (p.start + (k + 1)) % Dword
  <2>1. p.start + k \in Int /\ (p.start + k) + 1 = p.start + (k + 1)
    BY <1>1 DEF Entries
  <2>2. (((p.start + k) % Dword) + 1) % Dword = ((p.start + k) + 1) % Dword
    BY <1>1, <2>1, NextWraps
  <2> QED
    BY <1>2, <1>3, <2>1, <2>2
<1>5. CASE b + 1 < SegmentSectors
  <2>1. dap'.buff = b + 1 /\ dap'.segm = s
    BY <1>3, <1>5, <1>7, <1>8, <1>9
  <2> QED
    BY <1>1, <1>2, <1>4, <1>5, <2>1 DEF PacketAt, Target
<1>6. CASE b + 1 = SegmentSectors
  <2>1. dap'.buff = 0 /\ dap'.segm = (s + 1) % Segments
    BY <1>1, <1>3, <1>6, <1>7, <1>8
  <2>2. CASE s + 1 < Segments
    <3>1. dap'.segm = s + 1
      BY <1>9, <2>1, <2>2
    <3>2. (s + 1) * SegmentSectors + 0 = BOOT_LOC + (k + 1)
      BY <1>1, <1>2, <1>6
    <3>3. dap'.segm \in 0 .. Segments - 1 /\ dap'.buff \in 0 .. SegmentSectors - 1
      BY <1>1, <1>7, <2>1, <2>2, <3>1
    <3>4. Target(dap') = BOOT_LOC + (k + 1)
      BY <2>1, <3>1, <3>2 DEF Target
    <3> QED
      BY <1>4, <3>3, <3>4 DEF PacketAt
  <2>3. CASE s + 1 = Segments
    <3>1. dap'.segm = 0
      BY <1>9, <2>1, <2>3
    <3> QED
      BY <1>1, <2>1, <3>1 DEF Target
  <2> QED
    BY <1>1, <1>2, <2>2, <2>3
<1> QED
  BY <1>1, <1>2, <1>5, <1>6

\* A pass adds one sector to those that are loaded.
LEMMA OneMoreSector ==
  ASSUME NEW p \in Entries, NEW k \in Nat, PacketAt(p, k), loaded = Copied(p, k),
         loaded' = [i \in DOMAIN loaded \union {Target(dap) - BOOT_LOC + 1} |->
                      IF i = Target(dap) - BOOT_LOC + 1 THEN dap.lba ELSE loaded[i]]
  PROVE  loaded' = Copied(p, k + 1)
<1>1. Target(dap) - BOOT_LOC + 1 = k + 1 /\ dap.lba = (p.start + k) % Dword
  BY BootConstants DEF PacketAt
<1>2. loaded' = [i \in (1 .. k) \union {k + 1} |->
                   IF i = k + 1 THEN (p.start + k) % Dword ELSE loaded[i]]
  BY <1>1 DEF Copied
<1>3. (1 .. k) \union {k + 1} = 1 .. (k + 1)
  OBVIOUS
<1>4. ASSUME NEW i \in 1 .. (k + 1)
      PROVE  (IF i = k + 1 THEN (p.start + k) % Dword ELSE loaded[i])
               = (p.start + i - 1) % Dword
  <2>1. CASE i = k + 1
    <3>1. p.start + i - 1 = p.start + k
      BY <2>1 DEF Entries
    <3> QED
      BY <2>1, <3>1
  <2>2. CASE i # k + 1
    <3>1. i \in 1 .. k
      BY <2>2
    <3> QED
      BY <2>2, <3>1 DEF Copied
  <2> QED
    BY <2>1, <2>2
<1> QED
  BY <1>2, <1>3, <1>4 DEF Copied

\* The packet points into memory.
LEMMA PacketInMemory ==
  ASSUME NEW p \in Entries, NEW k \in Nat, PacketAt(p, k)
  PROVE  BOOT_LOC + k + 1 <= Segments * SegmentSectors
<1> DEFINE s == dap.segm
           b == dap.buff
<1>1. /\ SegmentSectors \in Nat \ {0} /\ Segments \in Nat \ {0}
      /\ BOOT_LOC \in 1 .. SegmentSectors - 1
  BY BootConstants
<1>2. /\ s \in 0 .. Segments - 1 /\ b \in 0 .. SegmentSectors - 1
      /\ s * SegmentSectors + b = BOOT_LOC + k
  BY DEF PacketAt, Target
<1> HIDE DEF s, b
<1>3. (s + 1) * SegmentSectors <= Segments * SegmentSectors
  <2>1. \A d, m \in Nat : 0 <= d * m
    OBVIOUS
  <2>2. Segments - (s + 1) \in Nat
    BY <1>1, <1>2
  <2>3. 0 <= (Segments - (s + 1)) * SegmentSectors
    BY <1>1, <2>1, <2>2
  <2> QED
    BY <1>1, <1>2, <2>3
<1> QED
  BY <1>1, <1>2, <1>3

-----------------------------------------------------------------------------
(* The boot record's steps *)

LEMMA InitMbr == Init => MbrInv
<1> SUFFICES ASSUME Init PROVE MbrInv
  OBVIOUS
<1>1. MbrTypes
  BY DEF Init, BootInit, MbrTypes, MbrPlaces
<1>2. CopyInv
  BY DEF Init, BootInit, CopyInv
<1> QED
  BY <1>1, <1>2 DEF MbrInv

\* The entry the boot record looks at is one of the four it has read.
LEMMA EntryTyped ==
  ASSUME MbrTypes, mbr # "gone"
  PROVE  parts[entry] \in Entries
  BY FourEntries DEF MbrTypes

LEMMA PrepareCopyInv ==
  ASSUME MbrInv, PrepareCopy
  PROVE  MbrInv'
<1>0. PICK p \in Entries : p = parts[entry]
  BY EntryTyped DEF MbrInv, PrepareCopy
<1>1. /\ mbr = "test_part" /\ p.bbp /\ loaded = <<>>
      /\ UNCHANGED <<parts, entry, loaded>> /\ parts'[entry'] = p
      /\ parts \in Tables /\ entry \in 1 .. 4
  BY <1>0 DEF MbrInv, MbrTypes, CopyInv, PrepareCopy
<1>2. CASE p.far
  BY <1>0, <1>1, <1>2 DEF MbrInv, MbrTypes, CopyInv, MbrPlaces, PrepareCopy
<1>3. CASE ~p.far
  <2>1. /\ mbr' = "copy_block"
        /\ bbp_size' = (p.end - p.start) % Dword
        /\ cx' = Iterations(bbp_size')
        /\ dap' = [segm |-> 0, buff |-> BOOT_LOC, lba |-> p.start]
    BY <1>0, <1>1, <1>3 DEF PrepareCopy
  <2>2. bbp_size' \in 0 .. Dword - 1
    BY <1>1, <2>1, BootConstants DEF Entries
  <2>3. Passes(bbp_size') \in 1 .. Word /\ cx' = Passes(bbp_size') % Word
    BY <2>1, <2>2, PassesRange
  <2>4. PacketAt(p, 0)'
    <3>1. p.start % Dword = p.start /\ p.start + 0 = p.start
      <4>1. p.start \in 0 .. Dword - 1
        BY DEF Entries
      <4>2. Dword \in Nat \ {0}
        BY BootConstants
      <4> QED
        BY <4>1, <4>2, Wrapping
    <3>2. dap'.segm \in 0 .. Segments - 1 /\ dap'.buff \in 0 .. SegmentSectors - 1
      BY <2>1, BootConstants
    <3>3. Target(dap') = BOOT_LOC + 0
      BY <2>1, BootConstants DEF Target
    <3> QED
      BY <1>1, <2>1, <3>1, <3>2, <3>3 DEF PacketAt
  <2>5. loaded' = Copied(p, 0)
    BY <1>1 DEF Copied
  <2>6. 0 \in 0 .. Passes(bbp_size') - 1 /\ Passes(bbp_size') - 0 = Passes(bbp_size')
    BY <2>3, BootConstants
  <2>7. \E k \in 0 .. Passes(bbp_size') - 1 :
          /\ PacketAt(p, k)'
          /\ cx' = (Passes(bbp_size') - k) % Word
          /\ loaded' = Copied(p, k)
    BY <2>3, <2>4, <2>5, <2>6
  <2>8. Chosen(p)'
    BY <1>1, <1>3, <2>1 DEF Chosen
  <2>9. CopyInv'
    BY <1>1, <2>1, <2>7, <2>8 DEF CopyInv
  <2> QED
    BY <1>1, <2>1, <2>9 DEF MbrInv, MbrTypes, MbrPlaces
<1> QED
  BY <1>2, <1>3

LEMMA CopyBlockInv ==
  ASSUME MbrInv, CopyBlock
  PROVE  MbrInv'
<1>0. PICK p \in Entries : p = parts[entry]
  BY EntryTyped DEF MbrInv, CopyBlock
<1> DEFINE n == Passes(bbp_size)
<1>1. /\ mbr = "copy_block" /\ Chosen(p) /\ parts'[entry'] = p
      /\ UNCHANGED <<parts, entry, bbp_size>>
      /\ parts \in Tables /\ entry \in 1 .. 4
  BY <1>0 DEF MbrInv, MbrTypes, CopyInv, CopyBlock
<1>2. n \in 1 .. Word /\ n' = n
  <2>1. bbp_size \in 0 .. Dword - 1
    BY <1>1, BootConstants DEF Entries, Chosen
  <2> QED
    BY <1>1, <2>1, PassesRange
<1>3. PICK k \in 0 .. n - 1 :
        PacketAt(p, k) /\ cx = (n - k) % Word /\ loaded = Copied(p, k)
  <2>1. Target(dap) \notin 0 .. BOOT_LOC - 1
    BY BootConstants DEF CopyBlock
  <2> QED
    BY <1>0, <1>1, <2>1 DEF MbrInv, CopyInv
<1>4. k \in Nat /\ k + 1 \in 1 .. n
  BY <1>2, <1>3
<1>5. cx' = (n - (k + 1)) % Word /\ (cx' = 0 <=> k + 1 = n)
  BY <1>2, <1>3, CounterFalls DEF CopyBlock
<1>6. loaded' = Copied(p, k + 1)
  BY <1>3, <1>4, OneMoreSector DEF CopyBlock
<1>7. Chosen(p)'
  BY <1>1 DEF Chosen
<1> HIDE DEF n
<1>8. CASE cx' = 0
  <2>1. mbr' = "jump" /\ k + 1 = n
    BY <1>5, <1>8 DEF CopyBlock
  <2>2. n <= Segments * SegmentSectors - BOOT_LOC
    <3>1. BOOT_LOC + k + 1 <= Segments * SegmentSectors
      BY <1>3, <1>4, PacketInMemory
    <3>2. Segments * SegmentSectors \in Nat /\ BOOT_LOC \in Nat
      BY BootConstants
    <3> QED
      BY <1>4, <2>1, <3>1, <3>2
  <2>3. CopyInv'
    BY <1>1, <1>2, <1>6, <1>7, <2>1, <2>2 DEF CopyInv, n
  <2> QED
    BY <1>1, <2>1, <2>3 DEF MbrInv, MbrTypes, MbrPlaces
<1>9. CASE cx' # 0
  <2>1. mbr' = "copy_block" /\ dap' = NextPacket(dap)
    BY <1>1, <1>9 DEF CopyBlock
  <2>2. k + 1 \in 0 .. n - 1
    BY <1>2, <1>4, <1>5, <1>9
  <2>3. Target(dap') \in 0 .. BOOT_LOC - 1 \/ PacketAt(p, k + 1)'
    BY <1>3, <1>4, <2>1, NextPacketAt
  <2>4. CopyInv'
    BY <1>1, <1>2, <1>5, <1>6, <1>7, <2>1, <2>2, <2>3 DEF CopyInv, n
  <2> QED
    BY <1>1, <2>1, <2>4 DEF MbrInv, MbrTypes, MbrPlaces
<1> QED
  BY <1>8, <1>9

\* The steps before the copy, and those that end in a place without an exit.
LEMMA QuietMbr ==
  ASSUME MbrInv,
         \/ BiosFails \/ TestMem \/ TestMbrPart \/ TestExt \/ ResetDisk \/ ReadGpt
         \/ ReadPartArr \/ TestNext \/ CopyOver
  PROVE  MbrInv'
<1>1. CASE BiosFails \/ CopyOver
  BY <1>1 DEF MbrInv, MbrTypes, MbrPlaces, CopyInv, BiosFails, CopyOver, BootGoto, Keep
<1>2. CASE TestMem \/ TestMbrPart \/ TestExt \/ ResetDisk \/ ReadGpt \/ ReadPartArr
  <2>1. /\ mbr \in {"test_mem", "test_mbr_part", "test_ext", "reset_disk", "read_gpt",
                    "read_part_arr"}
        /\ mbr' \in {"test_mbr_part", "test_ext", "reset_disk", "read_gpt",
                     "read_part_arr", "test_part", "hang"}
        /\ UNCHANGED <<parts, entry, loaded>>
    BY <1>2 DEF TestMem, TestMbrPart, TestExt, ResetDisk, ReadGpt, ReadPartArr,
                BootGoto, Keep
  <2>2. loaded = <<>>
    BY <2>1 DEF MbrInv, CopyInv
  <2> QED
    BY <2>1, <2>2 DEF MbrInv, MbrTypes, MbrPlaces, CopyInv
<1>3. CASE TestNext
  BY <1>3 DEF MbrInv, MbrTypes, MbrPlaces, CopyInv, TestNext
<1> QED
  BY <1>1, <1>2, <1>3

\* The later stages leave the boot record's state as the jump into them left it.
LEMMA MbrInductive == MbrInv /\ [Next]_vars => MbrInv'
<1> SUFFICES ASSUME MbrInv, [Next]_vars PROVE MbrInv'
  OBVIOUS
<1>1. CASE Mbr
  BY <1>1, QuietMbr, PrepareCopyInv, CopyBlockInv DEF Mbr, BootStep
<1>2. CASE Handover
  BY <1>2 DEF Handover, MbrInv, MbrTypes, MbrPlaces, CopyInv
<1>3. CASE Stages \/ Loader \/ Kernel \/ UNCHANGED vars
  <2>1. UNCHANGED mbrVars
    BY <1>3 DEF Stages, Loader, Kernel, vars
  <2> QED
    BY <2>1 DEF mbrVars, MbrInv, MbrTypes, CopyInv, Chosen, PacketAt
<1> QED
  BY <1>1, <1>2, <1>3 DEF Next

\* What the boot record jumps into is what it has read of the boot partition.
THEOREM PartitionStaysLoaded == Spec => []PartitionLoaded
<1>1. MbrInv => PartitionLoaded
  <2> SUFFICES ASSUME MbrInv, mbr = "jump" PROVE PartitionLoaded
    BY DEF PartitionLoaded
  <2>0. PICK p \in Entries : p = parts[entry]
    BY EntryTyped DEF MbrInv
  <2> DEFINE size == p.end - p.start
             n    == Passes(bbp_size)
  <2>1. /\ p.bbp /\ ~p.far /\ bbp_size = size % Dword
        /\ n <= Segments * SegmentSectors - BOOT_LOC
        /\ loaded = Copied(p, n)
    BY <2>0 DEF MbrInv, CopyInv, Chosen
  <2>2. size \in Int /\ Dword \in Nat \ {0} /\ Word \in Nat \ {0} /\ 2 * Word < Dword
    BY BootConstants DEF Entries
  <2>3. n \in 1 .. Word
    <3>1. bbp_size \in 0 .. Dword - 1
      BY <2>1, <2>2
    <3> QED
      BY <3>1, PassesRange
  <2>4. n \in 1 .. Segments * SegmentSectors - BOOT_LOC
    BY <2>1, <2>2, <2>3, BootConstants
  <2>5. ASSUME size \in 0 .. Dword \div 2 - 1
        PROVE  size # 0 /\ n = IF size > TRANSF_MAX THEN TRANSF_MAX ELSE size
    <3>1. size \in 0 .. Dword - 1 /\ size < Dword \div 2
      BY <2>2, <2>5
    <3>2. bbp_size = size
      BY <2>1, <2>2, <3>1, Wrapping
    <3>3. Iterations(size) = (IF size <= TRANSF_MAX THEN size ELSE TRANSF_MAX) % Word
      BY <3>1 DEF Iterations, Signed
    <3>4. (IF size <= TRANSF_MAX THEN size ELSE TRANSF_MAX) \in 0 .. Word - 1
      BY <3>1, BootConstants
    <3>5. Iterations(size) = IF size <= TRANSF_MAX THEN size ELSE TRANSF_MAX
      BY <2>2, <3>3, <3>4, Wrapping
    <3>6. n # Word
      <4>1. /\ Segments * SegmentSectors \in Int /\ BOOT_LOC \in Nat
            /\ Segments * SegmentSectors < Word
        BY BootConstants
      <4> QED
        BY <2>2, <2>4, <4>1
    <3>7. n = Iterations(size) /\ n # 0
      BY <2>3, <3>2, <3>6 DEF Passes
    <3> QED
      BY <3>1, <3>5, <3>7, BootConstants
  <2> QED
    BY <2>0, <2>1, <2>4, <2>5 DEF PartitionLoaded, Copied
<1> QED
  BY <1>1, InitMbr, MbrInductive, PTL DEF Spec

-----------------------------------------------------------------------------
(* The map of the memory *)

\* Sorting makes no entries.
LEMMA PassTyped ==
  ASSUME NEW n \in Nat, NEW s \in [1 .. n -> MapEntries], NEW count \in 1 .. n
  PROVE  Pass(s, count) \in [1 .. n -> MapEntries]
<1> DEFINE Rows == [1 .. n -> MapEntries]
           Walk(f) == f = [i \in 0 .. count - 1 |-> IF i = 0 THEN s ELSE Swapped(f[i - 1], i)]
           after == CHOOSE f : Walk(f)
           F == [i \in 1 .. count - 1 |-> [t \in Rows |-> Swapped(t, i)]]
<1>1. Pass(s, count) = after[count - 1]
  BY DEF Pass
<1>2. \A i \in 1 .. count - 1, t \in Rows : Swapped(t, i) \in Rows
  <2> SUFFICES ASSUME NEW i \in 1 .. count - 1, NEW t \in Rows PROVE Swapped(t, i) \in Rows
    OBVIOUS
  <2>1. i \in 1 .. n /\ i + 1 \in 1 .. n
    OBVIOUS
  <2> QED
    BY <2>1 DEF Swapped
<1>3. \E f : Walk(f)
  <2>1. F \in [1 .. count - 1 -> [Rows -> Rows]]
    BY <1>2
  <2>2. PICK f \in [0 .. count - 1 -> Rows] : Applied(f, F, s, count - 1)
    <3>1. count - 1 \in Nat /\ s \in Rows
      OBVIOUS
    <3> HIDE DEF F, Rows
    <3> QED
      BY <2>1, <3>1, StepsExist
  <2>3. \A i \in 1 .. count - 1 : f[i - 1] \in Rows
    BY <2>2
  <2>4. \A i \in 1 .. count - 1 : f[i] = Swapped(f[i - 1], i)
    BY <2>2, <2>3 DEF Applied
  <2>5. \A i \in 0 .. count - 1 : f[i] = IF i = 0 THEN s ELSE Swapped(f[i - 1], i)
    BY <2>2, <2>4 DEF Applied
  <2>6. f = [i \in 0 .. count - 1 |-> f[i]]
    BY <2>2
  <2> QED
    BY <2>5, <2>6
<1>4. Walk(after)
  BY <1>3
<1>5. \A i \in 0 .. count - 1 : after[i] = IF i = 0 THEN s ELSE Swapped(after[i - 1], i)
  BY <1>4
<1> DEFINE Typed == {i \in 0 .. count - 1 : after[i] \in Rows}
<1> HIDE DEF after
<1>6. 0 \in Typed
  BY <1>5
<1>7. \A i \in 1 .. count - 1 : i - 1 \in Typed => i \in Typed
  BY <1>2, <1>5
<1>8. \A i \in 0 .. count - 1 : i \in Typed
  <2> HIDE DEF Typed
  <2>1. count - 1 \in Nat
    OBVIOUS
  <2> QED
    BY <1>6, <1>7, <2>1, InductionTo
<1> QED
  BY <1>1, <1>8

LEMMA SortTyped ==
  ASSUME NEW s \in Seq(MapEntries)
  PROVE  SortE820(s) \in Seq(MapEntries)
<1> DEFINE n == Len(s)
           Rows == [1 .. n -> MapEntries]
           Walk(f) == f = [k \in 0 .. n |-> IF k = 0 THEN s ELSE Pass(f[k - 1], n - k + 1)]
           after == CHOOSE f : Walk(f)
           F == [k \in 1 .. n |-> [t \in Rows |-> Pass(t, n - k + 1)]]
<1>1. SortE820(s) = after[n]
  BY DEF SortE820, Bubble
<1>2. n \in Nat /\ s \in Rows
  OBVIOUS
<1> HIDE DEF n
<1>3. \A k \in 1 .. n, t \in Rows : Pass(t, n - k + 1) \in Rows
  <2> SUFFICES ASSUME NEW k \in 1 .. n, NEW t \in Rows PROVE Pass(t, n - k + 1) \in Rows
    OBVIOUS
  <2>1. n - k + 1 \in 1 .. n
    BY <1>2
  <2> QED
    BY <1>2, <2>1, PassTyped
<1>4. \E f : Walk(f)
  <2>1. F \in [1 .. n -> [Rows -> Rows]]
    BY <1>3
  <2>2. PICK f \in [0 .. n -> Rows] : Applied(f, F, s, n)
    <3> HIDE DEF F, Rows
    <3> QED
      BY <1>2, <2>1, StepsExist
  <2>3. \A k \in 1 .. n : f[k - 1] \in Rows
    BY <1>2, <2>2
  <2>4. \A k \in 1 .. n : f[k] = Pass(f[k - 1], n - k + 1)
    BY <2>2, <2>3 DEF Applied
  <2>5. \A k \in 0 .. n : f[k] = IF k = 0 THEN s ELSE Pass(f[k - 1], n - k + 1)
    BY <1>2, <2>2, <2>4 DEF Applied
  <2>6. f = [k \in 0 .. n |-> f[k]]
    BY <2>2
  <2> QED
    BY <2>5, <2>6
<1>5. Walk(after)
  BY <1>4
<1>6. \A k \in 0 .. n : after[k] = IF k = 0 THEN s ELSE Pass(after[k - 1], n - k + 1)
  BY <1>5
<1> DEFINE Typed == {k \in 0 .. n : after[k] \in Rows}
<1> HIDE DEF after
<1>7. 0 \in Typed
  BY <1>2, <1>6
<1>8. ASSUME NEW k \in 1 .. n, k - 1 \in Typed PROVE k \in Typed
  <2>1. k \in 0 .. n /\ k # 0
    BY <1>2
  <2>2. after[k] = Pass(after[k - 1], n - k + 1)
    BY <1>6, <2>1
  <2>3. after[k - 1] \in Rows
    BY <1>8
  <2>4. Pass(after[k - 1], n - k + 1) \in Rows
    BY <1>3, <2>3
  <2> QED
    BY <2>1, <2>2, <2>4
<1>9. \A k \in 0 .. n : k \in Typed
  <2> HIDE DEF Typed
  <2> QED
    BY <1>2, <1>7, <1>8, InductionTo
<1>10. after[n] \in Rows
  BY <1>2, <1>9
<1> QED
  BY <1>1, <1>2, <1>10

-----------------------------------------------------------------------------
(* Free blocks *)

\* A number of units in whole pages, rounded up.
LEMMA RoundedUp ==
  ASSUME NEW n \in Nat
  PROVE  /\ PagesUp(n) \in Nat
         /\ n <= PagesUp(n) * PageSize /\ PagesUp(n) * PageSize < n + PageSize
         /\ n % PageSize = 0 => PagesUp(n) * PageSize = n
<1> DEFINE m == n + PageSize - 1
           u == m \div PageSize
           v == m % PageSize
<1>1. PageSize \in Nat \ {0}
  BY PagingConstants
<1>2. m \in Nat /\ m = n + PageSize - 1
  BY <1>1
<1> HIDE DEF m
<1>3. u \in Nat /\ v \in 0 .. PageSize - 1 /\ m = u * PageSize + v
  BY <1>1, <1>2, Quotient
<1>4. PagesUp(n) = u
  BY DEF PagesUp, m
<1> HIDE DEF u, v
<1>5. PICK w \in Nat : w = u * PageSize
  BY <1>1, <1>3
<1>6. n <= w /\ w < n + PageSize
  BY <1>1, <1>2, <1>3, <1>5
<1>7. ASSUME n % PageSize = 0 PROVE w = n
  <2>1. PICK q \in Nat : n = q * PageSize + 0
    BY <1>1, <1>7, Quotient
  <2>2. PICK x \in Nat : x = q * PageSize
    BY <1>1, <2>1
  <2>3. n = x /\ m = q * PageSize + (PageSize - 1) /\ PageSize - 1 \in 0 .. PageSize - 1
    BY <1>1, <1>2, <2>1, <2>2
  <2>4. (q * PageSize + (PageSize - 1)) \div PageSize = q
    BY <1>1, <2>1, <2>3, Division
  <2>5. u = q
    BY <2>3, <2>4 DEF u
  <2> QED
    BY <1>5, <2>2, <2>3, <2>5
<1> QED
  BY <1>3, <1>4, <1>5, <1>6, <1>7

LEMMA WholePages ==
  ASSUME NEW n \in Nat, n % PageSize = 0
  PROVE  \E q \in Int : n = q * PageSize + 0
<1>1. PageSize \in Nat \ {0}
  BY PagingConstants
<1>2. n \div PageSize \in Int /\ n = (n \div PageSize) * PageSize + 0
  BY <1>1, Quotient
<1> QED
  BY <1>2

\* The block that an entry leaves starts in the entry and behind INIT_MEM, and ends where
\* the entry ends, or less than a page behind it if the entry is not made of whole
\* pages.
LEMMA BlockInEntry ==
  ASSUME NEW e \in MapEntries, LeavesFree(e)
  PROVE  LET b   == FreeStart(e)
             end == b + FreeSize(e) * PageSize
         IN /\ b \in Nat /\ end \in Nat /\ FreeSize(e) \in Nat
            /\ e.base <= b /\ INIT_MEM <= b /\ b <= End(e)
            /\ INIT_MEM < end /\ end < End(e) + PageSize
            /\ Aligned(e) => end <= End(e)
<1> DEFINE start == FreeStart(e)
           rest == e.length - (start - e.base)
           u == PagesUp(rest)
<1>1. PageSize \in Nat \ {0} /\ INIT_MEM \in Nat /\ e.base \in Nat /\ e.length \in Nat
  BY PagingConstants DEF MapEntries
<1>2. /\ start \in Nat /\ rest \in Nat /\ start + rest = End(e)
      /\ e.base <= start /\ INIT_MEM <= start /\ start <= End(e) /\ INIT_MEM < End(e)
  BY <1>1 DEF FreeStart, LeavesFree, End
<1>3. FreeSize(e) = u
  BY DEF FreeSize
<1>4. Aligned(e) => rest % PageSize = 0
  <2> SUFFICES ASSUME Aligned(e) PROVE rest % PageSize = 0
    OBVIOUS
  <2>1. PICK a \in Int : e.base = a * PageSize + 0
    BY <1>1, WholePages DEF Aligned
  <2>2. PICK l \in Int : e.length = l * PageSize + 0
    BY <1>1, WholePages DEF Aligned
  <2>3. PICK c \in Int : INIT_MEM = c * PageSize + 0
    BY <1>1, PagingConstants, WholePages
  <2>4. PICK k \in Int : rest = k * PageSize + 0
    <3>1. CASE start = e.base
      <4>1. rest = l * PageSize + 0
        BY <1>1, <2>2, <3>1
      <4> QED
        BY <2>2, <4>1
    <3>2. CASE start = INIT_MEM
      <4>1. PICK x \in Int : x = a * PageSize
        BY <1>1, <2>1
      <4>2. PICK y \in Int : y = l * PageSize
        BY <1>1, <2>2
      <4>3. PICK z \in Int : z = c * PageSize
        BY <1>1, <2>3
      <4>4. rest = y - (z - x)
        BY <1>1, <2>1, <2>2, <2>3, <3>2, <4>1, <4>2, <4>3
      <4>5. (l - (c - a)) * PageSize = l * PageSize - (c * PageSize - a * PageSize)
        BY <1>1, <2>1, <2>2, <2>3
      <4>6. l - (c - a) \in Int /\ rest = (l - (c - a)) * PageSize + 0
        BY <2>1, <2>2, <2>3, <4>1, <4>2, <4>3, <4>4, <4>5
      <4> QED
        BY <4>6
    <3> QED
      BY <3>1, <3>2 DEF FreeStart
  <2> HIDE DEF rest
  <2>5. 0 \in 0 .. PageSize - 1
    BY <1>1
  <2> QED
    BY <1>1, <2>4, <2>5, Division
<1>5. /\ u \in Nat /\ rest <= u * PageSize /\ u * PageSize < rest + PageSize
      /\ rest % PageSize = 0 => u * PageSize = rest
  BY <1>2, RoundedUp
<1> HIDE DEF start, rest, u
<1>6. PICK w \in Nat : w = u * PageSize
  BY <1>1, <1>5
<1>7. /\ start + w \in Nat /\ INIT_MEM < start + w /\ start + w < End(e) + PageSize
      /\ Aligned(e) => start + w <= End(e)
  BY <1>1, <1>2, <1>4, <1>5, <1>6
<1> QED
  BY <1>2, <1>3, <1>5, <1>6, <1>7 DEF start

\* What is behind INIT_MEM is in a page behind it.
LEMMA PageBehind ==
  ASSUME NEW a \in Int, INIT_MEM <= a
  PROVE  Page(a) \in Int /\ InitPages <= Page(a)
<1>1. PageSize \in Nat \ {0} /\ INIT_MEM \in Int
  BY PagingConstants
<1>2. a \div PageSize \in Int
  BY <1>1, Quotient
<1> QED
  BY <1>1, <1>2, DivisionGrows DEF Page, InitPages

-----------------------------------------------------------------------------
(* The index of free blocks *)

IsIndex(ix) ==
  /\ DOMAIN ix = {"list", "root", "node", "past_end"}
  /\ \A b \in Blocks(ix) : "size" \in DOMAIN ix.node[b]

\* What new has is what ix has, with the same sizes.
SameBlocks(ix, new) ==
  /\ IsIndex(new)
  /\ Blocks(new) = Blocks(ix)
  /\ \A b \in Blocks(ix) : SizeOf(new, b) = SizeOf(ix, b)

\* Linking a block into the tree says nothing of the blocks and their sizes.
LEMMA TreeInsertKeeps ==
  ASSUME NEW ix, IsIndex(ix), NEW b
  PROVE  SameBlocks(ix, TreeInsert(ix, b))
<1> DEFINE size == SizeOf(ix, b)
           stop == StopAt(ix, ix.root, size)
           n    == ix.node[stop]
<1>1. ASSUME NEW s, NEW y
      PROVE  SameBlocks(ix, [ix EXCEPT !.node[b].smaller = y, !.node[y].larger = b,
                                       !.node[s].smaller = b, !.node[b].larger = s])
  BY DEF SameBlocks, IsIndex, Blocks, SizeOf
<1>3. ASSUME NEW s, NEW y
      PROVE  SameBlocks(ix, [ix EXCEPT !.node[b].larger = y, !.node[y].smaller = b,
                                       !.node[s].larger = b, !.node[b].smaller = s])
  BY DEF SameBlocks, IsIndex, Blocks, SizeOf
<1>4. ASSUME NEW s, NEW y
      PROVE  SameBlocks(ix, [ix EXCEPT !.node[y].parent = b, !.node[b].child = y,
                                       !.node[s].child = b, !.node[b].parent = s])
  BY DEF SameBlocks, IsIndex, Blocks, SizeOf
<1>2. SameBlocks(ix, [ix EXCEPT !.root = b])
  BY DEF SameBlocks, IsIndex, Blocks, SizeOf
<1> QED
  BY <1>1, <1>2, <1>3, <1>4 DEF TreeInsert

\* An insertion adds the block, with its size, and changes no other.
LEMMA FreeInsertAdds ==
  ASSUME NEW ix, IsIndex(ix), NEW b, NEW size
  PROVE  LET new == FreeInsert(ix, b, size) IN
         /\ IsIndex(new)
         /\ Blocks(new) = Blocks(ix) \union {b}
         /\ SizeOf(new, b) = size
         /\ \A x \in Blocks(ix) \ {b} : SizeOf(new, x) = SizeOf(ix, x)
<1> DEFINE node == [x \in Blocks(ix) \union {b} |-> IF x = b THEN Node(size) ELSE ix.node[x]]
           with == [ix EXCEPT !.node = node]
<1>2. "size" \in DOMAIN Node(size) /\ Node(size).size = size
  BY DEF Node
<1>3. /\ with.node = node /\ DOMAIN with = {"list", "root", "node", "past_end"}
  BY DEF IsIndex
<1>4. /\ IsIndex(with)
      /\ Blocks(with) = Blocks(ix) \union {b}
      /\ SizeOf(with, b) = size
      /\ \A x \in Blocks(ix) \ {b} : SizeOf(with, x) = SizeOf(ix, x)
  <2> HIDE DEF with
  <2> QED
    BY <1>2, <1>3 DEF IsIndex, Blocks, SizeOf
<1>5. FreeInsert(ix, b, size) =
        IF ~Listed(size) THEN TreeInsert(with, b)
        ELSE IF size < PAGE_LIST_COUNT
          THEN [with EXCEPT !.list[size] = <<b>> \o with.list[size]]
        ELSE [with EXCEPT !.past_end = TRUE]
  BY DEF FreeInsert
<1> HIDE DEF with, node
<1>6. SameBlocks(with, [with EXCEPT !.list[size] = <<b>> \o with.list[size]])
  BY <1>4 DEF SameBlocks, IsIndex, Blocks, SizeOf
<1>7. SameBlocks(with, [with EXCEPT !.past_end = TRUE])
  BY <1>4 DEF SameBlocks, IsIndex, Blocks, SizeOf
<1>8. SameBlocks(with, FreeInsert(ix, b, size))
  BY <1>4, <1>5, <1>6, <1>7, TreeInsertKeeps
<1> QED
  BY <1>4, <1>8 DEF SameBlocks

-----------------------------------------------------------------------------
(* The loader's state *)

SpaceFields ==
  {"tables", "frames", "pml4", "placement", "heap_lo", "heap_hi", "locked", "unmapped",
   "stuck"}

SpaceTyped(sp) ==
  /\ DOMAIN sp = SpaceFields
  /\ sp.frames \subseteq Int
  /\ sp.placement \in Nat /\ sp.heap_lo \in Nat /\ sp.heap_hi \in Nat

\* Before there is a heap the page tables end where the next one is placed.
TablesBelow(sp) ==
  /\ sp.heap_hi = 0
  /\ sp.placement % PageSize = 0
  /\ \A t \in sp.frames : t < Page(sp.placement)

\* The heap grows behind the tables there were, and adds those that it needs.
TablesAndHeap(sp, grown) ==
  /\ sp.heap_lo < sp.heap_hi
  /\ \A t \in sp.frames :
       /\ t # sp.heap_lo /\ t < sp.heap_hi
       /\ t > sp.heap_lo => grown > 0

Early      == {"off", "main16", "read_e820", "main32"}
BeforeHeap == {"start64", "page_init", "page_init_loop"}
Ended      == {"fault", "wild"}
Kmain      == {"k_interrupts", "k_reset", "k_hung", "k_wild"} \union Live

MapInv ==
  /\ stage \in Early \union BeforeHeap \union {"up", "hung"} \union Ended \union Kmain
  /\ left \subseteq MapEntries /\ e820 \in Seq(MapEntries)
  /\ next \in Nat \ {0} /\ growths \in Nat

SpaceInv ==
  /\ stage \in Early => SpaceTyped(space) /\ space.heap_hi = 0
  /\ stage \in BeforeHeap => SpaceTyped(space) /\ TablesBelow(space)
  /\ stage \in {"up", "hung"} => SpaceTyped(space) /\ TablesAndHeap(space, growths)
  /\ stage \in Ended => SpaceTyped(space)

\* The block is where FreeIsKnown says.
BlockWithin(b, size, e) ==
  LET end == b + size * PageSize IN
  /\ e.ok
  /\ e.base <= b /\ INIT_MEM <= b /\ b <= End(e)
  /\ end < End(e) + PageSize
  /\ Aligned(e) => end <= End(e)

BlockKnown(b) ==
  b \in Int /\ \E e \in Known : BlockWithin(b, SizeOf(index, b), e)

Loaded == {"page_init_loop", "up", "hung"} \union Ended

BlocksInv ==
  /\ IsIndex(index)
  /\ stage \notin Loaded => Blocks(index) = {}
  /\ \A b \in Blocks(index) : BlockKnown(b)

\* Only a table beyond INIT_MEM is ever where a free block has its header or footer.
OverwrittenInv ==
  /\ stage \notin Loaded => overwritten = {}
  /\ \A t \in overwritten : t \in space.frames /\ InitPages <= t

LoadInv == MapInv /\ SpaceInv /\ BlocksInv /\ OverwrittenInv

-----------------------------------------------------------------------------
(* Page tables *)

LEMMA MissingTyped ==
  ASSUME NEW sp, NEW page
  PROVE  Missing(sp, page) \in Nat
<1> DEFINE absent == {l \in 1 .. 3 : TableFor(sp, page, l) = Absent}
<1>1. IsFiniteSet(1 .. 3)
  <2>1. 1 \in Int /\ 3 \in Int
    OBVIOUS
  <2> QED
    BY <2>1, FS_Interval
<1>2. absent \subseteq 1 .. 3
  OBVIOUS
<1> HIDE DEF absent
<1>3. Cardinality(absent) \in Nat
  BY <1>1, <1>2, FS_Subset, FS_CardinalityType
<1> QED
  BY <1>3 DEF Missing, absent

\* The frames that page_id_map takes for missing tables.
NewFrames(sp, page) == {NewFrame(sp, i) : i \in 0 .. Missing(sp, page) - 1}

\* What page_id_map does to a space, apart from the entries of the tables.
LEMMA IdMapShape ==
  ASSUME NEW sp, DOMAIN sp = SpaceFields, NEW page
  PROVE  LET new == IdMap(sp, page)
             m   == Missing(sp, page)
         IN /\ DOMAIN new = SpaceFields
            /\ new.heap_lo = sp.heap_lo
            /\ \/ /\ new.stuck # Absent
                  /\ new.frames \subseteq sp.frames \union NewFrames(sp, page)
                  /\ sp.frames \subseteq new.frames
                  /\ Mode(sp) # "placement" => new.frames = sp.frames
                  /\ new.placement = sp.placement /\ new.heap_hi = sp.heap_hi
               \/ /\ StuckAt(sp, m) = Absent
                  /\ new.frames = sp.frames \union NewFrames(sp, page)
                  /\ new.placement = IF Mode(sp) = "placement" /\ m > 0
                                     THEN (NewFrame(sp, m - 1) + 1) * PageSize
                                     ELSE sp.placement
                  /\ new.heap_hi = IF Mode(sp) = "heap" THEN sp.heap_hi + 2 * m
                                   ELSE sp.heap_hi
<1> DEFINE m == Missing(sp, page)
           hangs_at == StuckAt(sp, m)
           places == Mode(sp) = "placement"
           tables == WithEntries(sp, page)
           placement == IF Mode(sp) = "placement" /\ m > 0
                        THEN (NewFrame(sp, m - 1) + 1) * PageSize ELSE sp.placement
           heap_hi == IF Mode(sp) = "heap" THEN sp.heap_hi + 2 * m ELSE sp.heap_hi
           frames == IF places THEN sp.frames \union {f \in NewFrames(sp, page) : f <= hangs_at}
                     ELSE sp.frames
           ends   == [sp EXCEPT !.stuck = hangs_at, !.unmapped = places, !.frames = frames]
           mapped == [sp EXCEPT !.tables = tables,
                                !.frames = @ \union NewFrames(sp, page),
                                !.placement = placement,
                                !.heap_hi = heap_hi]
<1>1. \/ hangs_at # Absent /\ IdMap(sp, page) = ends
      \/ hangs_at = Absent /\ IdMap(sp, page) = mapped
  BY DEF IdMap, NewFrames
<1>2. CASE hangs_at # Absent /\ IdMap(sp, page) = ends
  <2>1. frames \subseteq sp.frames \union NewFrames(sp, page) /\ sp.frames \subseteq frames
        /\ (Mode(sp) # "placement" => frames = sp.frames)
    OBVIOUS
  <2>2. /\ DOMAIN ends = SpaceFields
        /\ ends.heap_lo = sp.heap_lo /\ ends.stuck = hangs_at /\ ends.frames = frames
        /\ ends.placement = sp.placement /\ ends.heap_hi = sp.heap_hi
    <3> HIDE DEF frames, hangs_at, places
    <3> QED
      BY DEF SpaceFields
  <2> HIDE DEF ends, frames, hangs_at
  <2> QED
    BY <1>2, <2>1, <2>2
<1>3. CASE hangs_at = Absent /\ IdMap(sp, page) = mapped
  <2>1. /\ DOMAIN mapped = SpaceFields
        /\ mapped.heap_lo = sp.heap_lo
        /\ mapped.frames = sp.frames \union NewFrames(sp, page)
        /\ mapped.placement = placement
        /\ mapped.heap_hi = heap_hi
    <3> HIDE DEF tables, placement, heap_hi
    <3> QED
      BY DEF SpaceFields
  <2> HIDE DEF mapped
  <2> QED
    BY <1>3, <2>1
<1> HIDE DEF mapped, ends
<1> QED
  BY <1>1, <1>2, <1>3

\* While memory is placed, the new tables follow the old ones.
LEMMA IdMapPlaces ==
  ASSUME NEW sp, SpaceTyped(sp), TablesBelow(sp), NEW page
  PROVE  LET new == IdMap(sp, page)
         IN /\ SpaceTyped(new) /\ sp.frames \subseteq new.frames
            /\ new.stuck = Absent => TablesBelow(new)
<1> DEFINE new == IdMap(sp, page)
           m == Missing(sp, page)
           p == Page(sp.placement)
<1> SUFFICES /\ SpaceTyped(new) /\ sp.frames \subseteq new.frames
             /\ new.stuck = Absent => TablesBelow(new)
  OBVIOUS
<1>1. PageSize \in Nat \ {0} /\ m \in Nat /\ Mode(sp) = "placement"
  BY PagingConstants, MissingTyped DEF Mode, TablesBelow
<1>2. p \in Nat /\ sp.placement = p * PageSize /\ PagesUp(sp.placement) = p
  <2> DEFINE a == sp.placement
  <2>1. a \in Nat /\ a % PageSize = 0
    BY DEF SpaceTyped, TablesBelow
  <2> HIDE DEF a
  <2>2. a \div PageSize \in Nat /\ a = (a \div PageSize) * PageSize + 0
    BY <1>1, <2>1, Quotient
  <2>3. PICK q \in Nat : q = a \div PageSize
    BY <2>2
  <2>4. a = q * PageSize /\ a + PageSize - 1 = q * PageSize + (PageSize - 1)
    BY <1>1, <2>2, <2>3
  <2>5. (q * PageSize + (PageSize - 1)) \div PageSize = q
    BY <1>1, Division
  <2> QED
    BY <2>3, <2>4, <2>5 DEF Page, PagesUp, a
<1>3. \A i \in Int : NewFrame(sp, i) = p + i
  BY <1>1, <1>2 DEF NewFrame
<1>4. /\ DOMAIN new = SpaceFields /\ new.heap_lo = sp.heap_lo
      /\ \/ /\ new.stuck # Absent
            /\ new.frames \subseteq sp.frames \union NewFrames(sp, page)
            /\ sp.frames \subseteq new.frames
            /\ new.placement = sp.placement /\ new.heap_hi = sp.heap_hi
         \/ /\ new.frames = sp.frames \union NewFrames(sp, page)
            /\ new.placement = IF m > 0 THEN (NewFrame(sp, m - 1) + 1) * PageSize
                               ELSE sp.placement
            /\ new.heap_hi = sp.heap_hi
  <2>1. Mode(sp) # "heap"
    BY <1>1
  <2> QED
    BY <1>1, <2>1, IdMapShape DEF SpaceTyped
<1> HIDE DEF new, m, p
<1>7. NewFrames(sp, page) = {p + i : i \in 0 .. m - 1}
  BY <1>1, <1>3 DEF NewFrames, m
<1>5. CASE /\ new.stuck # Absent
           /\ new.frames \subseteq sp.frames \union NewFrames(sp, page)
           /\ sp.frames \subseteq new.frames
           /\ new.placement = sp.placement
  BY <1>1, <1>2, <1>4, <1>5, <1>7 DEF SpaceTyped, TablesBelow
<1>6. CASE /\ new.frames = sp.frames \union NewFrames(sp, page)
           /\ new.placement = IF m > 0 THEN (NewFrame(sp, m - 1) + 1) * PageSize
                              ELSE sp.placement
  <2>1. NewFrames(sp, page) = {p + i : i \in 0 .. m - 1}
    BY <1>7
  <2>2. new.placement = (p + m) * PageSize
    <3>1. CASE m > 0
      <4>1. NewFrame(sp, m - 1) + 1 = p + m
        BY <1>1, <1>2, <1>3
      <4> QED
        BY <1>6, <3>1, <4>1
    <3>2. CASE m = 0
      BY <1>2, <1>6, <3>2
    <3> QED
      BY <1>1, <3>1, <3>2
  <2>3. new.placement \in Nat /\ new.placement % PageSize = 0 /\ Page(new.placement) = p + m
    <3>1. PICK k \in Nat : k = p + m
      BY <1>1, <1>2
    <3>2. (k * PageSize + 0) \div PageSize = k /\ (k * PageSize + 0) % PageSize = 0
      BY <1>1, Division
    <3>3. k * PageSize \in Nat
      BY <1>1
    <3>4. k * PageSize + 0 = k * PageSize
      BY <3>3
    <3> QED
      BY <2>2, <3>1, <3>2, <3>3, <3>4 DEF Page
  <2>4. \A t \in new.frames : t \in Int /\ t < p + m
    BY <1>1, <1>2, <1>6, <2>1 DEF SpaceTyped, TablesBelow, p
  <2> QED
    BY <1>4, <1>6, <2>3, <2>4 DEF SpaceTyped, TablesBelow
<1> QED
  BY <1>4, <1>5, <1>6

\* When there is a heap, the new tables are in it.
LEMMA IdMapGrows ==
  ASSUME NEW sp, SpaceTyped(sp), NEW grown \in Nat, TablesAndHeap(sp, grown), NEW page
  PROVE  LET new == IdMap(sp, page)
         IN /\ SpaceTyped(new) /\ TablesAndHeap(new, grown + 1)
            /\ sp.frames \subseteq new.frames
<1> DEFINE new == IdMap(sp, page)
           m == Missing(sp, page)
<1> SUFFICES /\ SpaceTyped(new) /\ TablesAndHeap(new, grown + 1)
             /\ sp.frames \subseteq new.frames
  OBVIOUS
<1>1. m \in Nat /\ Mode(sp) = "heap"
  BY MissingTyped DEF Mode, TablesAndHeap, SpaceTyped
<1>2. NewFrames(sp, page) = {sp.heap_hi + 2 * i : i \in 0 .. m - 1}
  <2>1. Mode(sp) # "placement"
    BY <1>1
  <2> QED
    BY <2>1 DEF NewFrames, NewFrame
<1>3. /\ DOMAIN new = SpaceFields /\ new.heap_lo = sp.heap_lo
      /\ new.placement = sp.placement
      /\ \/ new.frames = sp.frames /\ new.heap_hi = sp.heap_hi
         \/ /\ new.frames = sp.frames \union NewFrames(sp, page)
            /\ new.heap_hi = sp.heap_hi + 2 * m
  <2>1. Mode(sp) # "placement"
    BY <1>1
  <2> QED
    BY <1>1, <2>1, IdMapShape DEF SpaceTyped
<1> HIDE DEF new, m
<1>5. CASE new.frames = sp.frames /\ new.heap_hi = sp.heap_hi
  BY <1>3, <1>5 DEF SpaceTyped, TablesAndHeap
<1>6. CASE /\ new.frames = sp.frames \union NewFrames(sp, page)
           /\ new.heap_hi = sp.heap_hi + 2 * m
  <2>1. \A t \in NewFrames(sp, page) : t \in Int /\ sp.heap_lo < t /\ t < new.heap_hi
    BY <1>1, <1>2, <1>6 DEF SpaceTyped, TablesAndHeap
  <2>2. SpaceTyped(new) /\ TablesAndHeap(new, grown + 1)
    BY <1>1, <1>3, <1>6, <2>1 DEF SpaceTyped, TablesAndHeap
  <2> QED
    BY <1>6, <2>2
<1> QED
  BY <1>3, <1>5, <1>6

\* setup_pages leaves its tables below the placement address.
LEMMA SetupPlaces ==
  ASSUME SpaceTyped(space), space.heap_hi = 0
  PROVE  SpaceTyped(SetupPages) /\ TablesBelow(SetupPages)
<1> DEFINE tables  == CeilDiv(InitPages, Fan)
           dirs    == CeilDiv(tables, Fan)
           drawers == CeilDiv(dirs, Fan)
           pml4    == Page(PADDR_LOC)
           top     == pml4 + 1 + drawers + dirs + tables
<1>1. PageSize \in Nat \ {0} /\ Fan \in Nat \ {0, 1} /\ INIT_MEM \in Nat /\ PADDR_LOC \in Nat
  BY PagingConstants
<1>2. \A a \in Nat : CeilDiv(a, Fan) \in Nat
  <2> TAKE a \in Nat
  <2>1. a + Fan - 1 \in Nat
    BY <1>1
  <2> QED
    BY <1>1, <2>1, Quotient DEF CeilDiv
<1>3. InitPages \in Nat /\ pml4 \in Nat
  BY <1>1, Quotient DEF InitPages, Page
<1>4. tables \in Nat /\ dirs \in Nat /\ drawers \in Nat
  BY <1>2, <1>3
<1>5. /\ DOMAIN SetupPages = SpaceFields
      /\ SetupPages.frames = pml4 .. pml4 + 1 + drawers + dirs + tables - 1
      /\ SetupPages.placement = top * PageSize
      /\ SetupPages.heap_lo = space.heap_lo /\ SetupPages.heap_hi = space.heap_hi
  <2> DEFINE pml3 == pml4 + 1
             pml2 == pml3 + drawers
             pml1 == pml2 + dirs
  <2>1. PICK rows :
          SetupPages = [space EXCEPT !.pml4 = pml4, !.placement = top * PageSize,
                                     !.frames = pml4 .. pml1 + tables - 1, !.tables = rows]
    BY DEF SetupPages
  <2> HIDE DEF top, pml4
  <2> QED
    BY <2>1, SMTT(30) DEF SpaceTyped, SpaceFields
<1> HIDE DEF tables, dirs, drawers, pml4
<1>6. top \in Nat
  BY <1>3, <1>4
<1>9. pml4 + 1 + drawers + dirs + tables - 1 = top - 1
  BY <1>3, <1>4
<1> HIDE DEF top
<1>7. top * PageSize \in Nat /\ (top * PageSize) % PageSize = 0 /\ Page(top * PageSize) = top
  <2>1. (top * PageSize + 0) \div PageSize = top /\ (top * PageSize + 0) % PageSize = 0
    BY <1>1, <1>6, Division
  <2>2. top * PageSize \in Nat
    BY <1>1, <1>6
  <2>3. top * PageSize + 0 = top * PageSize
    BY <2>2
  <2> QED
    BY <2>1, <2>2, <2>3 DEF Page
<1>8. \A t \in pml4 .. top - 1 : t \in Int /\ t < top
  BY <1>3, <1>6
<1> QED
  BY <1>5, <1>7, <1>8, <1>9 DEF SpaceTyped, TablesBelow

-----------------------------------------------------------------------------
(* The loader's steps *)

LEMMA InitLoad == Init => LoadInv
<1> SUFFICES ASSUME Init PROVE LoadInv
  OBVIOUS
<1>0. PagingInit
  BY DEF Init
<1>1. MapInv
  <2>1. <<>> \in Seq(MapEntries) /\ {} \subseteq MapEntries
    OBVIOUS
  <2> QED
    BY <1>0, <2>1 DEF PagingInit, MapInv, Early
<1>2. SpaceInv
  BY <1>0 DEF PagingInit, SpaceInv, SpaceTyped, SpaceFields, Early, BeforeHeap
<1>3. Blocks(index) = {} /\ IsIndex(index)
  BY <1>0 DEF PagingInit, EmptyIndex, Blocks, IsIndex
<1>4. BlocksInv /\ OverwrittenInv
  BY <1>0, <1>3 DEF PagingInit, BlocksInv, OverwrittenInv
<1> QED
  BY <1>1, <1>2, <1>4 DEF LoadInv

\* Where there are no free blocks, none come but by the loop of page_init.
LEMMA NothingFree ==
  ASSUME LoadInv, stage \notin Loaded, UNCHANGED <<index, overwritten>>
  PROVE  BlocksInv' /\ OverwrittenInv'
<1>1. Blocks(index) = {} /\ overwritten = {} /\ IsIndex(index)
  BY DEF LoadInv, BlocksInv, OverwrittenInv
<1>2. Blocks(index)' = {} /\ IsIndex(index)' /\ overwritten' = {}
  BY <1>1
<1> QED
  BY <1>2 DEF BlocksInv, OverwrittenInv

LEMMA StagesLoad ==
  ASSUME LoadInv, Start16 \/ Main16 \/ ReadE820 \/ Main32 \/ Start64
  PROVE  LoadInv'
<1>0. UNCHANGED <<index, overwritten, next, growths>>
  BY DEF Start16, Main16, ReadE820, Main32, Start64, loopVars
<1>1. stage \in Early \union {"start64"} /\ stage' \in Early \union {"start64", "page_init"}
  BY DEF Start16, Main16, ReadE820, Main32, Start64, Early
<1>2. BlocksInv' /\ OverwrittenInv'
  BY <1>0, <1>1, NothingFree DEF Early, Loaded, Ended
<1>3. left' \subseteq MapEntries /\ e820' \in Seq(MapEntries)
  <2>1. CASE Main16
    BY <2>1, MapsOfMachines DEF Main16, LoadInv, MapInv
  <2>2. CASE ReadE820
    <3>1. CASE left' = {} /\ e820' = e820
      BY <3>1 DEF LoadInv, MapInv
    <3>2. ASSUME NEW e \in left, left' = left \ {e}, e820' = Append(e820, e)
          PROVE  left' \subseteq MapEntries /\ e820' \in Seq(MapEntries)
      <4>1. e \in MapEntries
        BY DEF LoadInv, MapInv
      <4> QED
        BY <3>2, <4>1 DEF LoadInv, MapInv
    <3> QED
      BY <2>2, <3>1, <3>2 DEF ReadE820
  <2>3. CASE Start16 \/ Main32 \/ Start64
    BY <2>3 DEF Start16, Main32, Start64, LoadInv, MapInv
  <2> QED
    BY <2>1, <2>2, <2>3
<1>4. MapInv'
  BY <1>0, <1>1, <1>3 DEF LoadInv, MapInv, Early, BeforeHeap
<1>5. SpaceInv'
  <2>1. CASE Main32
    <3>1. SpaceTyped(space) /\ space.heap_hi = 0
      BY <2>1 DEF Main32, LoadInv, SpaceInv, Early
    <3>2. stage' = "start64" /\ space' = SetupPages
      BY <2>1 DEF Main32
    <3> QED
      BY <3>1, <3>2, SetupPlaces DEF SpaceInv, Early, BeforeHeap, Ended
  <2>2. CASE Start16 \/ Main16 \/ ReadE820
    <3>1. stage \in Early /\ stage' \in Early /\ space' = space
      BY <2>2 DEF Start16, Main16, ReadE820, Early
    <3> QED
      BY <3>1 DEF LoadInv, SpaceInv, Early, BeforeHeap, Ended
  <2>3. CASE Start64
    BY <2>3 DEF Start64, LoadInv, SpaceInv, Early, BeforeHeap, Ended
  <2> QED
    BY <2>1, <2>2, <2>3
<1> QED
  BY <1>2, <1>4, <1>5 DEF LoadInv

\* The kernel's steps stay in the kernel.
LEMMA KernelLoad ==
  ASSUME LoadInv, KPageInit \/ KmainStep
  PROVE  LoadInv'
<1>1. UNCHANGED <<left, next, index, growths, overwritten>>
  BY DEF KPageInit, KmainStep, pagingRest, loopVars
<1>2. stage \in {"page_init"} \union Kmain /\ stage' \in Kmain
  <2>1. CASE KPageInit
    BY <2>1 DEF KPageInit, Kmain
  <2>2. CASE InterruptInit \/ AcpiFind \/ AcpiMap \/ AcpiEnable \/ ApicInit
    BY <2>2 DEF InterruptInit, AcpiFind, AcpiMap, AcpiEnable, ApicInit, Go, Kmain, Live
  <2>3. CASE ApicEntry \/ ApicEnd \/ LapicInit \/ IoapicInit \/ AhciInit \/ IrqHandler
    BY <2>3 DEF ApicEntry, ApicEnd, LapicInit, IoapicInit, AhciInit, IrqHandler, Go, Kmain,
                Live
  <2> QED
    BY <2>1, <2>2, <2>3 DEF KmainStep
<1>3. e820' \in Seq(MapEntries)
  BY SortTyped DEF KPageInit, KSortE820, KmainStep, pagingRest, LoadInv, MapInv
<1>4. MapInv'
  BY <1>1, <1>2, <1>3 DEF LoadInv, MapInv
<1>5. BlocksInv' /\ OverwrittenInv'
  BY <1>1, <1>2, NothingFree DEF Kmain, Live, Loaded, Ended
<1>6. SpaceInv'
  BY <1>2 DEF SpaceInv, Early, BeforeHeap, Kmain, Live, Ended
<1> QED
  BY <1>4, <1>5, <1>6 DEF LoadInv

LEMMA PageInitStartLoad ==
  ASSUME LoadInv, PageInitStart
  PROVE  LoadInv'
<1>1. MapInv'
  BY SortTyped DEF PageInitStart, LoadInv, MapInv, BeforeHeap
<1>2. SpaceInv'
  BY DEF PageInitStart, LoadInv, SpaceInv, Early, BeforeHeap, Ended
<1>3. Blocks(index') = {} /\ IsIndex(index')
  BY DEF PageInitStart, EmptyIndex, Blocks, IsIndex
<1>4. BlocksInv'
  BY <1>3 DEF BlocksInv
<1>5. OverwrittenInv'
  BY DEF PageInitStart, LoadInv, OverwrittenInv, Loaded, Ended
<1> QED
  BY <1>1, <1>2, <1>4, <1>5 DEF LoadInv

LEMMA PageInitMapLoad ==
  ASSUME LoadInv, PageInitMap
  PROVE  LoadInv'
<1> DEFINE headers == {HeaderPage(b) : b \in Blocks(index)} \intersect
                        (space'.frames \ space.frames)
<1>1. /\ stage = "page_init_loop" /\ space' = IdMap(space, Head(todo))
      /\ UNCHANGED <<left, e820, next, index, growths>>
      /\ overwritten' = overwritten \union headers
      /\ stage' = IF space'.stuck # Absent THEN "fault"
                  ELSE IF headers # {} THEN "wild" ELSE stage
  BY DEF PageInitMap, InLoop
<1>2. SpaceTyped(space) /\ TablesBelow(space)
  BY <1>1 DEF LoadInv, SpaceInv, BeforeHeap
<1>3. /\ SpaceTyped(space') /\ space.frames \subseteq space'.frames
      /\ space'.stuck = Absent => TablesBelow(space')
  BY <1>1, <1>2, IdMapPlaces
<1>4. \A t \in headers : t \in space'.frames /\ InitPages <= t
  <2> SUFFICES ASSUME NEW b \in Blocks(index), HeaderPage(b) \in space'.frames
               PROVE  InitPages <= HeaderPage(b)
    OBVIOUS
  <2>1. b \in Int /\ INIT_MEM <= b
    BY DEF LoadInv, BlocksInv, BlockKnown, BlockWithin
  <2> QED
    BY <2>1, PageBehind DEF HeaderPage
<1> HIDE DEF headers
<1>5. stage' \in {"page_init_loop"} \union Ended
      /\ (stage' = "page_init_loop" => space'.stuck = Absent)
  BY <1>1 DEF Ended
<1>6. MapInv'
  BY <1>1, <1>5 DEF LoadInv, MapInv, BeforeHeap
<1>7. BlocksInv'
  BY <1>1, <1>5 DEF LoadInv, BlocksInv, BlockKnown, BlockWithin, Known, Loaded
<1>8. SpaceInv'
  BY <1>3, <1>5 DEF SpaceInv, Early, BeforeHeap, Ended
<1>9. OverwrittenInv'
  BY <1>1, <1>3, <1>4, <1>5 DEF LoadInv, OverwrittenInv, Loaded
<1> QED
  BY <1>6, <1>7, <1>8, <1>9 DEF LoadInv

\* A block is inserted that lies where FreeIsKnown says, or cannot be written.
LEMMA CreateBlockLoad ==
  ASSUME LoadInv, stage = "page_init_loop", next' \in Nat \ {0},
         UNCHANGED <<left, e820, growths>>,
         NEW e \in Known, NEW b, NEW size \in Nat, BlockWithin(b, size, e), b \in Int,
         INIT_MEM < b + size * PageSize,
         CreateBlock(b, size)
  PROVE  LoadInv'
<1> DEFINE pages  == {HeaderPage(b), FooterPage(b, size)}
           tables == pages \intersect space.frames
<1>1. SpaceTyped(space) /\ TablesBelow(space) /\ IsIndex(index)
  BY DEF LoadInv, SpaceInv, BeforeHeap, BlocksInv
<1>2. Known' = Known
  BY DEF Known
<1>3. \/ /\ stage' = "fault" /\ UNCHANGED <<index, overwritten>>
         /\ \E page : space' = [space EXCEPT !.stuck = page]
      \/ /\ stage' \in {"page_init_loop", "wild"} /\ space' = space
         /\ overwritten' = overwritten \union tables
         /\ index' = FreeInsert(index, b, size)
  BY DEF CreateBlock
<1>4. CASE /\ stage' = "fault" /\ UNCHANGED <<index, overwritten>>
           /\ \E page : space' = [space EXCEPT !.stuck = page]
  <2>1. SpaceTyped(space') /\ space'.frames = space.frames
    BY <1>1, <1>4 DEF SpaceTyped, SpaceFields
  <2>2. MapInv' /\ BlocksInv' /\ OverwrittenInv'
    BY <1>2, <1>4, <2>1 DEF LoadInv, MapInv, BlocksInv, BlockKnown, OverwrittenInv, Ended,
                            Loaded
  <2>3. SpaceInv'
    BY <1>4, <2>1 DEF SpaceInv, Early, BeforeHeap, Ended
  <2> QED
    BY <2>2, <2>3 DEF LoadInv
<1>5. CASE /\ stage' \in {"page_init_loop", "wild"} /\ space' = space
           /\ overwritten' = overwritten \union tables
           /\ index' = FreeInsert(index, b, size)
  <2>1. /\ IsIndex(index')
        /\ Blocks(index') = Blocks(index) \union {b}
        /\ SizeOf(index', b) = size
        /\ \A x \in Blocks(index) \ {b} : SizeOf(index', x) = SizeOf(index, x)
    BY <1>1, <1>5, FreeInsertAdds
  <2>2. ASSUME NEW x \in Blocks(index') PROVE BlockKnown(x)'
    <3>1. CASE x = b
      BY <1>2, <2>1, <3>1 DEF BlockKnown, BlockWithin
    <3>2. CASE x # b
      <4>1. BlockKnown(x) /\ SizeOf(index', x) = SizeOf(index, x)
        BY <2>1, <3>2 DEF LoadInv, BlocksInv
      <4> QED
        BY <1>2, <4>1 DEF BlockKnown, BlockWithin
    <3> QED
      BY <3>1, <3>2
  <2>3. BlocksInv'
    BY <1>5, <2>1, <2>2 DEF BlocksInv, Loaded, Ended
  <2>4. SpaceInv'
    BY <1>1, <1>5 DEF SpaceInv, Early, BeforeHeap, Ended
  <2>5. \A t \in tables : t \in space.frames /\ InitPages <= t
    <3>1. b \in Int /\ INIT_MEM <= b
      BY DEF BlockWithin
    <3>2. b + size * PageSize - 1 \in Int /\ INIT_MEM <= b + size * PageSize - 1
      <4>1. PICK w \in Int : w = size * PageSize
        BY PagingConstants
      <4> QED
        BY <3>1, <4>1, PagingConstants
    <3>3. InitPages <= HeaderPage(b) /\ InitPages <= FooterPage(b, size)
      BY <3>1, <3>2, PageBehind DEF HeaderPage, FooterPage
    <3> QED
      BY <3>3
  <2>6. OverwrittenInv'
    <3> HIDE DEF tables
    <3> QED
      BY <1>5, <2>5 DEF LoadInv, OverwrittenInv, Loaded, Ended
  <2>7. MapInv'
    BY <1>5 DEF LoadInv, MapInv, BeforeHeap, Ended
  <2> QED
    BY <2>3, <2>4, <2>6, <2>7 DEF LoadInv
<1> QED
  BY <1>3, <1>4, <1>5

LEMMA PageInitFreeLoad ==
  ASSUME LoadInv, PageInitFree
  PROVE  LoadInv'
<1> DEFINE e == e820[next]
<1>1. /\ stage = "page_init_loop" /\ next' = next + 1 /\ next' \in Nat \ {0}
      /\ UNCHANGED <<left, e820, growths>>
  BY DEF PageInitFree, InLoop, LoadInv, MapInv
<1>2. e \in MapEntries /\ e \in Known
  <2>1. next \in 1 .. Len(e820) /\ e820 \in Seq(MapEntries)
    BY DEF PageInitFree, InLoop, LoadInv, MapInv
  <2> QED
    BY <2>1 DEF Known
<1>3. CASE UNCHANGED <<stage, space, index, overwritten>>
  BY <1>1, <1>3 DEF LoadInv, MapInv, SpaceInv, BlocksInv, OverwrittenInv, BlockKnown,
                    BlockWithin, Known
<1>4. CASE e.ok /\ LeavesFree(e) /\ CreateBlock(FreeStart(e), FreeSize(e))
  <2> HIDE DEF e
  <2>1. /\ FreeStart(e) \in Int /\ FreeSize(e) \in Nat
        /\ BlockWithin(FreeStart(e), FreeSize(e), e)
        /\ INIT_MEM < FreeStart(e) + FreeSize(e) * PageSize
    BY <1>2, <1>4, BlockInEntry DEF BlockWithin
  <2> QED
    BY <1>1, <1>2, <1>4, <2>1, CreateBlockLoad
<1> QED
  BY <1>3, <1>4 DEF PageInitFree

LEMMA InitHeapLoad ==
  ASSUME LoadInv, InitHeap
  PROVE  LoadInv'
<1> DEFINE page == Page(space.placement)
<1>1. /\ stage = "page_init_loop" /\ stage' \in {"up", "wild"}
      /\ UNCHANGED <<left, e820, next, index, growths, overwritten>>
  BY DEF InitHeap, loopVars
<1>2. SpaceTyped(space) /\ TablesBelow(space)
  BY <1>1 DEF LoadInv, SpaceInv, BeforeHeap
<1>3. page \in Nat /\ INIT_MEM \in Nat
  BY <1>2, PagingConstants, Quotient DEF SpaceTyped, Page
<1>4. /\ DOMAIN space' = SpaceFields /\ space'.frames = space.frames
      /\ space'.placement = INIT_MEM
      /\ space'.heap_lo = page /\ space'.heap_hi = page + 1
  <2>1. PICK rows : space' = [space EXCEPT !.tables = rows, !.heap_lo = page,
                                           !.heap_hi = page + 1, !.placement = INIT_MEM]
    BY DEF InitHeap
  <2> HIDE DEF page
  <2> QED
    BY <1>2, <2>1 DEF SpaceTyped, SpaceFields
<1>5. SpaceTyped(space') /\ TablesAndHeap(space', growths)
  BY <1>2, <1>3, <1>4 DEF SpaceTyped, TablesBelow, TablesAndHeap
<1>6. SpaceInv'
  BY <1>1, <1>5 DEF SpaceInv, Early, BeforeHeap, Ended
<1>7. MapInv' /\ BlocksInv' /\ OverwrittenInv'
  BY <1>1, <1>4 DEF LoadInv, MapInv, BlocksInv, BlockKnown, BlockWithin, Known,
                    OverwrittenInv, Loaded, Ended
<1> QED
  BY <1>6, <1>7 DEF LoadInv

\* Whatever the heap and the page faults do to the space, it grows.
LEMMA GrowthLoad ==
  ASSUME LoadInv, stage = "up", stage' \in {"up", "hung", "wild"}, growths' = growths + 1,
         UNCHANGED <<left, e820, next, index, overwritten>>,
         SpaceTyped(space'), TablesAndHeap(space', growths'),
         space.frames \subseteq space'.frames
  PROVE  LoadInv'
<1>1. MapInv' /\ BlocksInv' /\ OverwrittenInv'
  BY DEF LoadInv, MapInv, BlocksInv, BlockKnown, BlockWithin, Known, OverwrittenInv, Loaded,
         Ended
<1>2. SpaceInv'
  BY DEF SpaceInv, Early, BeforeHeap, Ended
<1> QED
  BY <1>1, <1>2 DEF LoadInv

LEMMA HeapExtendLoad ==
  ASSUME LoadInv, NEW n \in Growths, HeapExtend(n)
  PROVE  LoadInv'
<1> DEFINE held == [space EXCEPT !.locked = TRUE]
           rows == EnterPage(space, space.heap_hi).tables
           mapped == [held EXCEPT !.tables = rows]
<1>1. /\ stage = "up" /\ stage' \in {"up", "hung", "wild"} /\ growths' = growths + 1
      /\ UNCHANGED <<left, e820, next, index, overwritten>>
  BY DEF HeapExtend, loopVars
<1>2. n \in Nat /\ growths \in Nat /\ SpaceTyped(space) /\ TablesAndHeap(space, growths)
  BY <1>1, ProgramAsks DEF LoadInv, MapInv, SpaceInv
<1>3. \/ space' = held
      \/ \E page : space' = [held EXCEPT !.stuck = page]
      \/ \E page : space' = [mapped EXCEPT !.stuck = page]
      \/ space' = [mapped EXCEPT !.locked = FALSE]
      \/ space' = [[mapped EXCEPT !.heap_hi = @ + n] EXCEPT !.locked = FALSE]
  <2> HIDE DEF rows
  <2> QED
    BY DEF HeapExtend, HeapUnlock, rows
<1> HIDE DEF rows
<1>4. /\ DOMAIN space' = SpaceFields /\ space'.frames = space.frames
      /\ space'.placement = space.placement /\ space'.heap_lo = space.heap_lo
      /\ space'.heap_hi \in {space.heap_hi, space.heap_hi + n}
  BY <1>2, <1>3 DEF SpaceTyped, SpaceFields
<1>5. SpaceTyped(space') /\ TablesAndHeap(space', growths')
  BY <1>1, <1>2, <1>4 DEF SpaceTyped, TablesAndHeap
<1> QED
  BY <1>1, <1>4, <1>5, GrowthLoad

LEMMA PageFaultLoad ==
  ASSUME LoadInv, NEW addr \in Addresses, PageFault(addr)
  PROVE  LoadInv'
<1> DEFINE mapped == IdMap(space, Page(addr))
<1>1. /\ stage = "up" /\ stage' \in {"up", "hung", "wild"} /\ growths' = growths + 1
      /\ UNCHANGED <<left, e820, next, index, overwritten>>
  BY DEF PageFault, loopVars
<1>2. growths \in Nat /\ SpaceTyped(space) /\ TablesAndHeap(space, growths)
  BY <1>1 DEF LoadInv, MapInv, SpaceInv
<1>3. /\ SpaceTyped(mapped) /\ TablesAndHeap(mapped, growths + 1)
      /\ space.frames \subseteq mapped.frames
  BY <1>2, IdMapGrows
<1>4. space' \in {space, mapped, [space EXCEPT !.stuck = Page(addr)]}
  BY DEF PageFault
<1> HIDE DEF mapped
<1>5. CASE space' = mapped
  BY <1>1, <1>3, <1>5, GrowthLoad
<1>6. CASE space' \in {space, [space EXCEPT !.stuck = Page(addr)]}
  <2>1. /\ DOMAIN space' = SpaceFields /\ space'.frames = space.frames
        /\ space'.placement = space.placement /\ space'.heap_lo = space.heap_lo
        /\ space'.heap_hi = space.heap_hi
    BY <1>2, <1>6 DEF SpaceTyped, SpaceFields
  <2>2. SpaceTyped(space') /\ TablesAndHeap(space', growths')
    BY <1>1, <1>2, <2>1 DEF SpaceTyped, TablesAndHeap
  <2> QED
    BY <1>1, <2>1, <2>2, GrowthLoad
<1> QED
  BY <1>4, <1>5, <1>6

LEMMA LoadInductive == LoadInv /\ [Next]_vars => LoadInv'
<1> SUFFICES ASSUME LoadInv, [Next]_vars PROVE LoadInv'
  OBVIOUS
<1>1. CASE Mbr \/ PageInitEntry \/ UNCHANGED vars
  <2>1. UNCHANGED <<stage, left, e820, next, space, index, growths, overwritten>>
    BY <1>1 DEF Mbr, PageInitEntry, vars, pagingVars
  <2> QED
    BY <2>1 DEF LoadInv, MapInv, SpaceInv, BlocksInv, BlockKnown, BlockWithin, Known,
                OverwrittenInv
<1>2. CASE Handover \/ Stages
  BY <1>2, StagesLoad DEF Handover, Stages
<1>3. CASE Loader
  BY <1>1, <1>3, PageInitStartLoad, PageInitMapLoad, PageInitFreeLoad, InitHeapLoad,
     HeapExtendLoad, PageFaultLoad DEF Loader
<1>4. CASE Kernel
  BY <1>4, KernelLoad DEF Kernel
<1> QED
  BY <1>1, <1>2, <1>3, <1>4 DEF Next

\* Memory that page_init has marked free is memory the BIOS has reported as normal, behind
\* INIT_MEM and in one entry, whatever the map and whatever the index does with the
\* block.
THEOREM FreeStaysKnown == Spec => []FreeIsKnown
<1>1. LoadInv => FreeIsKnown
  BY DEF LoadInv, BlocksInv, BlockKnown, BlockWithin, FreeIsKnown
<1> QED
  BY <1>1, InitLoad, LoadInductive, PTL DEF Spec

\* Page tables, the heap and the headers of free blocks have a page of their own as
\* OwnersApart says, for every map of the memory, every growth of the heap and
\* every page fault.
THEOREM OwnersStayApart == Spec => []OwnersApart
<1>1. LoadInv => OwnersApart
  <2> SUFFICES ASSUME LoadInv PROVE OwnersApart
    OBVIOUS
  <2>1. PageInitDone => TablesAndHeap(space, growths)
    BY DEF LoadInv, SpaceInv, PageInitDone
  <2>2. ASSUME ~TablesPastInit
        PROVE  /\ overwritten = {}
               /\ {HeaderPage(b) : b \in Blocks(index)} \intersect space.frames = {}
               /\ (space.heap_hi <= InitPages => ~\E b \in Blocks(index) : HeaderInHeap(b))
    <3>1. InitPages \in Int
      BY PagingConstants, Quotient DEF InitPages, Page
    <3>2. overwritten = {}
      BY <2>2 DEF LoadInv, OverwrittenInv, TablesPastInit
    <3>3. \A b \in Blocks(index) : HeaderPage(b) \in Int /\ InitPages <= HeaderPage(b)
      <4> SUFFICES ASSUME NEW b \in Blocks(index)
                   PROVE  HeaderPage(b) \in Int /\ InitPages <= HeaderPage(b)
        OBVIOUS
      <4>1. b \in Int /\ INIT_MEM <= b
        BY DEF LoadInv, BlocksInv, BlockKnown, BlockWithin
      <4> QED
        BY <4>1, PageBehind DEF HeaderPage
    <3>4. {HeaderPage(b) : b \in Blocks(index)} \intersect space.frames = {}
      BY <2>2, <3>3 DEF TablesPastInit
    <3>5. CASE Blocks(index) = {}
      BY <3>2, <3>4, <3>5
    <3>6. CASE Blocks(index) # {}
      <4>1. space.heap_hi \in Nat
        BY <3>6 DEF LoadInv, MapInv, SpaceInv, SpaceTyped, BlocksInv, BeforeHeap, Loaded
      <4>2. space.heap_hi <= InitPages => ~\E b \in Blocks(index) : HeaderInHeap(b)
        BY <3>1, <3>3, <4>1 DEF HeaderInHeap, HeaderBelow
      <4> QED
        BY <3>2, <3>4, <4>2
    <3> QED
      BY <3>5, <3>6
  <2> QED
    BY <2>1, <2>2 DEF OwnersApart, TablesAndHeap
<1> QED
  BY <1>1, InitLoad, LoadInductive, PTL DEF Spec
=============================================================================
