----------------------------- MODULE BootRecord -----------------------------
(***************************************************************************)
(* The master boot record (mbr/main.asm): it tests the machine, finds the  *)
(* BIOS boot partition in the GUID partition table and copies it to        *)
(* BOOT_LOC, one sector at a time, before it jumps there.  Whatever does   *)
(* not suit it ends in jmp $, here the place "hang".                       *)
(*                                                                         *)
(* Memory is counted in sectors.  A segment is SegmentSectors of them, the *)
(* shifts in the copy loop keep four bits of the segment register, that is *)
(* the number of a segment below Segments, the 16-bit counter of the loop  *)
(* wraps at Word and an LBA at Dword.                                      *)
(***************************************************************************)
EXTENDS Integers, Sequences

CONSTANTS
  LowMemories,    \* what int 0x12 may answer, in KiB
  PartitionTypes, \* the type byte of the first MBR partition
  Tables,         \* partition arrays: sequences of [bbp, start, end, far]
  BOOT_LOC,       \* the sector of memory the copy starts at
  SegmentSectors, \* sectors in a 64 KiB segment
  Segments,       \* segments that real mode addresses
  TRANSF_MAX,     \* the largest copy, in sectors
  Word,           \* the counter wraps here
  Dword           \* and an LBA here

ASSUME BootConstants ==
  /\ LowMemories \subseteq Nat
  /\ SegmentSectors \in Nat \ {0} /\ Segments \in Nat \ {0}
  /\ BOOT_LOC \in 1 .. SegmentSectors - 1
  /\ TRANSF_MAX \in Nat \ {0} /\ BOOT_LOC + TRANSF_MAX <= Segments * SegmentSectors
  /\ Word \in Nat /\ Segments * SegmentSectors < Word
  /\ Dword \in Nat /\ 2 * Word < Dword

\* An entry has the low double words of its first and last (inclusive) LBA, and
\* whether they need more than that.  One sector of the array holds four entries.
Entries == [bbp : BOOLEAN, start : 0 .. Dword - 1, end : 0 .. Dword - 1, far : BOOLEAN]

ASSUME FourEntries == \A table \in Tables : table \in Seq(Entries) /\ Len(table) >= 4

VARIABLES
  mbr,      \* where the boot record is
  parts,    \* the partition array on the disk
  entry,    \* the entry test_part looks at, counted from 1
  bbp_size, \* DATA(bbp_size)
  cx,       \* passes of the copy loop that are left
  dap,      \* the disk address packet: target segment and offset, and LBA
  loaded    \* what each sector of memory from BOOT_LOC on holds: an LBA

mbrVars == <<mbr, parts, entry, bbp_size, cx, dap, loaded>>

MinimumKiB == 512 \* KiB the boot record asks for above 0x7C00

BootInit ==
  /\ mbr = "test_mem"
  /\ parts \in Tables
  /\ entry = 1 /\ bbp_size = 0 /\ cx = 0
  /\ dap = [segm |-> 0, buff |-> 0, lba |-> 1]
  /\ loaded = <<>>

BootGoto(from, to) == mbr = from /\ mbr' = to

Keep == UNCHANGED <<parts, entry, bbp_size, cx, dap, loaded>>

\* A BIOS call that sets the carry flag, in any place that makes one.
BiosFails ==
  /\ mbr \in {"test_mem", "test_ext", "reset_disk", "read_gpt", "read_part_arr",
              "copy_block"}
  /\ mbr' = "hang"
  /\ Keep

\* test_mem: 0x1F KiB lie below the boot record.
TestMem ==
  /\ \E low \in LowMemories :
       BootGoto("test_mem",
                IF low # 0 /\ low - 31 >= MinimumKiB THEN "test_mbr_part" ELSE "hang")
  /\ Keep

TestMbrPart ==
  /\ \E type \in PartitionTypes :
       BootGoto("test_mbr_part", IF type = 238 THEN "test_ext" ELSE "hang")
  /\ Keep

TestExt    == BootGoto("test_ext", "reset_disk") /\ Keep
ResetDisk  == BootGoto("reset_disk", "read_gpt") /\ Keep

\* The header is read and not looked at: the test of its signature is
\* commented out.
ReadGpt == BootGoto("read_gpt", "read_part_arr") /\ Keep

ReadPartArr ==
  /\ BootGoto("read_part_arr", "test_part")
  /\ dap' = [dap EXCEPT !.lba = 2]
  /\ UNCHANGED <<parts, entry, bbp_size, cx, loaded>>

\* One sector of the array holds four entries.
TestNext ==
  /\ mbr = "test_part" /\ ~parts[entry].bbp
  /\ IF entry < 4
     THEN entry' = entry + 1 /\ mbr' = mbr
     ELSE entry' = entry /\ mbr' = "hang"
  /\ UNCHANGED <<parts, bbp_size, cx, dap, loaded>>

\* Mutant of Iterations: no limit.
IterationsUnlimited(size) == size % Word

\* A double word as jle takes it.
Signed(size) == IF size < Dword \div 2 THEN size ELSE size - Dword

\* prepare_copy and copy_start.  The size leaves out the last sector: lba_end is
\* inclusive.  The limit is compared signed.
Iterations(size) ==
  (IF Signed(size) <= TRANSF_MAX THEN size ELSE TRANSF_MAX) % Word

PrepareCopy ==
  /\ mbr = "test_part" /\ parts[entry].bbp
  /\ IF parts[entry].far
     THEN mbr' = "hang" /\ UNCHANGED <<bbp_size, cx, dap>>
     ELSE /\ mbr' = "copy_block"
          /\ bbp_size' = (parts[entry].end - parts[entry].start) % Dword
          /\ cx' = Iterations(bbp_size')
          /\ dap' = [segm |-> 0, buff |-> BOOT_LOC, lba |-> parts[entry].start]
  /\ UNCHANGED <<parts, entry, loaded>>

\* The sector of memory that the packet names.
Target(packet) == packet.segm * SegmentSectors + packet.buff

\* The buffer and the segment are one double word to the add, so the carry of
\* the offset is the next segment; after the last one comes the first.
NextPacket(packet) ==
  [segm |-> (packet.segm + (packet.buff + 1) \div SegmentSectors) % Segments,
   buff |-> (packet.buff + 1) % SegmentSectors,
   lba  |-> (packet.lba + 1) % Dword]

\* .copy_block: the counter is decremented before it is tested, so a count of
\* zero goes round once more than a word counts.
CopyBlock ==
  /\ mbr = "copy_block" /\ Target(dap) >= BOOT_LOC
  /\ loaded' = [i \in DOMAIN loaded \union {Target(dap) - BOOT_LOC + 1} |->
                  IF i = Target(dap) - BOOT_LOC + 1 THEN dap.lba ELSE loaded[i]]
  /\ cx' = (cx - 1) % Word
  /\ IF cx' = 0
     THEN mbr' = "jump" /\ dap' = dap
     ELSE mbr' = mbr /\ dap' = NextPacket(dap)
  /\ UNCHANGED <<parts, entry, bbp_size>>

\* The copy has come round to the first sector of memory: it replaces the vector of
\* the interrupt it is made with, and what runs next is anyone's guess.
CopyOver ==
  /\ BootGoto("copy_block", "wild") /\ Target(dap) < BOOT_LOC
  /\ Keep

BootStep ==
  \/ BiosFails \/ TestMem \/ TestMbrPart \/ TestExt \/ ResetDisk \/ ReadGpt
  \/ ReadPartArr \/ TestNext \/ PrepareCopy \/ CopyBlock \/ CopyOver

-----------------------------------------------------------------------------
(* Properties *)

\* The boot record never jumps into a partition it has not read: memory from
\* BOOT_LOC on, and no further than memory goes, holds sectors of the partition in
\* their order from its first one.  They are all of them but the last, or as many
\* as the limit allows, as long as the size is a positive number to jle.  (With a
\* partition of a single sector the counter starts at zero, and the loop runs on
\* until it is overwritten.)
PartitionLoaded ==
  mbr = "jump" =>
    LET p    == parts[entry]
        size == p.end - p.start
    IN /\ p.bbp /\ ~p.far
       /\ \E n \in 1 .. Segments * SegmentSectors - BOOT_LOC :
            /\ loaded = [i \in 1 .. n |-> (p.start + i - 1) % Dword]
            /\ size \in 0 .. Dword \div 2 - 1 =>
                 size # 0 /\ n = IF size > TRANSF_MAX THEN TRANSF_MAX ELSE size
=============================================================================
