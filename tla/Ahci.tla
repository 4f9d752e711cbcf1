-------------------------------- MODULE Ahci --------------------------------
(***************************************************************************)
(* The AHCI driver of the older kernel (kernel/bus/ahci.c): the list of    *)
(* devices, ahci_read and ahci_id, against host bus adapters (HBAs) that   *)
(* work on the commands they are given in any order and at any time, or    *)
(* never.                                                                  *)
(*                                                                         *)
(* Lengths are in sectors; BlockSectors of them make AHCI_BLOCK_SIZE.      *)
(*                                                                         *)
(* Limit of the model: calls are about lengths and addresses for which the *)
(* numbers in the command are exact, CallsInRange.  The driver checks      *)
(* none: a length of 0 wraps, addresses are cut to 48 bits, and an entry   *)
(* of the table that is not the last one filled takes a byte more than it  *)
(* should, since dbc holds the length and not the length less one.         *)
(***************************************************************************)
EXTENDS Integers, Sequences

CONSTANTS
  Machines,      \* sequences of HBAs: [ncs, latches, ports]
  BlockSectors,
  CountWrap,     \* the sectors that a count of 0 stands for: 65536
  HighLbas,      \* sectors that the registers can name: 2^48
  SpinMax,       \* looks at a register before the driver gives up: 1000000
  Buffers, Lbas, Lengths,  \* what the calls are about
  CallsMax       \* bound: how many calls

\* An HBA: ncs (its slots but one); latches (it keeps a command that is issued
\* before the port is started, others drop it); and its ports, of 0 .. PortMax,
\* each with impl (implemented), det (a device that is active), st and fre as the
\* firmware left them.
PortMax == 3

PortTypes == [impl : BOOLEAN, det : BOOLEAN, st : BOOLEAN, fre : BOOLEAN]
HbaTypes  == [ncs : Nat, latches : BOOLEAN, ports : [0 .. PortMax -> PortTypes]]

ASSUME AhciConstants ==
  /\ BlockSectors \in Nat \ {0} /\ SpinMax \in Nat \ {0} /\ CountWrap \in Nat \ {0}
  /\ Machines \subseteq Seq(HbaTypes) \ {<<>>}

\* Of a read of whole blocks the drive sends a sector for each: up to BlockSectors of
\* them go into the first entry of the table.  Of less than a block it is asked for the
\* most there can be, and the only entry takes what was asked for.
ASSUME CallsInRange ==
  /\ HighLbas \in Nat /\ Lbas \subseteq 0 .. HighLbas - 1
  /\ Lengths \subseteq Nat \ {0}
  /\ \A len \in Lengths : len \div BlockSectors <= BlockSectors

VARIABLES
  machine,
  at,        \* the HBA and port that ahci_init is at; <<0, 0>> when it is done
  dev,       \* _ahci_dev
  port,      \* registers of the ports of the listed devices: st, ci, tfes, and
             \* cur, the slot that is being worked on, -1 if none
  table,     \* their command headers and tables, by slot
  mem,       \* what the buffers hold: what was read, from where, how many sectors
  call,      \* the call in progress
  calls

vars == <<machine, at, dev, port, table, mem, call, calls>>

NoCommand == [op |-> "none", lba |-> 0, count |-> 0, len |-> 0, buf |-> "none"]
NoCall ==
  [pc |-> "none", cmd |-> NoCommand, idx |-> 0, slot |-> -1, spin |-> 0,
   ok |-> FALSE, why |-> "none", disturbed |-> FALSE]

Places(m) == {<<h, p>> : h \in DOMAIN m, p \in 0 .. PortMax}
Hba(d)    == machine[d[1]]
Port(d)   == Hba(d).ports[d[2]]

Init ==
  /\ machine \in Machines
  /\ at = <<1, 0>> /\ dev = <<>>
  /\ port = [d \in Places(machine) |->
               [st |-> Port(d).st, ci |-> {}, tfes |-> FALSE, cur |-> -1]]
  /\ table = [d \in Places(machine) |-> [s \in 0 .. Hba(d).ncs |-> NoCommand]]
  /\ mem = [b \in Buffers |-> <<"none", 0, 0>>]
  /\ call = NoCall /\ calls = 0

-----------------------------------------------------------------------------
(* ahci_init: each port of each HBA *)

\* Mutant of Looked: the bit of a port says whether another one is looked at.
LookedTwo(p) == (2 * p) % (PortMax + 1)

\* ports >>= 1 and i ++ go together.  (In the copy of this driver under drivers/
\* i is incremented twice, as in the mutant.)
Looked(p) == p

InitPort ==
  /\ at # <<0, 0>>
  /\ LET h == at[1]
         p == Looked(at[2])
     IN dev' = IF machine[h].ports[at[2]].impl /\ machine[h].ports[p].det
               THEN Append(dev, <<h, p>>) ELSE dev
  /\ at' = IF at[2] < PortMax THEN <<at[1], at[2] + 1>>
           ELSE IF at[1] < Len(machine) THEN <<at[1] + 1, 0>> ELSE <<0, 0>>
  /\ UNCHANGED <<machine, port, table, mem, call, calls>>

-----------------------------------------------------------------------------
(* ahci_read and ahci_id *)

\* Mutant of Used: what has been issued is not looked at.
UsedNone(d) == {}

Used(d) == port[d].ci

\* ncs is the number of slots less one, and the loop stops before it.
FreeSlots(d) == {s \in 0 .. Hba(d).ncs - 1 : s \notin Used(d)}

\* ahci_free_slot takes the first one.
FreeSlot(d, slot) == slot \in FreeSlots(d) /\ \A t \in FreeSlots(d) : slot <= t

\* count = len / AHCI_BLOCK_SIZE: of a read the blocks, not the sectors.
Read(lba, len, buf) ==
  [op |-> "read", lba |-> lba, count |-> len \div BlockSectors, len |-> len, buf |-> buf]
Id(buf) == [op |-> "id", lba |-> 0, count |-> 1, len |-> 1, buf |-> buf]

Commands ==
  {Read(lba, len, buf) : lba \in Lbas, len \in Lengths, buf \in Buffers}
    \union {Id(buf) : buf \in Buffers}

\* The command goes into the table of a free slot.  A read then waits for the
\* device, an identification does not.
Call ==
  /\ at = <<0, 0>> /\ call.pc = "none"
  /\ calls < CallsMax /\ calls' = calls + 1
  /\ \E i \in 1 .. Len(dev), cmd \in Commands :
       LET new == [NoCall EXCEPT !.cmd = cmd, !.idx = i]
       IN \/ /\ FreeSlots(dev[i]) = {}
             /\ call' = [new EXCEPT !.pc = "return", !.why = "slots"]
             /\ UNCHANGED table
          \/ \E slot \in 0 .. Hba(dev[i]).ncs :
               /\ FreeSlot(dev[i], slot)
               /\ call' = [new EXCEPT !.slot = slot,
                              !.pc = IF cmd.op = "read" THEN "busy" ELSE "issue"]
               /\ table' = [table EXCEPT ![dev[i]][slot] = cmd]
  /\ UNCHANGED <<machine, at, dev, port, mem>>

Device == dev[call.idx]
Frame  == UNCHANGED <<machine, at, dev, table, mem, calls>>
Goto(pc) == call' = [call EXCEPT !.pc = pc]
Answer(ok, why) == call' = [call EXCEPT !.pc = "return", !.ok = ok, !.why = why]

\* tfd.busy and tfd.drq are set while the device works.
WaitBusy ==
  /\ call.pc = "busy"
  /\ port[Device].cur # -1 /\ call.spin < SpinMax
  /\ call' = [call EXCEPT !.spin = @ + 1]
  /\ UNCHANGED port /\ Frame

WaitBusyEnd ==
  /\ call.pc = "busy"
  /\ ~(port[Device].cur # -1 /\ call.spin < SpinMax)
  /\ IF call.spin = SpinMax THEN Answer(FALSE, "busy") ELSE Goto("issue")
  /\ UNCHANGED port /\ Frame

\* port->ci: the bit is set, unless the port has not been started and the HBA
\* does not keep it.
Issue ==
  /\ call.pc = "issue"
  /\ LET kept == port[Device].st \/ Hba(Device).latches
     IN /\ port' = IF kept THEN [port EXCEPT ![Device].ci = @ \union {call.slot}] ELSE port
        /\ call' = [call EXCEPT !.pc = "start", !.spin = 0,
                                !.why = IF kept THEN @ ELSE "lost"]
  /\ Frame

StartPort ==
  /\ call.pc = "start"
  /\ IF port[Device].st THEN Goto("ci") /\ UNCHANGED port
     ELSE IF Port(Device).fre
     THEN Goto("ci") /\ port' = [port EXCEPT ![Device].st = TRUE]
     ELSE Answer(FALSE, "stopped") /\ UNCHANGED port
  /\ Frame

\* Mutant of GivenUp: it waits as long as it takes.
GivenUpNever == FALSE

\* The end of the wait for completion is reached when the bit is clear, and also
\* after too many looks.
GivenUp == call.spin >= SpinMax

\* Mutant of Cleared: the device is not busy.
ClearedIdle == port[Device].cur = -1

Cleared == call.slot \notin port[Device].ci

LookCi ==
  /\ call.pc = "ci"
  /\ IF GivenUp THEN call' = [call EXCEPT !.pc = "last", !.why = "spinnout"]
     ELSE call' = [call EXCEPT !.pc = IF Cleared THEN "last" ELSE "tfes",
                              !.spin = IF @ < SpinMax THEN @ + 1 ELSE @]
  /\ UNCHANGED port /\ Frame

LookTfes ==
  /\ call.pc = "tfes"
  /\ IF port[Device].tfes THEN Answer(FALSE, "tfes") ELSE Goto("ci")
  /\ UNCHANGED port /\ Frame

\* Check again.  A call that has given up is answered like one that is done.
LookLast ==
  /\ call.pc = "last"
  /\ IF port[Device].tfes THEN Answer(FALSE, "tfes") ELSE Answer(TRUE, call.why)
  /\ UNCHANGED port /\ Frame

Return ==
  /\ call.pc = "return" /\ call' = NoCall
  /\ UNCHANGED port /\ Frame

Driver ==
  \/ InitPort \/ WaitBusy \/ WaitBusyEnd \/ Issue \/ StartPort
  \/ LookCi \/ LookTfes \/ LookLast \/ Return

-----------------------------------------------------------------------------
(* HBAs *)

HbaFrame == UNCHANGED <<machine, at, dev, table, calls>>

HbaFetch(d) ==
  /\ port[d].st /\ ~port[d].tfes /\ port[d].cur = -1
  /\ \E s \in port[d].ci : port' = [port EXCEPT ![d].cur = s]
  /\ UNCHANGED <<mem, call>> /\ HbaFrame

\* The drive sends as many sectors as it is asked for; the HBA stores as many as
\* the table has room for.
Transferred(cmd) ==
  LET sent == IF cmd.count = 0 THEN CountWrap ELSE cmd.count
  IN IF sent < cmd.len THEN sent ELSE cmd.len

Busy(d) == port[d].cur # -1

\* A buffer is written by what its table says when the HBA gets to it, also when
\* the call that issued it has long returned and another uses the buffer.
HbaComplete(d) ==
  /\ Busy(d)
  /\ LET cmd == table[d][port[d].cur]
         mine == call.pc # "none" /\ d = Device /\ port[d].cur = call.slot
     IN /\ mem' = [mem EXCEPT ![cmd.buf] = <<cmd.op, cmd.lba, Transferred(cmd)>>]
        /\ call' = IF call.pc # "none" /\ ~mine /\ cmd.buf = call.cmd.buf
                   THEN [call EXCEPT !.disturbed = TRUE] ELSE call
  /\ port' = [port EXCEPT ![d].ci = @ \ {port[d].cur}, ![d].cur = -1]
  /\ HbaFrame

\* The bit of the command stays set, the HBA stops, and nothing clears tfes.
HbaError(d) ==
  /\ Busy(d)
  /\ port' = [port EXCEPT ![d].tfes = TRUE, ![d].cur = -1]
  /\ UNCHANGED <<mem, call>> /\ HbaFrame

HbaStep == \E d \in DOMAIN port : HbaFetch(d) \/ HbaComplete(d) \/ HbaError(d)

Next == Driver \/ Call \/ HbaStep

Spec == Init /\ [][Next]_vars /\ WF_vars(Driver)

-----------------------------------------------------------------------------
(* Properties *)

\* The list of devices is what the HBAs have: every implemented port with an
\* active device, once, in order.
DevicesExact ==
  at = <<0, 0>> =>
    /\ {dev[i] : i \in DOMAIN dev} =
         {d \in DOMAIN port : Port(d).impl /\ Port(d).det}
    /\ \A i, j \in DOMAIN dev : i < j =>
         dev[i][1] < dev[j][1] \/ (dev[i][1] = dev[j][1] /\ dev[i][2] < dev[j][2])

\* The HBA may read the table of a command until it clears its bit, in its own
\* time: until then the table stays as it was issued, whatever calls come between,
\* also when the one that issued it has given up.
TablesStable ==
  [][\A d \in DOMAIN port : \A s \in port[d].ci \intersect port'[d].ci :
       table'[d][s] = table[d][s]]_vars

\* What TRUE means: the sectors that the command transfers (which may be fewer
\* than were asked for) are in the buffer, unless the driver gave up waiting, the
\* command was lost, or the buffer was also that of a call given up before.  Only
\* the first call for a port that the firmware has not started can be lost.
TrueMeansRead ==
  LET cmd == call.cmd
  IN call.pc = "return" /\ call.ok =>
       /\ \/ mem[cmd.buf] = <<cmd.op, cmd.lba, Transferred(cmd)>>
          \/ call.why \in {"spinnout", "lost"}
          \/ call.disturbed
       /\ call.why = "lost" => ~Port(Device).st /\ ~Hba(Device).latches

\* Every call comes back, also from a device that never answers.
CallsReturn == call.pc # "none" ~> call.pc = "none"
=============================================================================
