---------------------------- MODULE Ahci_proofs ----------------------------
(***************************************************************************)
(* Proofs about the AHCI driver, for every machine, every number of slots  *)
(* and of calls and every patience: the list of devices is exact, a        *)
(* command's table stays as it was issued until the HBA is done with it,   *)
(* and TRUE means what TrueMeansRead says, all of calls whose lengths and  *)
(* addresses are within CallsInRange.                                      *)
(***************************************************************************)
EXTENDS Ahci, TLAPS

All == Places(machine)

Waiting  == {"busy", "issue"}
InFlight == {"start", "ci", "tfes", "last"}

PortStates == [st : BOOLEAN, ci : SUBSET Nat, tfes : BOOLEAN, cur : Int]
CallStates ==
  [pc : {"none", "return"} \union Waiting \union InFlight,
   cmd : Commands \union {NoCommand}, idx : Nat, slot : Int, spin : Nat,
   ok : BOOLEAN, why : {"none", "slots", "busy", "lost", "stopped", "spinnout", "tfes"},
   disturbed : BOOLEAN]

\* What has been set up stays in its place, and a call is about a listed device
\* and one of its slots.
TypeInv ==
  /\ machine \in Machines
  /\ at = <<0, 0>> \/ at \in All
  /\ dev \in Seq(All)
  /\ port \in [All -> PortStates]
  /\ \A d \in All : port[d].ci \subseteq 0 .. Hba(d).ncs
                    /\ port[d].cur \in port[d].ci \union {-1}
  /\ DOMAIN table = All
  /\ \A d \in All : table[d] \in [0 .. Hba(d).ncs -> Commands \union {NoCommand}]
  /\ call \in CallStates
  /\ call.pc # "none" => /\ at = <<0, 0>>
                         /\ call.idx \in 1 .. Len(dev)
                         /\ call.cmd \in Commands
  /\ call.pc \in Waiting \union InFlight => call.slot \in 0 .. Hba(Device).ncs

-----------------------------------------------------------------------------
(* Machines and places *)

LEMMA MachineFacts ==
  ASSUME machine \in Machines
  PROVE  /\ machine \in Seq(HbaTypes) /\ Len(machine) >= 1
         /\ \A d \in All : /\ Hba(d) \in HbaTypes /\ Hba(d).ncs \in Nat
                           /\ Port(d) \in PortTypes
<1>1. machine \in Seq(HbaTypes) /\ machine # <<>>
  BY AhciConstants
<1>2. Len(machine) >= 1
  BY <1>1
<1>3. ASSUME NEW d \in All
      PROVE  Hba(d) \in HbaTypes /\ Hba(d).ncs \in Nat /\ Port(d) \in PortTypes
  <2>1. PICK h \in DOMAIN machine, p \in 0 .. PortMax : d = <<h, p>>
    BY DEF All, Places
  <2>2. machine[h] \in HbaTypes
    BY <1>1, <2>1
  <2>3. machine[h].ncs \in Nat /\ machine[h].ports[p] \in PortTypes
    BY <2>1, <2>2 DEF HbaTypes
  <2>4. QED
    BY <2>1, <2>2, <2>3 DEF Hba, Port
<1>4. QED
  BY <1>1, <1>2, <1>3

\* The device of a call is one of the places.
LEMMA DeviceFacts ==
  ASSUME TypeInv, call.pc # "none"
  PROVE  Device \in All
BY DEF TypeInv, Device

LEMMA CommandFacts ==
  ASSUME NEW cmd \in Commands
  PROVE  cmd.buf \in Buffers /\ cmd.op \in {"read", "id"}
BY DEF Commands, Read, Id

LEMMA InitTyped ==
  ASSUME Init
  PROVE  TypeInv
<1>1. machine \in Machines
  BY DEF Init
<1>2. at \in All
  <2>1. 1 \in DOMAIN machine
    BY <1>1, MachineFacts
  <2>2. QED
    BY <2>1 DEF Init, All, Places, PortMax
<1>3. dev \in Seq(All) /\ call = NoCall
  BY DEF Init
<1>4. call \in CallStates /\ call.pc = "none"
  BY <1>3 DEF CallStates, NoCall, Waiting, InFlight
<1>5. ASSUME NEW d \in All
      PROVE  /\ port[d] = [st |-> Port(d).st, ci |-> {}, tfes |-> FALSE, cur |-> -1]
             /\ port[d] \in PortStates
  <2>1. Port(d).st \in BOOLEAN
    BY <1>1, MachineFacts DEF PortTypes
  <2>2. port[d] = [st |-> Port(d).st, ci |-> {}, tfes |-> FALSE, cur |-> -1]
    BY DEF Init, All
  <2>3. QED
    BY <2>1, <2>2 DEF PortStates
<1>6. port \in [All -> PortStates]
  BY <1>5 DEF Init, All
<1>7. DOMAIN table = All
      /\ \A d \in All : table[d] = [s \in 0 .. Hba(d).ncs |-> NoCommand]
  BY DEF Init, All
<1>8. \A d \in All : table[d] \in [0 .. Hba(d).ncs -> Commands \union {NoCommand}]
  BY <1>7
<1>9. QED
  BY <1>1, <1>2, <1>3, <1>4, <1>5, <1>6, <1>7, <1>8 DEF TypeInv, Waiting, InFlight

-----------------------------------------------------------------------------
(* Steps keep TypeInv *)

\* A step of a call, which keeps what the call is about.
LEMMA CallStepTyped ==
  ASSUME TypeInv, Frame, UNCHANGED port, call' \in CallStates,
         call'.pc # "none" =>
           call.pc # "none" /\ call'.idx = call.idx /\ call'.cmd = call.cmd,
         call'.pc \in Waiting \union InFlight =>
           call.pc \in Waiting \union InFlight /\ call'.slot = call.slot
  PROVE  TypeInv'
<1>1. UNCHANGED <<machine, at, dev, table, port>> /\ All' = All
  BY DEF Frame, All
<1>2. \A d \in All : Hba(d)' = Hba(d)
  BY <1>1 DEF Hba
<1>3. call'.pc \in Waiting \union InFlight => Device' = Device /\ Hba(Device)' = Hba(Device)
  BY <1>1 DEF Device, Hba, Waiting, InFlight
<1>4. QED
  BY <1>1, <1>2, <1>3 DEF TypeInv, Waiting, InFlight

LEMMA AnswerTyped ==
  ASSUME TypeInv, call.pc # "none", Frame, UNCHANGED port, NEW ok \in BOOLEAN,
         NEW why \in {"none", "busy", "lost", "stopped", "spinnout", "tfes", "slots"}, Answer(ok, why)
  PROVE  TypeInv' /\ call'.pc = "return" /\ call'.cmd = call.cmd /\ call'.slot = call.slot
         /\ call'.idx = call.idx
         /\ call'.ok = ok /\ call'.why = why /\ call'.disturbed = call.disturbed
<1>1. call \in CallStates
  BY DEF TypeInv
<1>2. /\ call'.pc = "return" /\ call'.cmd = call.cmd /\ call'.slot = call.slot
      /\ call'.ok = ok /\ call'.why = why /\ call'.disturbed = call.disturbed
      /\ call'.idx = call.idx /\ call' \in CallStates
  BY <1>1 DEF Answer, CallStates
<1>3. QED
  BY <1>2, CallStepTyped DEF Waiting, InFlight

LEMMA GotoTyped ==
  ASSUME TypeInv, call.pc \in Waiting \union InFlight, Frame, UNCHANGED port,
         NEW pc \in Waiting \union InFlight, Goto(pc)
  PROVE  TypeInv' /\ call'.pc = pc /\ call'.cmd = call.cmd /\ call'.slot = call.slot
         /\ call'.idx = call.idx
         /\ call'.ok = call.ok /\ call'.why = call.why /\ call'.disturbed = call.disturbed
<1>1. call \in CallStates
  BY DEF TypeInv
<1>2. /\ call'.pc = pc /\ call'.cmd = call.cmd /\ call'.slot = call.slot
      /\ call'.ok = call.ok /\ call'.why = call.why /\ call'.disturbed = call.disturbed
      /\ call'.idx = call.idx /\ call' \in CallStates
  BY <1>1 DEF Goto, CallStates
<1>3. QED
  BY <1>1, <1>2, CallStepTyped DEF Waiting, InFlight

LEMMA InitPortTyped ==
  ASSUME TypeInv, InitPort
  PROVE  TypeInv'
<1>1. /\ UNCHANGED <<machine, port, table, call>> /\ All' = All
      /\ call.pc = "none" /\ at \in All
  BY DEF InitPort, TypeInv, All
<1>2. PICK h \in DOMAIN machine, p \in 0 .. PortMax : at = <<h, p>>
  BY <1>1 DEF All, Places
<1>3. dev' \in Seq(All)
  <2>1. Looked(at[2]) = p /\ at[1] = h
    BY <1>2 DEF Looked
  <2>2. <<h, p>> \in All
    BY <1>1, <1>2
  <2>3. dev' = Append(dev, <<h, p>>) \/ dev' = dev
    BY <2>1 DEF InitPort
  <2>4. dev \in Seq(All)
    BY DEF TypeInv
  <2>5. Append(dev, <<h, p>>) \in Seq(All)
    BY <2>2, <2>4
  <2>6. QED
    BY <2>3, <2>4, <2>5
<1>4. at' = <<0, 0>> \/ at' \in All
  <2>1. machine \in Seq(HbaTypes)
    BY MachineFacts DEF TypeInv
  <2>2. h \in 1 .. Len(machine)
    BY <2>1
  <2>3. CASE p < PortMax
    BY <1>2, <2>3 DEF InitPort, All, Places, PortMax
  <2>4. CASE p >= PortMax /\ h < Len(machine)
    <3>1. at' = <<h + 1, 0>> /\ h + 1 \in DOMAIN machine
      BY <1>2, <2>1, <2>2, <2>4 DEF InitPort, PortMax
    <3>2. QED
      BY <3>1 DEF All, Places, PortMax
  <2>5. CASE p >= PortMax /\ h >= Len(machine)
    BY <1>2, <2>2, <2>5, SMTT(60) DEF InitPort, PortMax
  <2>6. QED
    BY <2>1, <2>2, <2>3, <2>4, <2>5 DEF PortMax
<1>5. \A d \in All : Hba(d)' = Hba(d)
  BY <1>1 DEF Hba
<1>6. QED
  BY <1>1, <1>3, <1>4, <1>5 DEF TypeInv, Waiting, InFlight

\* A call chooses a slot that is free, and writes only its table.
LEMMA CallFacts ==
  ASSUME TypeInv, Call
  PROVE  /\ UNCHANGED <<machine, at, dev, port, mem>> /\ at = <<0, 0>> /\ call.pc = "none"
         /\ \E i \in 1 .. Len(dev), cmd \in Commands :
              /\ dev[i] \in All
              /\ call' \in CallStates /\ call'.idx = i /\ call'.cmd = cmd
              /\ ~call'.ok /\ call'.why \in {"none", "slots"} /\ ~call'.disturbed
              /\ \/ call'.pc = "return" /\ UNCHANGED table
                 \/ /\ call'.pc \in Waiting
                    /\ call'.why = "none"
                    /\ call'.slot \in 0 .. Hba(dev[i]).ncs
                    /\ call'.slot \notin port[dev[i]].ci
                    /\ table' = [table EXCEPT ![dev[i]][call'.slot] = cmd]
<1>1. PICK i \in 1 .. Len(dev), cmd \in Commands :
        LET new == [NoCall EXCEPT !.cmd = cmd, !.idx = i]
        IN \/ /\ FreeSlots(dev[i]) = {}
              /\ call' = [new EXCEPT !.pc = "return", !.why = "slots"]
              /\ UNCHANGED table
           \/ \E slot \in 0 .. Hba(dev[i]).ncs :
                /\ FreeSlot(dev[i], slot)
                /\ call' = [new EXCEPT !.slot = slot,
                               !.pc = IF cmd.op = "read" THEN "busy" ELSE "issue"]
                /\ table' = [table EXCEPT ![dev[i]][slot] = cmd]
  BY DEF Call
<1>2. dev[i] \in All /\ i \in Nat
  BY DEF TypeInv
<1> DEFINE Outcome ==
      /\ dev[i] \in All
      /\ call' \in CallStates /\ call'.idx = i /\ call'.cmd = cmd
      /\ ~call'.ok /\ call'.why \in {"none", "slots"} /\ ~call'.disturbed
      /\ \/ call'.pc = "return" /\ UNCHANGED table
         \/ /\ call'.pc \in Waiting
            /\ call'.why = "none"
            /\ call'.slot \in 0 .. Hba(dev[i]).ncs
            /\ call'.slot \notin port[dev[i]].ci
            /\ table' = [table EXCEPT ![dev[i]][call'.slot] = cmd]
<1>3. /\ NoCall = [pc |-> "none", cmd |-> NoCommand, idx |-> 0, slot |-> -1, spin |-> 0,
                   ok |-> FALSE, why |-> "none", disturbed |-> FALSE]
  BY DEF NoCall
<1>4. UNCHANGED <<machine, at, dev, port, mem>> /\ at = <<0, 0>> /\ call.pc = "none"
  BY DEF Call
<1>5. CASE /\ call' = [[NoCall EXCEPT !.cmd = cmd, !.idx = i]
                         EXCEPT !.pc = "return", !.why = "slots"]
           /\ UNCHANGED table
  <2>1. call' = [pc |-> "return", cmd |-> cmd, idx |-> i, slot |-> -1, spin |-> 0,
                 ok |-> FALSE, why |-> "slots", disturbed |-> FALSE]
    BY <1>3, <1>5
  <2>2. call' \in CallStates
    BY <1>2, <2>1 DEF CallStates
  <2>3. UNCHANGED table
    BY <1>5
  <2>4. Outcome
    BY <1>2, <2>1, <2>2, <2>3
  <2>5. QED
    BY <1>4, <2>4
<1>6. CASE \E slot \in 0 .. Hba(dev[i]).ncs :
             /\ FreeSlot(dev[i], slot)
             /\ call' = [[NoCall EXCEPT !.cmd = cmd, !.idx = i]
                           EXCEPT !.slot = slot,
                                  !.pc = IF cmd.op = "read" THEN "busy" ELSE "issue"]
             /\ table' = [table EXCEPT ![dev[i]][slot] = cmd]
  <2>1. PICK slot \in 0 .. Hba(dev[i]).ncs :
             /\ FreeSlot(dev[i], slot)
             /\ call' = [[NoCall EXCEPT !.cmd = cmd, !.idx = i]
                           EXCEPT !.slot = slot,
                                  !.pc = IF cmd.op = "read" THEN "busy" ELSE "issue"]
             /\ table' = [table EXCEPT ![dev[i]][slot] = cmd]
    BY <1>6
  <2>2. call' = [pc |-> IF cmd.op = "read" THEN "busy" ELSE "issue", cmd |-> cmd,
                 idx |-> i, slot |-> slot, spin |-> 0,
                 ok |-> FALSE, why |-> "none", disturbed |-> FALSE]
    BY <1>3, <2>1
  <2>3. slot \in Int
    BY <1>2, MachineFacts DEF TypeInv
  <2>4. call' \in CallStates /\ call'.pc \in Waiting
    BY <1>2, <2>2, <2>3 DEF CallStates, Waiting
  <2>5. slot \notin port[dev[i]].ci
    BY <2>1 DEF FreeSlot, FreeSlots, Used
  <2>6. table' = [table EXCEPT ![dev[i]][call'.slot] = cmd]
    BY <2>1, <2>2
  <2>7. Outcome
    BY <1>2, <2>2, <2>4, <2>5, <2>6
  <2>8. QED
    BY <1>4, <2>7
<1>7. QED
  BY <1>1, <1>5, <1>6, ZenonT(60)

LEMMA CallTyped ==
  ASSUME TypeInv, Call
  PROVE  TypeInv'
<1>1. /\ UNCHANGED <<machine, at, dev, port>> /\ at = <<0, 0>> /\ All' = All
      /\ \A d \in All : Hba(d)' = Hba(d)
  BY CallFacts DEF All, Hba
<1>2. PICK i \in 1 .. Len(dev), cmd \in Commands :
        /\ dev[i] \in All
        /\ call' \in CallStates /\ call'.idx = i /\ call'.cmd = cmd
        /\ \/ call'.pc = "return" /\ UNCHANGED table
           \/ /\ call'.pc \in Waiting
              /\ call'.slot \in 0 .. Hba(dev[i]).ncs
              /\ table' = [table EXCEPT ![dev[i]][call'.slot] = cmd]
  BY CallFacts
<1>3. Device' = dev[i]
  BY <1>1, <1>2 DEF Device
<1>4. /\ DOMAIN table' = All
      /\ \A d \in All : table'[d] \in [0 .. Hba(d).ncs -> Commands \union {NoCommand}]
  <2>1. CASE UNCHANGED table
    BY <2>1 DEF TypeInv
  <2>2. CASE /\ call'.slot \in 0 .. Hba(dev[i]).ncs
             /\ table' = [table EXCEPT ![dev[i]][call'.slot] = cmd]
    <3>1. DOMAIN table' = All
      BY <2>2 DEF TypeInv
    <3>2. ASSUME NEW d \in All
          PROVE  table'[d] \in [0 .. Hba(d).ncs -> Commands \union {NoCommand}]
      <4>1. table[d] \in [0 .. Hba(d).ncs -> Commands \union {NoCommand}]
        BY DEF TypeInv
      <4>2. table'[d] = IF d = dev[i] THEN [table[d] EXCEPT ![call'.slot] = cmd]
                        ELSE table[d]
        BY <2>2 DEF TypeInv
      <4>3. QED
        BY <4>1, <4>2
    <3>3. QED
      BY <3>1, <3>2
  <2>3. QED
    BY <1>2, <2>1, <2>2
<1>5. call'.pc \in Waiting \union InFlight => call'.slot \in 0 .. Hba(Device)'.ncs
  BY <1>1, <1>2, <1>3 DEF Waiting, InFlight, Hba
<1>6. QED
  BY <1>1, <1>2, <1>4, <1>5 DEF TypeInv, Hba

\* The registers of one port change, within its slots.
LEMMA PortStepTyped ==
  ASSUME TypeInv, UNCHANGED <<machine, at, dev, table>>, NEW d \in All,
         port' = [port EXCEPT ![d] = port'[d]], port'[d] \in PortStates,
         port'[d].ci \subseteq 0 .. Hba(d).ncs, port'[d].cur \in port'[d].ci \union {-1},
         call' \in CallStates,
         call'.pc # "none" =>
           call.pc # "none" /\ call'.idx = call.idx /\ call'.cmd = call.cmd,
         call'.pc \in Waiting \union InFlight =>
           call.pc \in Waiting \union InFlight /\ call'.slot = call.slot
  PROVE  TypeInv'
<1>1. All' = All /\ \A e \in All : Hba(e)' = Hba(e)
  BY DEF All, Hba
<1>2. call'.pc \in Waiting \union InFlight => Device' = Device /\ Hba(Device)' = Hba(Device)
  BY DEF Device, Hba, Waiting, InFlight
<1>3. port \in [All -> PortStates]
  BY DEF TypeInv
<1>4. \A e \in All : port'[e] = IF e = d THEN port'[d] ELSE port[e]
  BY <1>3
<1>5. port' \in [All -> PortStates]
  BY <1>3
<1>6. \A e \in All : port'[e].ci \subseteq 0 .. Hba(e).ncs
                     /\ port'[e].cur \in port'[e].ci \union {-1}
  BY <1>4 DEF TypeInv
<1>7. QED
  BY <1>1, <1>2, <1>5, <1>6 DEF TypeInv, Waiting, InFlight

\* port->ci: what Issue does to the port, and to the call.
LEMMA IssueFacts ==
  ASSUME TypeInv, Issue
  PROVE  /\ call.pc = "issue" /\ Device \in All /\ Device' = Device /\ Frame
         /\ call' \in CallStates /\ call'.pc = "start"
         /\ call'.cmd = call.cmd /\ call'.slot = call.slot /\ call'.idx = call.idx
         /\ call'.disturbed = call.disturbed /\ call.slot \in 0 .. Hba(Device).ncs
         /\ \/ /\ port' = [port EXCEPT ![Device].ci = @ \union {call.slot}]
               /\ call'.why = call.why
            \/ /\ ~port[Device].st /\ ~Hba(Device).latches
               /\ UNCHANGED port
               /\ call'.why = "lost"
<1> DEFINE kept == port[Device].st \/ Hba(Device).latches
<1>1. call.pc = "issue" /\ Frame
  BY DEF Issue
<1>2. Device \in All /\ call \in CallStates /\ call.slot \in 0 .. Hba(Device).ncs
  BY <1>1, DeviceFacts DEF TypeInv, Waiting
<1>3. /\ call' = [call EXCEPT !.pc = "start", !.spin = 0, !.why = IF kept THEN @ ELSE "lost"]
      /\ port' = IF kept THEN [port EXCEPT ![Device].ci = @ \union {call.slot}] ELSE port
  BY DEF Issue
<1>4. /\ call' \in CallStates /\ call'.pc = "start"
      /\ call'.cmd = call.cmd /\ call'.slot = call.slot /\ call'.idx = call.idx
      /\ call'.disturbed = call.disturbed
      /\ call'.why = IF kept THEN call.why ELSE "lost"
  <2> HIDE DEF kept
  <2>1. QED
    BY <1>2, <1>3 DEF CallStates, Waiting, InFlight
<1>5. Device' = Device
  BY <1>1, <1>4 DEF Device, Frame
<1>6. QED
  BY <1>1, <1>2, <1>3, <1>4, <1>5

LEMMA IssueTyped ==
  ASSUME TypeInv, Issue
  PROVE  TypeInv'
<1>1. /\ call.pc = "issue" /\ Device \in All /\ UNCHANGED <<machine, at, dev, table>>
      /\ call' \in CallStates /\ call'.pc = "start" /\ call'.idx = call.idx
      /\ call'.cmd = call.cmd /\ call'.slot = call.slot
      /\ call.slot \in 0 .. Hba(Device).ncs
      /\ (port' = [port EXCEPT ![Device].ci = @ \union {call.slot}] \/ UNCHANGED port)
  BY IssueFacts DEF Frame
<1>2. CASE UNCHANGED port
  BY <1>1, <1>2, CallStepTyped, IssueFacts DEF Waiting, InFlight
<1>3. CASE port' = [port EXCEPT ![Device].ci = @ \union {call.slot}]
  <2>1. port \in [All -> PortStates] /\ port[Device] \in PortStates
    BY <1>1 DEF TypeInv
  <2>2. /\ port'[Device] = [port[Device] EXCEPT !.ci = @ \union {call.slot}]
        /\ port' = [port EXCEPT ![Device] = port'[Device]]
    BY <1>1, <1>3, <2>1
  <2>3. Hba(Device).ncs \in Nat
    BY <1>1, MachineFacts DEF TypeInv
  <2>4. call.slot \in Nat
    BY <1>1, <2>3
  <2>5. /\ port'[Device] \in PortStates
        /\ port'[Device].ci = port[Device].ci \union {call.slot}
        /\ port'[Device].cur = port[Device].cur
    BY <2>1, <2>2, <2>4 DEF PortStates
  <2>6. /\ port'[Device].ci \subseteq 0 .. Hba(Device).ncs
        /\ port'[Device].cur \in port'[Device].ci \union {-1}
    BY <1>1, <2>5 DEF TypeInv
  <2>7. call.pc \in Waiting \union InFlight /\ call.pc # "none"
    BY <1>1 DEF Waiting
  <2>8. QED
    BY <1>1, <2>2, <2>5, <2>6, <2>7, PortStepTyped
<1>4. QED
  BY <1>1, <1>2, <1>3

LEMMA StartPortFacts ==
  ASSUME TypeInv, StartPort
  PROVE  /\ TypeInv' /\ Frame /\ call.pc = "start" /\ Device \in All /\ Device' = Device
         /\ call'.cmd = call.cmd /\ call'.slot = call.slot /\ call'.idx = call.idx
         /\ call'.disturbed = call.disturbed
         /\ \/ call'.pc = "ci" /\ call'.why = call.why
            \/ call'.pc = "return" /\ ~call'.ok
         /\ DOMAIN port' = DOMAIN port
         /\ \A d \in All : port'[d].ci = port[d].ci /\ port'[d].cur = port[d].cur
                           /\ (port[d].st => port'[d].st)
<1>1. call.pc = "start" /\ Frame /\ Device \in All
  BY DeviceFacts DEF StartPort
<1>2. call \in CallStates /\ call.pc \in Waiting \union InFlight /\ call.pc # "none"
  BY <1>1 DEF TypeInv, InFlight
<1>3. CASE UNCHANGED port /\ (Goto("ci") \/ Answer(FALSE, "stopped"))
  <2>1. CASE Goto("ci")
    BY <1>1, <1>2, <1>3, <2>1, GotoTyped DEF InFlight, Device, Frame
  <2>2. CASE Answer(FALSE, "stopped")
    BY <1>1, <1>2, <1>3, <2>2, AnswerTyped DEF Device, Frame
  <2>3. QED
    BY <1>3, <2>1, <2>2
<1>4. CASE Goto("ci") /\ port' = [port EXCEPT ![Device].st = TRUE]
  <2>1. /\ call'.pc = "ci" /\ call'.cmd = call.cmd /\ call'.slot = call.slot
        /\ call'.ok = call.ok /\ call'.why = call.why /\ call'.disturbed = call.disturbed
        /\ call'.idx = call.idx /\ call' \in CallStates
    BY <1>2, <1>4 DEF Goto, CallStates, InFlight
  <2>2. port \in [All -> PortStates] /\ port[Device] \in PortStates
    BY <1>1 DEF TypeInv
  <2>3. /\ port'[Device] = [port[Device] EXCEPT !.st = TRUE]
        /\ port' = [port EXCEPT ![Device] = port'[Device]]
    BY <1>1, <1>4, <2>2
  <2>4. /\ port'[Device] \in PortStates /\ port'[Device].ci = port[Device].ci
        /\ port'[Device].cur = port[Device].cur /\ port'[Device].st
    BY <2>2, <2>3 DEF PortStates
  <2>5. /\ port'[Device].ci \subseteq 0 .. Hba(Device).ncs
        /\ port'[Device].cur \in port'[Device].ci \union {-1}
    BY <1>1, <2>4 DEF TypeInv
  <2>6. TypeInv'
    BY <1>1, <1>2, <2>1, <2>3, <2>4, <2>5, PortStepTyped DEF Frame
  <2>7. \A d \in All : port'[d].ci = port[d].ci /\ port'[d].cur = port[d].cur
                       /\ (port[d].st => port'[d].st)
    BY <2>2, <2>3, <2>4, ZenonT(60)
  <2>8. Device' = Device
    BY <1>1, <2>1 DEF Device, Frame
  <2>9. QED
    BY <1>1, <2>1, <2>3, <2>6, <2>7, <2>8
<1>5. QED
  BY <1>3, <1>4 DEF StartPort

\* The waits and the looks at the port: nothing but the call changes.
LEMMA LookFacts ==
  ASSUME TypeInv, WaitBusy \/ WaitBusyEnd \/ LookCi \/ LookTfes \/ LookLast
  PROVE  /\ TypeInv' /\ Frame /\ UNCHANGED port /\ call.pc # "none" /\ Device' = Device
         /\ call'.cmd = call.cmd /\ call'.slot = call.slot /\ call'.idx = call.idx
         /\ call'.disturbed = call.disturbed
         /\ \/ call.pc \in Waiting /\ call'.pc \in Waiting /\ call'.why = call.why
            \/ /\ call.pc \in {"ci", "tfes"} /\ call'.pc \in {"ci", "tfes"}
               /\ call'.why = call.why
            \/ /\ call.pc = "ci" /\ call'.pc = "last"
               /\ call'.why = "spinnout" \/ (call'.why = call.why /\ Cleared)
            \/ call.pc = "last" /\ call'.pc = "return" /\ call'.why = call.why
            \/ call'.pc = "return" /\ ~call'.ok
<1>1. call \in CallStates /\ Frame /\ UNCHANGED port /\ call.pc \in Waiting \union InFlight
  BY DEF WaitBusy, WaitBusyEnd, LookCi, LookTfes, LookLast, TypeInv, Waiting, InFlight
<1>2. call.pc # "none"
  BY <1>1 DEF Waiting, InFlight
<1>3. call'.idx = call.idx => Device' = Device
  BY <1>1 DEF Device, Frame
<1>4. CASE WaitBusy
  <2>1. call' = [call EXCEPT !.spin = @ + 1] /\ call.pc = "busy"
    BY <1>4 DEF WaitBusy
  <2>2. /\ call' \in CallStates /\ call'.pc = "busy" /\ call'.cmd = call.cmd
        /\ call'.slot = call.slot /\ call'.idx = call.idx /\ call'.why = call.why
        /\ call'.disturbed = call.disturbed
    BY <1>1, <2>1 DEF CallStates
  <2>3. QED
    BY <1>1, <1>2, <1>3, <2>1, <2>2, CallStepTyped DEF Waiting
<1>5. CASE WaitBusyEnd
  <2>1. call.pc = "busy" /\ (Answer(FALSE, "busy") \/ Goto("issue"))
    BY <1>5 DEF WaitBusyEnd
  <2>2. QED
    BY <1>1, <1>2, <1>3, <2>1, AnswerTyped, GotoTyped DEF Waiting
<1>6. CASE LookCi
  <2>1. CASE GivenUp
    <3>1. call' = [call EXCEPT !.pc = "last", !.why = "spinnout"] /\ call.pc = "ci"
      BY <1>6, <2>1 DEF LookCi
    <3>2. /\ call' \in CallStates /\ call'.pc = "last" /\ call'.cmd = call.cmd
          /\ call'.slot = call.slot /\ call'.idx = call.idx /\ call'.why = "spinnout"
          /\ call'.disturbed = call.disturbed
      BY <1>1, <3>1 DEF CallStates, InFlight
    <3>3. QED
      BY <1>1, <1>2, <1>3, <3>1, <3>2, CallStepTyped DEF InFlight
  <2>2. CASE ~GivenUp
    <3> DEFINE spin == IF call.spin < SpinMax THEN call.spin + 1 ELSE call.spin
               pc == IF Cleared THEN "last" ELSE "tfes"
    <3>1. call' = [call EXCEPT !.pc = pc, !.spin = spin] /\ call.pc = "ci"
      BY <1>6, <2>2 DEF LookCi
    <3>2. spin \in Nat /\ pc \in InFlight
      BY <1>1 DEF CallStates, InFlight
    <3>3. pc = "tfes" \/ (pc = "last" /\ Cleared)
      OBVIOUS
    <3> HIDE DEF spin, pc
    <3>4. /\ call' \in CallStates /\ call'.pc = pc /\ call'.cmd = call.cmd
          /\ call'.slot = call.slot /\ call'.idx = call.idx /\ call'.why = call.why
          /\ call'.disturbed = call.disturbed
      BY <1>1, <3>1, <3>2 DEF CallStates
    <3>5. TypeInv'
      BY <1>1, <1>2, <3>2, <3>4, CallStepTyped
    <3>6. QED
      BY <1>1, <1>2, <1>3, <3>1, <3>3, <3>4, <3>5
  <2>3. QED
    BY <2>1, <2>2
<1>7. CASE LookTfes
  <2>1. call.pc = "tfes" /\ (Answer(FALSE, "tfes") \/ Goto("ci"))
    BY <1>7 DEF LookTfes
  <2>2. QED
    BY <1>1, <1>2, <1>3, <2>1, AnswerTyped, GotoTyped DEF InFlight
<1>8. CASE LookLast
  <2>1. call.pc = "last" /\ (Answer(FALSE, "tfes") \/ Answer(TRUE, call.why))
    BY <1>8 DEF LookLast
  <2>2. call.why \in {"none", "busy", "lost", "stopped", "spinnout", "tfes", "slots"}
    BY <1>1 DEF CallStates
  <2>3. QED
    BY <1>1, <1>2, <1>3, <2>1, <2>2, AnswerTyped
<1>9. QED
  BY <1>4, <1>5, <1>6, <1>7, <1>8

LEMMA ReturnTyped ==
  ASSUME TypeInv, Return
  PROVE  TypeInv' /\ call'.pc = "none"
<1>1. call' = NoCall /\ Frame /\ UNCHANGED port
  BY DEF Return
<1>2. call' \in CallStates /\ call'.pc = "none"
  BY <1>1 DEF NoCall, CallStates
<1>3. QED
  BY <1>1, <1>2, CallStepTyped DEF Waiting, InFlight

\* An HBA picks one of the commands it has been given, or ends the one it works
\* on, done or failed.
LEMMA HbaFacts ==
  ASSUME TypeInv, NEW d \in All, HbaFetch(d) \/ HbaComplete(d) \/ HbaError(d)
  PROVE  /\ TypeInv' /\ UNCHANGED <<machine, at, dev, table>>
         /\ DOMAIN port' = DOMAIN port
         /\ \A e \in All : /\ port'[e].ci = IF HbaComplete(d) /\ e = d
                                            THEN port[d].ci \ {port[d].cur}
                                            ELSE port[e].ci
                           /\ port'[e].st = port[e].st
         /\ call'.pc = call.pc /\ call'.cmd = call.cmd /\ call'.idx = call.idx
         /\ call'.slot = call.slot /\ call'.ok = call.ok /\ call'.why = call.why
<1>1. port \in [All -> PortStates] /\ port[d] \in PortStates /\ call \in CallStates
      /\ port[d].ci \subseteq 0 .. Hba(d).ncs
  BY DEF TypeInv
<1>2. UNCHANGED <<machine, at, dev, table>>
  BY DEF HbaFetch, HbaComplete, HbaError, HbaFrame
<1>3. Hba(d).ncs \in Nat
  BY MachineFacts DEF TypeInv
<1>4. CASE HbaFetch(d)
  <2>1. PICK s \in port[d].ci : port' = [port EXCEPT ![d].cur = s]
    BY <1>4 DEF HbaFetch
  <2>2. s \in Int /\ UNCHANGED call /\ ~HbaComplete(d)
    BY <1>1, <1>3, <1>4, <2>1 DEF HbaFetch, HbaComplete, Busy
  <2>3. port'[d] = [port[d] EXCEPT !.cur = s] /\ port' = [port EXCEPT ![d] = port'[d]]
    BY <1>1, <2>1
  <2>4. /\ port'[d] \in PortStates /\ port'[d].ci = port[d].ci /\ port'[d].cur = s
        /\ port'[d].st = port[d].st
    BY <1>1, <2>2, <2>3 DEF PortStates
  <2>5. TypeInv'
    BY <1>1, <1>2, <2>1, <2>2, <2>3, <2>4, PortStepTyped
  <2>6. \A e \in All : port'[e].ci = port[e].ci /\ port'[e].st = port[e].st
    BY <1>1, <2>3, <2>4
  <2>7. QED
    BY <1>2, <2>2, <2>3, <2>5, <2>6
<1>5. CASE HbaComplete(d)
  <2> DEFINE ci == port[d].ci \ {port[d].cur}
  <2>1. port' = [port EXCEPT ![d].ci = ci, ![d].cur = -1]
    BY <1>5 DEF HbaComplete
  <2>2. ci \in SUBSET Nat /\ ci \subseteq 0 .. Hba(d).ncs
    BY <1>1, <1>3
  <2>3. call' = [call EXCEPT !.disturbed = TRUE] \/ call' = call
    BY <1>5 DEF HbaComplete
  <2>4. /\ call' \in CallStates /\ call'.pc = call.pc /\ call'.cmd = call.cmd
        /\ call'.idx = call.idx /\ call'.slot = call.slot /\ call'.ok = call.ok
        /\ call'.why = call.why
    BY <1>1, <2>3, ZenonT(60) DEF CallStates
  <2> HIDE DEF ci
  <2>5. /\ port'[d] = [port[d] EXCEPT !.ci = ci, !.cur = -1]
        /\ port' = [port EXCEPT ![d] = port'[d]]
    BY <1>1, <2>1
  <2>6. /\ port'[d] \in PortStates /\ port'[d].ci = ci /\ port'[d].cur = -1
        /\ port'[d].st = port[d].st
    <3> DEFINE idle == -1
    <3>1. idle \in Int
      OBVIOUS
    <3>2. port'[d] = [port[d] EXCEPT !.ci = ci, !.cur = idle]
      BY <2>5
    <3> HIDE DEF idle
    <3>3. /\ port'[d] \in PortStates /\ port'[d].ci = ci /\ port'[d].cur = idle
          /\ port'[d].st = port[d].st
      BY <1>1, <2>2, <3>1, <3>2 DEF PortStates
    <3>4. QED
      BY <3>3 DEF idle
  <2>7. TypeInv'
    BY <1>1, <1>2, <2>2, <2>4, <2>5, <2>6, PortStepTyped
  <2>8. \A e \in All : /\ port'[e].ci = IF e = d THEN ci ELSE port[e].ci
                       /\ port'[e].st = port[e].st
    BY <1>1, <2>5, <2>6
  <2>9. QED
    BY <1>2, <1>5, <2>4, <2>5, <2>7, <2>8 DEF ci
<1>6. CASE HbaError(d) /\ ~HbaComplete(d)
  <2>1. port' = [port EXCEPT ![d].tfes = TRUE, ![d].cur = -1] /\ UNCHANGED call
    BY <1>6 DEF HbaError
  <2>2. /\ port'[d] = [port[d] EXCEPT !.tfes = TRUE, !.cur = -1]
        /\ port' = [port EXCEPT ![d] = port'[d]]
    BY <1>1, <2>1
  <2>3. /\ port'[d] \in PortStates /\ port'[d].ci = port[d].ci /\ port'[d].cur = -1
        /\ port'[d].st = port[d].st
    <3> DEFINE idle == -1
    <3>1. idle \in Int
      OBVIOUS
    <3>2. port'[d] = [port[d] EXCEPT !.tfes = TRUE, !.cur = idle]
      BY <2>2
    <3> HIDE DEF idle
    <3>3. /\ port'[d] \in PortStates /\ port'[d].ci = port[d].ci /\ port'[d].cur = idle
          /\ port'[d].st = port[d].st
      BY <1>1, <3>1, <3>2 DEF PortStates
    <3>4. QED
      BY <3>3 DEF idle
  <2>4. TypeInv'
    BY <1>1, <1>2, <2>1, <2>2, <2>3, PortStepTyped
  <2>5. \A e \in All : port'[e].ci = port[e].ci /\ port'[e].st = port[e].st
    BY <1>1, <2>2, <2>3
  <2>6. QED
    BY <1>2, <1>6, <2>1, <2>2, <2>4, <2>5
<1>7. QED
  BY <1>4, <1>5, <1>6

LEMMA StepTyped ==
  ASSUME TypeInv, [Next]_vars
  PROVE  TypeInv'
<1>1. CASE Driver
  BY <1>1, InitPortTyped, LookFacts, IssueTyped, StartPortFacts, ReturnTyped DEF Driver
<1>2. CASE Call
  BY <1>2, CallTyped
<1>3. CASE HbaStep
  BY <1>3, HbaFacts DEF HbaStep, TypeInv
<1>4. CASE UNCHANGED vars
  <2>1. UNCHANGED <<machine, at, dev, port, table, call>> /\ All' = All
    BY <1>4 DEF vars, All
  <2>2. Device' = Device /\ \A d \in All : Hba(d)' = Hba(d)
    BY <2>1 DEF Device, Hba
  <2>3. Hba(Device)' = Hba(Device)
    BY <2>1 DEF Device, Hba
  <2>4. QED
    BY <2>1, <2>2, <2>3 DEF TypeInv
<1>5. QED
  BY <1>1, <1>2, <1>3, <1>4 DEF Next

LEMMA TypesInductive ==
  Spec => []TypeInv
<1>1. Init => TypeInv
  BY InitTyped
<1>2. TypeInv /\ [Next]_vars => TypeInv'
  BY StepTyped
<1>3. QED
  BY <1>1, <1>2, PTL DEF Spec

-----------------------------------------------------------------------------
(* Tables *)

\* Theorem.  Until an HBA has cleared the bit of a command, no call writes the
\* command's table: a slot is given out only when its bit is clear.
THEOREM TablesStayStable ==
  Spec => TablesStable
<1> DEFINE Stable == \A d \in DOMAIN port : \A s \in port[d].ci \intersect port'[d].ci :
                       table'[d][s] = table[d][s]
<1>1. ASSUME TypeInv, Next
      PROVE  Stable \/ UNCHANGED vars
  <2>1. CASE UNCHANGED table
    BY <2>1
  <2>2. CASE Call
    <3>1. PICK i \in 1 .. Len(dev), cmd \in Commands :
            /\ dev[i] \in All
            /\ UNCHANGED table
               \/ /\ call'.slot \in 0 .. Hba(dev[i]).ncs
                  /\ call'.slot \notin port[dev[i]].ci
                  /\ table' = [table EXCEPT ![dev[i]][call'.slot] = cmd]
      BY <1>1, <2>2, CallFacts, ZenonT(60)
    <3>2. CASE /\ call'.slot \in 0 .. Hba(dev[i]).ncs
               /\ call'.slot \notin port[dev[i]].ci
               /\ table' = [table EXCEPT ![dev[i]][call'.slot] = cmd]
      <4>1. ASSUME NEW d \in DOMAIN port, NEW s \in port[d].ci
            PROVE  table'[d][s] = table[d][s]
        <5>1. /\ d \in All /\ s \in 0 .. Hba(d).ncs
              /\ table[d] \in [0 .. Hba(d).ncs -> Commands \union {NoCommand}]
          BY <1>1, <4>1 DEF TypeInv
        <5>2. table'[d] = IF d = dev[i] THEN [table[d] EXCEPT ![call'.slot] = cmd]
                          ELSE table[d]
          <6>1. d \in DOMAIN table
            BY <1>1, <5>1 DEF TypeInv
          <6>2. QED
            BY <3>2, <6>1
        <5>3. d = dev[i] => s # call'.slot
          BY <3>2, <4>1, SMTT(60)
        <5>4. QED
          BY <5>1, <5>2, <5>3
      <4>2. QED
        BY <4>1
    <3>3. QED
      BY <2>1, <3>1, <3>2
  <2>3. CASE Driver \/ HbaStep
    BY <2>1, <2>3 DEF Driver, InitPort, WaitBusy, WaitBusyEnd, Issue, StartPort, LookCi,
         LookTfes, LookLast, Return, Frame, HbaStep, HbaFetch, HbaComplete, HbaError,
         HbaFrame
  <2>4. QED
    BY <1>1, <2>2, <2>3 DEF Next
<1>2. TypeInv /\ [Next]_vars => [Stable]_vars
  BY <1>1
<1>3. QED
  BY <1>2, TypesInductive, PTL DEF Spec, TablesStable

-----------------------------------------------------------------------------
(* The list of devices *)

\* The order in which ahci_init looks at the ports.
Before(d, e) == d[1] < e[1] \/ (d[1] = e[1] /\ d[2] < e[2])
Seen(d)      == at = <<0, 0>> \/ Before(d, at)

ListInv ==
  /\ \A d \in All :
       (\E i \in DOMAIN dev : dev[i] = d) <=> Seen(d) /\ Port(d).impl /\ Port(d).det
  /\ \A i, j \in DOMAIN dev : i < j => Before(dev[i], dev[j])

\* From one port to the next one.
LEMMA NextPlace ==
  ASSUME TypeInv, InitPort
  PROVE  /\ at \in All /\ at # <<0, 0>>
         /\ \A d \in All : Seen(d)' <=> Seen(d) \/ d = at
         /\ dev' = IF Port(at).impl /\ Port(at).det THEN Append(dev, at) ELSE dev
<1>1. at \in All /\ at # <<0, 0>> /\ machine \in Seq(HbaTypes)
  BY MachineFacts DEF InitPort, TypeInv
<1>2. PICK h \in DOMAIN machine, p \in 0 .. PortMax : at = <<h, p>>
  BY <1>1 DEF All, Places
<1>3. h \in Nat /\ h >= 1 /\ h <= Len(machine) /\ p \in Nat /\ p <= PortMax
      /\ Len(machine) \in Nat /\ DOMAIN machine = 1 .. Len(machine)
  BY <1>1 DEF PortMax
<1>4. at' = IF p < PortMax THEN <<h, p + 1>>
            ELSE IF h < Len(machine) THEN <<h + 1, 0>> ELSE <<0, 0>>
  BY <1>2 DEF InitPort
<1>5. ASSUME NEW d \in All
      PROVE  Seen(d)' <=> Seen(d) \/ d = at
  <2>1. PICK k \in DOMAIN machine, q \in 0 .. PortMax : d = <<k, q>>
    BY DEF All, Places
  <2>2. k \in Nat /\ k >= 1 /\ k <= Len(machine) /\ q \in Nat /\ q <= PortMax
    BY <1>3, <2>1 DEF PortMax
  <2>3. Seen(d) <=> k < h \/ (k = h /\ q < p)
    BY <1>1, <1>2, <2>1 DEF Seen, Before
  <2>4. d = at <=> k = h /\ q = p
    BY <1>2, <2>1
  <2>5. CASE p < PortMax
    <3>1. at' = <<h, p + 1>> /\ at' # <<0, 0>>
      BY <1>3, <1>4, <2>5
    <3>2. Seen(d)' <=> k < h \/ (k = h /\ q < p + 1)
      BY <2>1, <3>1 DEF Seen, Before
    <3>3. QED
      BY <1>3, <2>2, <2>3, <2>4, <3>2
  <2>6. CASE p >= PortMax /\ h < Len(machine)
    <3>1. at' = <<h + 1, 0>> /\ at' # <<0, 0>> /\ p = PortMax
      BY <1>3, <1>4, <2>6 DEF PortMax
    <3>2. Seen(d)' <=> k < h + 1 \/ (k = h + 1 /\ q < 0)
      BY <2>1, <3>1 DEF Seen, Before
    <3>3. QED
      BY <1>3, <2>2, <2>3, <2>4, <3>1, <3>2 DEF PortMax
  <2>7. CASE p >= PortMax /\ h >= Len(machine)
    <3>1. at' = <<0, 0>> /\ p = PortMax /\ h = Len(machine)
      BY <1>3, <1>4, <2>7 DEF PortMax
    <3>2. Seen(d)'
      BY <3>1 DEF Seen
    <3>3. QED
      BY <1>3, <2>2, <2>3, <2>4, <3>1, <3>2 DEF PortMax
  <2>8. QED
    BY <1>3, <2>5, <2>6, <2>7 DEF PortMax
<1>6. dev' = IF Port(at).impl /\ Port(at).det THEN Append(dev, at) ELSE dev
  BY <1>2 DEF InitPort, Looked, Port, Hba
<1>7. QED
  BY <1>1, <1>5, <1>6

LEMMA InitPortLists ==
  ASSUME TypeInv, ListInv, InitPort
  PROVE  ListInv'
<1>1. /\ at \in All /\ at # <<0, 0>>
      /\ \A d \in All : Seen(d)' <=> Seen(d) \/ d = at
      /\ dev' = IF Port(at).impl /\ Port(at).det THEN Append(dev, at) ELSE dev
  BY NextPlace
<1>2. All' = All /\ \A d \in All : Port(d)' = Port(d)
  BY DEF InitPort, All, Port, Hba
<1>3. dev \in Seq(All) /\ DOMAIN dev = 1 .. Len(dev) /\ Len(dev) \in Nat
  BY DEF TypeInv
<1>4. ~Seen(at)
  <2>1. PICK h \in DOMAIN machine, p \in 0 .. PortMax : at = <<h, p>>
    BY <1>1 DEF All, Places
  <2>2. machine \in Seq(HbaTypes) /\ h \in Nat /\ p \in Nat
    BY <2>1, MachineFacts DEF TypeInv, PortMax
  <2>3. QED
    BY <1>1, <2>1, <2>2 DEF Seen, Before
<1>5. CASE Port(at).impl /\ Port(at).det
  <2>1. dev' = Append(dev, at)
    BY <1>1, <1>5
  <2>2. /\ DOMAIN dev' = 1 .. Len(dev) + 1
        /\ \A i \in 1 .. Len(dev) : dev'[i] = dev[i]
        /\ dev'[Len(dev) + 1] = at
    BY <1>1, <1>3, <2>1
  <2>3. ASSUME NEW d \in All
        PROVE  (\E i \in DOMAIN dev' : dev'[i] = d)
                 <=> Seen(d)' /\ Port(d).impl /\ Port(d).det
    <3>1. (\E i \in DOMAIN dev' : dev'[i] = d)
            <=> (\E i \in DOMAIN dev : dev[i] = d) \/ d = at
      BY <1>3, <2>2
    <3>2. QED
      BY <1>1, <1>5, <3>1 DEF ListInv
  <2>4. ASSUME NEW i \in DOMAIN dev', NEW j \in DOMAIN dev', i < j
        PROVE  Before(dev'[i], dev'[j])
    <3>1. i \in 1 .. Len(dev)
      BY <1>3, <2>2, <2>4
    <3>2. CASE j \in 1 .. Len(dev)
      BY <1>3, <2>2, <2>4, <3>1, <3>2 DEF ListInv
    <3>3. CASE j = Len(dev) + 1
      <4>1. dev[i] \in All /\ i \in DOMAIN dev
        BY <1>3, <3>1
      <4>2. Seen(dev[i])
        BY <4>1 DEF ListInv
      <4>3. QED
        BY <1>1, <2>2, <3>1, <3>3, <4>2 DEF Seen
    <3>4. QED
      BY <1>3, <2>2, <3>2, <3>3
  <2>5. QED
    BY <1>2, <2>3, <2>4 DEF ListInv
<1>6. CASE ~(Port(at).impl /\ Port(at).det)
  <2>1. dev' = dev
    BY <1>1, <1>6
  <2>2. ASSUME NEW d \in All
        PROVE  (\E i \in DOMAIN dev' : dev'[i] = d)
                 <=> Seen(d)' /\ Port(d).impl /\ Port(d).det
    BY <1>1, <1>6, <2>1 DEF ListInv
  <2>3. QED
    BY <1>2, <2>1, <2>2 DEF ListInv
<1>7. QED
  BY <1>5, <1>6

LEMMA ListsInductive ==
  Spec => []ListInv
<1>1. ASSUME Init PROVE ListInv
  <2>1. dev = <<>> /\ at = <<1, 0>> /\ machine \in Seq(HbaTypes)
    BY <1>1, MachineFacts DEF Init
  <2>2. ASSUME NEW d \in All
        PROVE  ~Seen(d)
    <3>1. PICK h \in DOMAIN machine, p \in 0 .. PortMax : d = <<h, p>>
      BY DEF All, Places
    <3>2. h \in Nat /\ h >= 1 /\ p \in Nat
      BY <2>1, <3>1 DEF PortMax
    <3>3. QED
      BY <2>1, <3>1, <3>2 DEF Seen, Before
  <2>3. DOMAIN dev = {}
    BY <2>1
  <2>4. QED
    BY <2>2, <2>3 DEF ListInv
<1>2. ASSUME TypeInv, ListInv, [Next]_vars PROVE ListInv'
  <2>1. CASE InitPort
    BY <1>2, <2>1, InitPortLists
  <2>2. CASE ~InitPort
    <3>1. UNCHANGED <<machine, at, dev>>
      BY <1>2, <2>2 DEF Next, Driver, Call, WaitBusy, WaitBusyEnd, Issue, StartPort,
           LookCi, LookTfes, LookLast, Return, Frame, HbaStep, HbaFetch, HbaComplete,
           HbaError, HbaFrame, vars
    <3>2. All' = All /\ \A d \in All : Port(d)' = Port(d) /\ Seen(d)' = Seen(d)
      BY <3>1 DEF All, Port, Hba, Seen, Before
    <3>3. QED
      BY <1>2, <3>1, <3>2, SMTT(60) DEF ListInv
  <2>3. QED
    BY <2>1, <2>2
<1>3. QED
  BY <1>1, <1>2, TypesInductive, PTL DEF Spec

\* Theorem.  ahci_init lists every implemented port with an active device, once
\* and in order, and nothing else.
THEOREM ListIsExact ==
  Spec => []DevicesExact
<1>1. ASSUME TypeInv, ListInv
      PROVE  DevicesExact
  <2>1. SUFFICES ASSUME at = <<0, 0>>
                 PROVE  /\ {dev[i] : i \in DOMAIN dev} =
                             {d \in DOMAIN port : Port(d).impl /\ Port(d).det}
                        /\ \A i, j \in DOMAIN dev : i < j => Before(dev[i], dev[j])
    BY DEF DevicesExact, Before
  <2>2. DOMAIN port = All /\ \A i \in DOMAIN dev : dev[i] \in All
    BY <1>1 DEF TypeInv
  <2>3. \A d \in All : Seen(d)
    BY <2>1 DEF Seen
  <2>4. QED
    BY <1>1, <2>2, <2>3 DEF ListInv
<1>2. QED
  BY <1>1, TypesInductive, ListsInductive, PTL

-----------------------------------------------------------------------------
(* What TRUE means *)

\* What the call asked for is in its buffer, or its buffer has been written for
\* another command since.
Delivered ==
  \/ mem[call.cmd.buf] = <<call.cmd.op, call.cmd.lba, Transferred(call.cmd)>>
  \/ call.disturbed

\* The command of a call that waits is still to be issued; one that has been issued
\* is with the HBA, as it was written, or done.  Of a call that has given up
\* nothing is known.
ReadInv ==
  /\ \A d \in All : \A s \in port[d].ci : table[d][s] \in Commands
  /\ \A d \in All : Port(d).st => port[d].st
  /\ DOMAIN mem = Buffers
  /\ call.pc \in Waiting =>
       /\ call.why = "none"
       /\ call.slot \notin port[Device].ci
       /\ table[Device][call.slot] = call.cmd
  /\ call.pc \in InFlight \/ (call.pc = "return" /\ call.ok) =>
       \/ call.why = "lost" /\ ~Port(Device).st /\ ~Hba(Device).latches
       \/ call.why = "spinnout"
       \/ /\ call.why = "none"
          /\ call.slot \in port[Device].ci => table[Device][call.slot] = call.cmd
          /\ call.slot \notin port[Device].ci => Delivered
  /\ call.pc = "last" \/ (call.pc = "return" /\ call.ok) =>
       (call.why = "none" => call.slot \notin port[Device].ci)

LEMMA LookReads ==
  ASSUME TypeInv, ReadInv, WaitBusy \/ WaitBusyEnd \/ LookCi \/ LookTfes \/ LookLast
  PROVE  ReadInv'
<1>1. /\ Frame /\ UNCHANGED port /\ call.pc # "none" /\ Device' = Device
      /\ call'.cmd = call.cmd /\ call'.slot = call.slot
      /\ call'.disturbed = call.disturbed
      /\ \/ call.pc \in Waiting /\ call'.pc \in Waiting /\ call'.why = call.why
         \/ /\ call.pc \in {"ci", "tfes"} /\ call'.pc \in {"ci", "tfes"}
            /\ call'.why = call.why
         \/ /\ call.pc = "ci" /\ call'.pc = "last"
            /\ call'.why = "spinnout" \/ (call'.why = call.why /\ Cleared)
         \/ call.pc = "last" /\ call'.pc = "return" /\ call'.why = call.why
         \/ call'.pc = "return" /\ ~call'.ok
  BY LookFacts
<1>2. UNCHANGED <<machine, table, mem>> /\ All' = All
  BY <1>1 DEF Frame, All
<1>3. /\ \A d \in All : Port(d)' = Port(d)
      /\ Port(Device)' = Port(Device) /\ Hba(Device)' = Hba(Device)
  BY <1>1, <1>2 DEF Port, Hba
<1>4. Delivered' = Delivered
  BY <1>1, <1>2 DEF Delivered, Transferred
<1>5. Cleared => call.slot \notin port[Device].ci
  BY DEF Cleared
<1>6. QED
  BY <1>1, <1>2, <1>3, <1>4, <1>5 DEF ReadInv, Waiting, InFlight

LEMMA StartReads ==
  ASSUME TypeInv, ReadInv, StartPort
  PROVE  ReadInv'
<1>1. /\ Frame /\ call.pc = "start" /\ Device \in All /\ Device' = Device
      /\ call'.cmd = call.cmd /\ call'.slot = call.slot /\ call'.disturbed = call.disturbed
      /\ \/ call'.pc = "ci" /\ call'.why = call.why
         \/ call'.pc = "return" /\ ~call'.ok
      /\ \A d \in All : port'[d].ci = port[d].ci /\ (port[d].st => port'[d].st)
  BY StartPortFacts
<1>2. UNCHANGED <<machine, table, mem>> /\ All' = All
  BY <1>1 DEF Frame, All
<1>3. /\ \A d \in All : Port(d)' = Port(d)
      /\ Port(Device)' = Port(Device) /\ Hba(Device)' = Hba(Device)
  BY <1>1, <1>2 DEF Port, Hba
<1>4. Delivered' = Delivered
  BY <1>1, <1>2 DEF Delivered, Transferred
<1>5. port'[Device].ci = port[Device].ci
  BY <1>1
<1>6. QED
  BY <1>1, <1>2, <1>3, <1>4, <1>5 DEF ReadInv, Waiting, InFlight

LEMMA IssueReads ==
  ASSUME TypeInv, ReadInv, Issue
  PROVE  ReadInv'
<1>1. /\ call.pc = "issue" /\ Device \in All /\ Device' = Device /\ Frame
      /\ call'.pc = "start" /\ call'.cmd = call.cmd /\ call'.slot = call.slot
      /\ call'.disturbed = call.disturbed
      /\ \/ /\ port' = [port EXCEPT ![Device].ci = @ \union {call.slot}]
            /\ call'.why = call.why
         \/ /\ ~port[Device].st /\ ~Hba(Device).latches
            /\ UNCHANGED port
            /\ call'.why = "lost"
  BY IssueFacts
<1>2. UNCHANGED <<machine, table, mem>> /\ All' = All
  BY <1>1 DEF Frame, All
<1>3. /\ \A d \in All : Port(d)' = Port(d)
      /\ Port(Device)' = Port(Device) /\ Hba(Device)' = Hba(Device)
  BY <1>1, <1>2 DEF Port, Hba
<1>4. /\ call.why = "none" /\ table[Device][call.slot] = call.cmd
      /\ call.cmd \in Commands
  BY <1>1 DEF ReadInv, TypeInv, Waiting
<1>5. CASE UNCHANGED port /\ call'.why = "lost" /\ ~port[Device].st
           /\ ~Hba(Device).latches
  BY <1>1, <1>2, <1>3, <1>5 DEF ReadInv, Waiting, InFlight
<1>6. CASE /\ port' = [port EXCEPT ![Device].ci = @ \union {call.slot}]
           /\ call'.why = call.why
  <2>1. port \in [All -> PortStates] /\ port[Device] \in PortStates
    BY <1>1 DEF TypeInv
  <2>2. \A d \in All : /\ port'[d].ci = IF d = Device THEN port[d].ci \union {call.slot}
                                        ELSE port[d].ci
                       /\ port'[d].st = port[d].st
    <3>1. port'[Device] = [port[Device] EXCEPT !.ci = @ \union {call.slot}]
      BY <1>1, <1>6, <2>1
    <3>2. port'[Device].ci = port[Device].ci \union {call.slot}
          /\ port'[Device].st = port[Device].st
      BY <2>1, <3>1 DEF PortStates
    <3>3. \A d \in All : d # Device => port'[d] = port[d]
      BY <1>6, <2>1
    <3>4. QED
      BY <3>2, <3>3
  <2>3. \A d \in All : \A s \in port'[d].ci : table[d][s] \in Commands
    BY <1>4, <2>2, ZenonT(60) DEF ReadInv
  <2>4. call.slot \in port'[Device].ci
    BY <1>1, <2>2
  <2>5. QED
    BY <1>1, <1>2, <1>3, <1>4, <1>6, <2>2, <2>3, <2>4 DEF ReadInv, Waiting, InFlight
<1>7. QED
  BY <1>1, <1>5, <1>6

LEMMA CallReads ==
  ASSUME TypeInv, ReadInv, Call
  PROVE  ReadInv'
<1>1. /\ UNCHANGED <<machine, dev, port, mem>> /\ All' = All
      /\ \A d \in All : Port(d)' = Port(d)
  BY CallFacts DEF All, Port, Hba
<1>2. PICK i \in 1 .. Len(dev), cmd \in Commands :
        /\ dev[i] \in All
        /\ call'.idx = i /\ call'.cmd = cmd
        /\ ~call'.ok
        /\ \/ call'.pc = "return" /\ UNCHANGED table
           \/ /\ call'.pc \in Waiting
              /\ call'.why = "none"
              /\ call'.slot \in 0 .. Hba(dev[i]).ncs
              /\ call'.slot \notin port[dev[i]].ci
              /\ table' = [table EXCEPT ![dev[i]][call'.slot] = cmd]
  BY CallFacts
<1>3. Device' = dev[i]
  BY <1>1, <1>2 DEF Device
<1>4. CASE call'.pc = "return" /\ UNCHANGED table
  BY <1>1, <1>2, <1>4 DEF ReadInv, Waiting, InFlight
<1>5. CASE /\ call'.pc \in Waiting /\ call'.why = "none"
           /\ call'.slot \in 0 .. Hba(dev[i]).ncs
           /\ call'.slot \notin port[dev[i]].ci
           /\ table' = [table EXCEPT ![dev[i]][call'.slot] = cmd]
  <2>1. ASSUME NEW d \in All
        PROVE  /\ table[d] \in [0 .. Hba(d).ncs -> Commands \union {NoCommand}]
               /\ table'[d] = IF d = dev[i] THEN [table[d] EXCEPT ![call'.slot] = cmd]
                              ELSE table[d]
               /\ port[d].ci \subseteq 0 .. Hba(d).ncs
    BY <1>5 DEF TypeInv
  <2>2. table'[dev[i]][call'.slot] = cmd
    <3>1. /\ table[dev[i]] \in [0 .. Hba(dev[i]).ncs -> Commands \union {NoCommand}]
          /\ table'[dev[i]] = [table[dev[i]] EXCEPT ![call'.slot] = cmd]
      BY <1>2, <2>1
    <3>2. call'.slot \in DOMAIN table[dev[i]]
      BY <1>5, <3>1
    <3>3. QED
      BY <3>1, <3>2
  <2>3. ASSUME NEW d \in All, NEW s \in port[d].ci
        PROVE  table'[d][s] \in Commands
    <3>1. table[d][s] \in Commands /\ s \in 0 .. Hba(d).ncs
      BY <2>1, <2>3 DEF ReadInv
    <3>2. QED
      BY <1>2, <2>1, <3>1
  <2>4. QED
    BY <1>1, <1>2, <1>3, <1>5, <2>2, <2>3 DEF ReadInv, Waiting, InFlight
<1>6. QED
  BY <1>2, <1>4, <1>5

LEMMA HbaReads ==
  ASSUME TypeInv, ReadInv, NEW d \in All, HbaFetch(d) \/ HbaComplete(d) \/ HbaError(d)
  PROVE  ReadInv'
<1>1. /\ UNCHANGED <<machine, dev, table>>
      /\ \A e \in All : /\ port'[e].ci = IF HbaComplete(d) /\ e = d
                                         THEN port[d].ci \ {port[d].cur}
                                         ELSE port[e].ci
                        /\ port'[e].st = port[e].st
      /\ call'.pc = call.pc /\ call'.cmd = call.cmd /\ call'.idx = call.idx
      /\ call'.slot = call.slot /\ call'.ok = call.ok /\ call'.why = call.why
  BY HbaFacts
<1>2. /\ All' = All /\ Device' = Device
      /\ \A e \in All : Port(e)' = Port(e)
      /\ Port(Device)' = Port(Device) /\ Hba(Device)' = Hba(Device)
  BY <1>1 DEF All, Device, Port, Hba
<1>3. call.pc # "none" => Device \in All
  BY DeviceFacts
<1>4. CASE ~HbaComplete(d)
  <2>1. UNCHANGED <<mem, call>> /\ \A e \in All : port'[e].ci = port[e].ci
    BY <1>1, <1>4 DEF HbaFetch, HbaError
  <2>2. Delivered' = Delivered
    BY <1>1, <2>1 DEF Delivered, Transferred
  <2>3. QED
    BY <1>1, <1>2, <1>3, <2>1, <2>2 DEF ReadInv, Waiting, InFlight
<1>5. CASE HbaComplete(d)
  <2> DEFINE cur == port[d].cur
             cmd == table[d][cur]
             mine == call.pc # "none" /\ d = Device /\ cur = call.slot
  <2>1. cur \in port[d].ci /\ cmd \in Commands /\ cmd.buf \in Buffers
    <3>1. cur \in port[d].ci
      BY <1>5 DEF HbaComplete, Busy, TypeInv
    <3>2. cmd \in Commands
      BY <3>1 DEF ReadInv
    <3>3. QED
      BY <3>1, <3>2, CommandFacts
  <2>2. /\ mem' = [mem EXCEPT ![cmd.buf] = <<cmd.op, cmd.lba, Transferred(cmd)>>]
        /\ call' = IF call.pc # "none" /\ ~mine /\ cmd.buf = call.cmd.buf
                   THEN [call EXCEPT !.disturbed = TRUE] ELSE call
    BY <1>5 DEF HbaComplete
  <2>3. DOMAIN mem' = Buffers
    BY <2>2 DEF ReadInv
  <2>4. \A e \in All : port'[e].ci \subseteq port[e].ci
                       /\ (e # d => port'[e].ci = port[e].ci)
    BY <1>1
  <2>5. call \in CallStates
    BY DEF TypeInv
  <2>6. ASSUME call.pc # "none", ~mine
        PROVE  (call.slot \in port'[Device].ci <=> call.slot \in port[Device].ci)
               /\ (Delivered => Delivered')
    <3>1. call.slot \in port'[Device].ci <=> call.slot \in port[Device].ci
      BY <1>1, <1>3, <2>6
    <3>2. CASE cmd.buf = call.cmd.buf
      <4>1. call' = [call EXCEPT !.disturbed = TRUE]
        BY <2>2, <2>6, <3>2
      <4>2. call'.disturbed = TRUE
        BY <2>5, <4>1 DEF CallStates
      <4>3. Delivered'
        BY <4>2 DEF Delivered
      <4>4. QED
        BY <3>1, <4>3
    <3>3. CASE cmd.buf # call.cmd.buf
      <4>1. call' = call /\ mem'[call.cmd.buf] = mem[call.cmd.buf]
        <5>1. call.cmd.buf \in Buffers
          BY <2>6, CommandFacts DEF TypeInv
        <5>2. QED
          BY <2>2, <3>3, <5>1 DEF ReadInv
      <4>2. QED
        BY <3>1, <4>1 DEF Delivered, Transferred
    <3>4. QED
      BY <3>2, <3>3
  <2>7. ASSUME mine
        PROVE  /\ d = Device /\ call.slot \in port[Device].ci
               /\ call.slot \notin port'[Device].ci
               /\ cmd = call.cmd => Delivered'
    <3>1. d = Device /\ cur = call.slot /\ call' = call
      BY <2>2, <2>7
    <3>2. call.slot \notin port'[d].ci
      BY <1>1, <1>5, <3>1
    <3>3. ASSUME cmd = call.cmd
          PROVE  Delivered'
      <4>1. mem'[call.cmd.buf] = <<call.cmd.op, call.cmd.lba, Transferred(call.cmd)>>
        <5>1. mem' = [mem EXCEPT ![call.cmd.buf] =
                        <<call.cmd.op, call.cmd.lba, Transferred(call.cmd)>>]
          BY <2>2, <3>3
        <5>2. call.cmd.buf \in DOMAIN mem
          BY <2>1, <3>3 DEF ReadInv
        <5>3. QED
          BY <5>1, <5>2
      <4>2. QED
        BY <3>1, <4>1 DEF Delivered, Transferred
    <3>4. QED
      BY <2>1, <3>1, <3>2, <3>3
  <2>8. ASSUME call.pc = "none"
        PROVE  ReadInv'
    BY <1>1, <1>2, <2>3, <2>4, <2>8 DEF ReadInv, Waiting, InFlight
  <2>9. ASSUME call.pc # "none"
        PROVE  ReadInv'
    <3> HIDE DEF cmd, mine, cur
    <3>1. CASE mine
      <4>1. d = Device /\ call.slot \in port[Device].ci
        BY <2>7, <3>1
      <4>2. cmd = table[Device][call.slot]
        BY <3>1, <4>1 DEF cmd, cur, mine
      <4>3. QED
        BY <1>1, <1>2, <2>3, <2>4, <2>7, <3>1, <4>1, <4>2 DEF ReadInv, Waiting, InFlight
    <3>2. CASE ~mine
      BY <1>1, <1>2, <2>3, <2>4, <2>6, <2>9, <3>2 DEF ReadInv, Waiting, InFlight
    <3>3. QED
      BY <3>1, <3>2
  <2>10. QED
    BY <2>8, <2>9
<1>6. QED
  BY <1>4, <1>5

\* Steps after which no call is in progress, or nothing is different.
LEMMA QuietReads ==
  ASSUME TypeInv, ReadInv, InitPort \/ Return \/ UNCHANGED vars
  PROVE  ReadInv'
<1>1. UNCHANGED <<machine, port, table, mem>> /\ All' = All
  BY DEF InitPort, Return, Frame, vars, All
<1>2. \A d \in All : Port(d)' = Port(d)
  BY <1>1 DEF Port, Hba
<1>3. CASE call'.pc = "none"
  BY <1>1, <1>2, <1>3 DEF ReadInv, Waiting, InFlight
<1>4. CASE call'.pc # "none"
  <2>1. UNCHANGED <<call, dev>>
    <3>1. CASE InitPort
      BY <1>4, <3>1 DEF InitPort, TypeInv
    <3>2. CASE Return
      BY <1>4, <3>2, ReturnTyped
    <3>3. CASE UNCHANGED vars
      BY <3>3 DEF vars
    <3>4. QED
      BY <3>1, <3>2, <3>3
  <2>2. /\ Device' = Device /\ Delivered' = Delivered
        /\ Port(Device)' = Port(Device) /\ Hba(Device)' = Hba(Device)
    BY <1>1, <2>1 DEF Device, Delivered, Transferred, Port, Hba
  <2>3. QED
    BY <1>1, <1>2, <2>1, <2>2 DEF ReadInv
<1>5. QED
  BY <1>3, <1>4

LEMMA ReadsInductive ==
  Spec => []ReadInv
<1>1. ASSUME Init PROVE ReadInv
  <2>1. call.pc = "none" /\ DOMAIN mem = Buffers
    BY <1>1 DEF Init, NoCall
  <2>2. \A d \in All : port[d].ci = {} /\ port[d].st = Port(d).st
    BY <1>1 DEF Init, All
  <2>3. QED
    BY <2>1, <2>2 DEF ReadInv, Waiting, InFlight
<1>2. ASSUME TypeInv, ReadInv, [Next]_vars PROVE ReadInv'
  <2>1. CASE HbaStep
    BY <1>2, <2>1, HbaReads DEF HbaStep, TypeInv
  <2>2. CASE Call
    BY <1>2, <2>2, CallReads
  <2>3. CASE Driver
    BY <1>2, <2>3, LookReads, StartReads, IssueReads, QuietReads DEF Driver
  <2>4. CASE UNCHANGED vars
    BY <1>2, <2>4, QuietReads
  <2>5. QED
    BY <1>2, <2>1, <2>2, <2>3, <2>4 DEF Next
<1>3. QED
  BY <1>1, <1>2, TypesInductive, PTL DEF Spec

\* Theorem.  What a call within the range of CallsInRange that returns TRUE has done:
\* the sectors of its command are in its buffer, except in the cases that TrueMeansRead
\* names.  Of calls outside that range it says nothing.
THEOREM TrueReads ==
  Spec => []TrueMeansRead
<1>1. ASSUME ReadInv PROVE TrueMeansRead
  BY <1>1 DEF ReadInv, TrueMeansRead, Delivered, InFlight
<1>2. QED
  BY <1>1, ReadsInductive, PTL
=============================================================================
