-------------------------------- MODULE Pci --------------------------------
(***************************************************************************)
(* PCI enumeration (pci.c): the recursive scan of the buses, the cache of  *)
(* the functions it finds and the look-up by class.                        *)
(*                                                                         *)
(* A machine is a record: pci, a function from the addresses that answer   *)
(* (bus, device, function) to their headers, and drives (see Ata).  The    *)
(* stack of the recursion holds, for each bus being scanned, the functions *)
(* that are still to be looked at, the innermost bus last.                 *)
(***************************************************************************)
EXTENDS Integers, SequencesExt

CONSTANTS
  Machines,
  HostBuses,  \* how many buses are tried for a host controller: 8
  CacheRoom,  \* entries that fit the block allocated for the cache: 170
  CacheWrap,  \* values of _cache_len: 256
  DepthMax    \* buses the loader's stack has room for

ASSUME PciConstants ==
  /\ HostBuses \in Nat /\ DepthMax \in Nat \ {0}
  /\ CacheRoom \in Nat /\ CacheWrap \in Nat /\ CacheRoom < CacheWrap

\* An address is a bus, a device and a function.
ASSUME BusesOfMachines ==
  \A m \in Machines : IsFiniteSet(DOMAIN m.pci) /\ DOMAIN m.pci \subseteq Nat \X Nat \X Nat

VARIABLES
  machine,
  pci,       \* "off", "scan", or how pci_init ended: "found" or "none", or
             \* "overflow" of the stack, or "damaged": the heap behind the cache
  hosts,     \* host buses that are still to be scanned
  stack,     \* the buses being scanned
  cache,     \* _cache, by index
  cache_len  \* _cache_len

pciVars == <<machine, pci, hosts, stack, cache, cache_len>>

Present(addr) == addr \in DOMAIN machine.pci
Header(addr)  == machine.pci[addr]
NoEntry       == <<>>

PciBoot ==
  /\ machine \in Machines
  /\ pci = "off" /\ hosts = {} /\ stack = <<>>
  /\ cache = [i \in 0 .. CacheWrap - 1 |-> NoEntry] /\ cache_len = 0

\* The type a header reads as: all ones where nothing answers.
Multi(addr) == Present(addr) => Header(addr).multi

\* The buses that pci_init starts from.
Hosts ==
  IF Multi(<<0, 0, 0>>)
  THEN {bus \in 0 .. HostBuses - 1 : Present(<<bus, 0, 0>>)}
  ELSE {0}

\* pci_enum_bus and pci_enum_device: the functions that are looked at and answer.
\* Of a device with several functions the first is not looked at.
Looked(bus) ==
  {a \in DOMAIN machine.pci :
     LET first == <<bus, a[2], 0>>
     IN a[1] = bus /\ Present(first) /\ (Multi(first) <=> a[3] # 0)}

\* The loops over devices and functions take them in this order.
Earlier(a, b) == a[2] < b[2] \/ (a[2] = b[2] /\ a[3] < b[3])
First(addrs)  == CHOOSE a \in addrs : \A b \in addrs \ {a} : Earlier(a, b)

PciInit ==
  /\ pci = "off" /\ pci' = "scan"
  /\ hosts' = Hosts
  /\ UNCHANGED <<machine, stack, cache, cache_len>>

EnumHost ==
  /\ pci = "scan" /\ stack = <<>> /\ hosts # {}
  /\ stack' = <<Looked(Min(hosts))>>
  /\ hosts' = hosts \ {Min(hosts)}
  /\ UNCHANGED <<machine, pci, cache, cache_len>>

\* Mutant of Follows: also a bridge that leads to its own bus.
FollowsAny(addr) == Header(addr).kind = "bridge"

\* A bridge is followed to its bus before anything else is looked at.
Follows(addr) ==
  Header(addr).kind = "bridge" /\ Header(addr).secondary # addr[1]

\* An entry behind the block of the cache overwrites the header of the next block:
\* what happens then is not modelled.
EnumFunction ==
  /\ pci = "scan" /\ stack # <<>> /\ Last(stack) # {}
  /\ LET addr == First(Last(stack))
         rest == [stack EXCEPT ![Len(stack)] = @ \ {addr}]
     IN /\ cache' = [cache EXCEPT ![cache_len] = addr]
        /\ CASE cache_len = CacheRoom -> pci' = "damaged" /\ stack' = <<>>
             [] cache_len # CacheRoom /\ ~Follows(addr) -> stack' = rest /\ UNCHANGED pci
             [] cache_len # CacheRoom /\ Follows(addr) ->
                  IF Len(stack) = DepthMax
                  THEN pci' = "overflow" /\ stack' = <<>>
                  ELSE /\ stack' = Append(rest, Looked(Header(addr).secondary))
                       /\ UNCHANGED pci
  /\ cache_len' = (cache_len + 1) % CacheWrap
  /\ UNCHANGED <<machine, hosts>>

EnumReturn ==
  /\ pci = "scan" /\ stack # <<>> /\ Last(stack) = {}
  /\ stack' = Front(stack)
  /\ UNCHANGED <<machine, pci, hosts, cache, cache_len>>

PciReturn ==
  /\ pci = "scan" /\ stack = <<>> /\ hosts = {}
  /\ pci' = IF cache_len > 0 THEN "found" ELSE "none"
  /\ UNCHANGED <<machine, hosts, stack, cache, cache_len>>

PciStep == PciInit \/ EnumHost \/ EnumFunction \/ EnumReturn \/ PciReturn

-----------------------------------------------------------------------------
(* Look-up *)

\* Where in the cache the functions of a kind are.
OfKind(kind) == {i \in 0 .. cache_len - 1 : Header(cache[i]).kind = kind}

NumDevice(kind) == Cardinality(OfKind(kind))

GetDevice(kind, idx) ==
  cache[CHOOSE i \in OfKind(kind) : Cardinality({j \in OfKind(kind) : j < i}) = idx]

-----------------------------------------------------------------------------
(* Which functions there are, by definition *)

\* The first function of each device, and the others of a device that says it has several.
Functions ==
  {a \in DOMAIN machine.pci :
     LET first == <<a[1], a[2], 0>>
     IN a = first \/ (Present(first) /\ Header(first).multi)}

\* What the scan leaves out: the first function of a device with several.
Skipped(a) == a[3] = 0 /\ Header(a).multi

\* The bridges on a set of buses that lead away from their own bus and are not left out.
BridgesOn(buses) ==
  {a \in Functions :
     /\ a[1] \in buses /\ ~Skipped(a)
     /\ Header(a).kind = "bridge" /\ Header(a).secondary # a[1]}

\* The buses reached over at most n bridges from those that the scan starts with.
ReachedIn[n \in 0 .. DepthMax] ==
  IF n = 0 THEN Hosts
  ELSE ReachedIn[n - 1] \union {Header(a).secondary : a \in BridgesOn(ReachedIn[n - 1])}

Reached == ReachedIn[DepthMax]

\* All buses are as near as the recursion can go.
Near == Reached = ReachedIn[DepthMax - 1]

\* How a bus is come by: from the processor or over a bridge.
WaysTo(bus) ==
  (IF bus \in Hosts THEN 1 ELSE 0)
    + Cardinality({a \in BridgesOn(Reached) : Header(a).secondary = bus})

Tree == \A bus \in Reached : WaysTo(bus) = 1
=============================================================================
