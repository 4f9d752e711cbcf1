---------------------------- MODULE MCDiscovery ----------------------------
(* Discovery for TLC. *)
EXTENDS Discovery

H(kind, multi, secondary) == [kind |-> kind, multi |-> multi, secondary |-> secondary]
Other  == H("other", FALSE, 0)
Ide    == H("ide", FALSE, 0)
Bridge(secondary) == H("bridge", FALSE, secondary)

Disk(mbr, sign, array, n, slots) ==
  [mbr |-> mbr, sign |-> sign, array |-> array, count |-> n, slots |-> slots]
Usual   == Disk(TRUE, TRUE, 2, 3, <<1, 0, 2, 0>>)
NoGpt   == Disk(FALSE, FALSE, 2, 0, <<>>)
Unsigned == Disk(TRUE, FALSE, 2, 3, <<1, 0, 2, 0>>)
Far     == Disk(TRUE, TRUE, 6, 2, <<0, 1>>)
Many    == Disk(TRUE, TRUE, 2, 5, <<1, 2, 0, 0, 3, 0>>)
EmptyArray == Disk(TRUE, TRUE, 2, 0, <<>>)

D(kind, lba48, sector, size, healthy, on) ==
  [kind |-> kind, lba48 |-> lba48, sector |-> sector, size |-> size,
   healthy |-> healthy, disk |-> on]
Ata28(on)  == D("ata", FALSE, 1, 1, TRUE, on)
Ata48(on)  == D("ata", TRUE, 1, 1, TRUE, on)
Large(on)  == D("ata", TRUE, 4, 2, TRUE, on)
TooLarge(on) == D("ata", TRUE, 2, 4, TRUE, on)
Dead         == D("ata", TRUE, 1, 1, FALSE, NoGpt)
Packet       == D("atapi", FALSE, 1, 1, TRUE, NoGpt)
Odd          == D("other", FALSE, 1, 1, TRUE, NoGpt)

A000 == <<0, 0, 0>>
A010 == <<0, 1, 0>>
A011 == <<0, 1, 1>>
A012 == <<0, 1, 2>>
A100 == <<1, 0, 0>>
A110 == <<1, 1, 0>>
A200 == <<2, 0, 0>>
M(headers, drives) == [pci |-> headers, drives |-> drives]
NoDrives == <<>>

\* A host bridge and a controller, with drives of all kinds.
Single == A000 :> Other @@ A010 :> Ide
MCMachines ==
  {M(Single, <<A010, 0, 0>> :> Ata28(Usual) @@ <<A010, 1, 1>> :> Ata48(Far)),
   M(Single, <<A010, 0, 0>> :> Ata28(Far) @@ <<A010, 0, 1>> :> Packet),
   M(Single, <<A010, 0, 0>> :> Ata48(Many) @@ <<A010, 0, 1>> :> Odd),
   M(Single, <<A010, 1, 0>> :> Large(Usual) @@ <<A010, 1, 1>> :> Ata28(Unsigned)),
   M(Single, <<A010, 0, 0>> :> TooLarge(EmptyArray)),
   M(Single, <<A010, 0, 0>> :> Ata28(NoGpt) @@ <<A010, 0, 1>> :> Dead),
   M(Single, NoDrives),
   \* a device of several functions, all controllers: the first is not found, and the
   \* second and the third make two, of which the second is never asked for
   M(A000 :> Other @@ A010 :> H("ide", TRUE, 0) @@ A011 :> Ide @@ A012 :> Ide,
     <<A011, 0, 0>> :> Packet @@ <<A011, 0, 1>> :> Ata48(NoGpt)
       @@ <<A011, 1, 0>> :> Packet @@ <<A012, 0, 0>> :> Ata48(Usual)),
   \* a bridge, and a bridge that nobody has given a bus
   M(A000 :> Other @@ A010 :> Bridge(1) @@ A100 :> Ide @@ A110 :> Bridge(1), NoDrives),
   M(A000 :> Bridge(1) @@ A010 :> Bridge(2) @@ A100 :> Other @@ A200 :> Ide,
     <<A200, 0, 0>> :> Ata28(Usual)),
   \* a bridge behind a bridge that leads back
   M(A000 :> Bridge(1) @@ A100 :> Bridge(0), NoDrives),
   \* a host bridge of several functions: the bus behind a bridge is a host bus too
   M(A000 :> H("other", TRUE, 0) @@ A010 :> Bridge(1) @@ A100 :> Ide,
     <<A100, 0, 0>> :> Ata28(Usual)),
   \* nothing at the first address
   M(A010 :> Ide @@ A100 :> Other, NoDrives),
   \* a bridge that is the first of several functions: the bus behind it is not reached
   M(A000 :> Other @@ A010 :> H("bridge", TRUE, 1) @@ A011 :> Ide @@ A100 :> Other,
     <<A011, 0, 0>> :> Packet @@ <<A011, 1, 0>> :> Ata28(NoGpt)),
   \* more functions than there is room for
   M(A000 :> Other @@ A010 :> Bridge(1) @@ A100 :> Other @@ A110 :> Bridge(2)
       @@ A200 :> Ide @@ <<2, 1, 0>> :> Other @@ <<2, 2, 0>> :> Other, NoDrives)}

MCAllDrives == UNION {DOMAIN m.drives : m \in MCMachines}
=============================================================================
