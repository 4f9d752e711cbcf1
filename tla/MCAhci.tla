------------------------------- MODULE MCAhci -------------------------------
(* Ahci for TLC. *)
EXTENDS Ahci, TLC

P(impl, det, st, fre) == [impl |-> impl, det |-> det, st |-> st, fre |-> fre]
Nothing == P(FALSE, FALSE, FALSE, FALSE)
Empty   == P(TRUE, FALSE, FALSE, TRUE)
Started == P(TRUE, TRUE, TRUE, TRUE)
Stopped == P(TRUE, TRUE, FALSE, TRUE)
Dead    == P(TRUE, TRUE, FALSE, FALSE)
Ports(a, b, c, d) == (0 :> a) @@ (1 :> b) @@ (2 :> c) @@ (3 :> d)
H(ncs, latches, ports) == [ncs |-> ncs, latches |-> latches, ports |-> ports]

MCMachines ==
  {<<H(2, FALSE, Ports(Nothing, Started, Empty, Nothing))>>,
   <<H(2, TRUE, Ports(Empty, Nothing, Nothing, Stopped))>>,
   <<H(1, FALSE, Ports(Nothing, Nothing, Stopped, Dead)),
     H(0, FALSE, Ports(Started, Nothing, Nothing, Nothing))>>}
=============================================================================
