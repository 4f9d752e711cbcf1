----------------------------- MODULE TickClock -----------------------------
(***************************************************************************)
(* What the timer promises: a clock that counts ticks one at a time, and   *)
(* a sleeper that wakes up only after the number of ticks it asked for.    *)
(***************************************************************************)
EXTENDS Integers

VARIABLES now,      \* ticks counted
          sleeping, \* somebody sleeps
          deadline  \* the tick that ends the sleep, 0 if nobody sleeps

clockVars == <<now, sleeping, deadline>>

Init == now = 0 /\ sleeping = FALSE /\ deadline = 0

\* The timer is set up again.
Restart == now' = 0 /\ ~sleeping /\ UNCHANGED <<sleeping, deadline>>

Tick == now' = now + 1 /\ UNCHANGED <<sleeping, deadline>>

\* A sleep is at least one tick long.
FallAsleep ==
  /\ ~sleeping
  /\ sleeping' = TRUE
  /\ deadline' \in Nat /\ deadline' > now
  /\ UNCHANGED now

WakeUp ==
  /\ sleeping
  /\ now >= deadline
  /\ sleeping' = FALSE
  /\ deadline' = 0
  /\ UNCHANGED now

Next == Restart \/ Tick \/ FallAsleep \/ WakeUp

Spec == Init /\ [][Next]_clockVars
=============================================================================
