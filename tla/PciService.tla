------------------------------ MODULE PciService ------------------------------
(* What the PCI library promises to the device supports that share it: one   *)
(* driver is selected, it is initialised once, and nobody enters a driver    *)
(* before it is ready or when it is broken.                                  *)
CONSTANTS Threads, Drivers, NoDriver

VARIABLES driver, state, inside

vars == <<driver, state, inside>>

Init == driver = NoDriver /\ state = "new" /\ inside = {}

\* The first selection stands, also when the library is already broken.
Select(d) == driver = NoDriver /\ driver' = d /\ UNCHANGED <<state, inside>>

\* The initialisation ends, for good.
Settle ==
  /\ state = "new"
  /\ \/ driver # NoDriver /\ state' = "ready"
     \/ state' = "broken"
  /\ UNCHANGED <<driver, inside>>

Enter(t) == state = "ready" /\ inside' = inside \cup {t} /\ UNCHANGED <<driver, state>>

Leave(t) == t \in inside /\ inside' = inside \ {t} /\ UNCHANGED <<driver, state>>

Next ==
  \/ \E d \in Drivers : Select(d)
  \/ Settle
  \/ \E t \in Threads : Enter(t) \/ Leave(t)

Spec == Init /\ [][Next]_vars
=============================================================================
