----------------------------- MODULE IrqService -----------------------------
(***************************************************************************)
(* What the PCI interrupt service promises a driver, whatever the          *)
(* operating system: devPCIConnectInterrupt() and                          *)
(* devPCIDisconnectInterrupt() of devLibPCI.h.  A handler is one           *)
(* (pFunction, parameter) pair.                                            *)
(*                                                                         *)
(* The promise is in the guards.  A handler is connected at most once, is  *)
(* entered only while it is connected, at most one handler runs at a time  *)
(* (handlers run under epicsInterruptLock()), and a handler is not         *)
(* disconnected while it runs: when Disconnect has returned the driver may *)
(* free what the handler uses.                                             *)
(***************************************************************************)
CONSTANT Handlers

VARIABLES
  connected,  \* the handlers a driver has connected
  running     \* the handlers that are executing

vars == <<connected, running>>

Init ==
  /\ connected = {}
  /\ running = {}

Connect(h) ==
  /\ h \notin connected
  /\ connected' = connected \cup {h}
  /\ UNCHANGED running

Disconnect(h) ==
  /\ h \in connected \ running
  /\ connected' = connected \ {h}
  /\ UNCHANGED running

Enter(h) ==
  /\ h \in connected
  /\ running = {}
  /\ running' = {h}
  /\ UNCHANGED connected

Leave(h) ==
  /\ h \in running
  /\ running' = running \ {h}
  /\ UNCHANGED connected

Next == \E h \in Handlers : Connect(h) \/ Disconnect(h) \/ Enter(h) \/ Leave(h)

Spec == Init /\ [][Next]_vars
=============================================================================
