------------------------------ MODULE MCPciMap ------------------------------
(* Instances of PciMap for TLC.                                            *)
EXTENDS PciMap

CONSTANTS t1, t2

\* BAR 0 is I/O ports, the others are memory.
IoMem == [b \in Bars |-> IF b = 0 THEN "io" ELSE "mem"]

\* Both threads map BAR 1; one maps BAR 0, the other BAR 2.
Shared == [b \in Bars |-> IF b = 0 THEN {t1} ELSE IF b = 1 THEN Threads ELSE {t2}]
=============================================================================
