------------------------------ MODULE MCUioIsr ------------------------------
(* Instances of UioIsr for TLC.                                            *)
EXTENDS UioIsr

CONSTANTS c1, c2, h1, h2, i1, i2

\* One driver thread per handler.
OwnCallers == [h \in Handlers |-> IF h = h1 THEN {c1} ELSE {c2}]

\* Any driver thread may disconnect any handler.
SharedCallers == [h \in Handlers |-> Clients]
=============================================================================
