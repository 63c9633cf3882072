---------------------------- MODULE MCFribFlash -----------------------------
(* Instances of FribFlash for TLC.                                         *)
EXTENDS FribFlash

CONSTANTS p, x, y

SecondBlock == [r \in Progs |-> 2]

\* An image of one block and one of two, both to be padded, and one that does
\* not fit behind the offset.
SomeWords == {<<y>>, <<y, x, y>>, <<y, y, y, y, y>>}
=============================================================================
