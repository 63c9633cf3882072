------------------------------ MODULE MCVmeCrate ------------------------------
(* Instances of VmeCrate for TLC: two vectors on one level, three cards.     *)
EXTENDS VmeCrate, TLC

Crd(ascii, board, revision) ==
  [ascii |-> ascii, vendor |-> <<0, 10, 200>>, board |-> board, revision |-> revision]
Crate ==
  (2 :> Crd(<<67, 82>>, <<1, 2, 3, 4>>, <<0, 0, 0, 1>>))
    @@ (3 :> Crd(<<67, 0>>, <<1, 2, 3, 4>>, <<0, 0, 0, 1>>))
    @@ (31 :> Crd(<<67, 82>>, <<1, 2, 3, 5>>, CsrAny))
    @@ (4 :> Crd(<<67, 82>>, <<1, 2, 3, 4>>, <<0, 0, 0, 1>>))
\* Slot 4 is out of the reach of the bridge, and so is A24.
Bridge ==
  { [space |-> "CSR", first |-> 0, last |-> CSRSlotBase(4) - 1],
    [space |-> "CSR", first |-> CSRSlotBase(5), last |-> LastOf("CSR")],
    [space |-> "A16", first |-> 0, last |-> LastOf("A16")],
    [space |-> "A32", first |-> Word - 16, last |-> Word - 1] }

\* A card at the end of A16 and one at the end of A32.
Answering ==
  [s \in {"A16", "A24", "A32"} |->
     CASE s = "A16" -> 65528 .. 65533 [] s = "A32" -> Word - 6 .. Word - 1 [] OTHER -> {}]

Typed == { <<65528, 16, 8>>, <<65530, 16, 16>>, <<65531, 16, 32>>, <<65534, 16, 8>>, <<Word - 6, 32, 16>>,
           <<Word - 4, 32, 32>>, <<65528, 24, 8>>, <<65528, 8, 8>>, <<65528, 16, 64>> }

End == [vendor |-> <<0, 0, 0, 0>>, board |-> <<0, 0, 0, 0>>, revision |-> <<0, 0, 0, 0>>]
Id(board, revision) == [vendor |-> <<0, 0, 10, 200>>, board |-> board, revision |-> revision]
Lists ==
  { <<End>>,
    <<Id(<<1, 2, 3, 4>>, <<0, 0, 0, 2>>), Id(CsrAny, <<0, 0, 0, 1>>), End>>,
    <<[Id(<<1, 2, 3, 5>>, CsrAny) EXCEPT !.vendor = CsrAny], End>>,
    <<End, Id(CsrAny, CsrAny), End>> }

OneLevel == [v \in Vectors |-> 1]
SlotsAsked == {0 - 1, 2, 3, 4, 5, 31, 32}
Symmetry == Permutations(Threads) \cup Permutations(Vectors)
Levels == {1, 2, 8}
Asked == { <<<<8, 1, 2, 3>>, 9>>, <<<<0, 7, 5, 0>>, 125>> }
=============================================================================
