-------------------------------- MODULE VmeBus --------------------------------
(* How a bus address of the VME bus becomes a pointer and what a probe of it  *)
(* does (devBusToLocalAddr() of vmeApp/devLibVME.c, the mapping and probing   *)
(* functions of os/RTEMS and os/vxWorks), and the values that the shell's     *)
(* vmeread() and vmewrite() make of the bytes (vmeApp/vmesh.c).               *)
(*                                                                            *)
(* A pointer is [space, addr].  A value is the sequence of its bytes, the     *)
(* highest first; in memory a little endian CPU has them in reverse.          *)
EXTENDS Integers, Sequences, FiniteSets

CONSTANTS
  Word,      \* 2^32
  Reach,     \* windows of the bridge: a set of [space, first, last]
  Answers    \* Answers[space]: the addresses at which a card answers

ASSUME WordAssumption == Word \in Nat \ {0}

\* addrLast[]
LastOf(space) ==
  CASE space = "A16" -> 65535
    [] space = "A32" -> Word - 1
    [] OTHER -> 16777215

\* addrVerify(): the block lies in the space.
AddrVerify(space, base, size) ==
  base <= LastOf(space) /\ size - 1 <= LastOf(space) - base

\* rtemsDevMapAddr(), vxDevMapAddr(): ISA addresses are not converted.
MapAddr(space, addr) ==
  space = "ISA" \/ \E w \in Reach : w.space = space /\ addr \in w.first .. w.last

\* devBusToLocalAddr(): is there a pointer?
BusToLocal(space, addr) == AddrVerify(space, addr, 4) /\ MapAddr(space, addr)

\* rtemsDevReadProbe(), vxDevReadProbe() and the probes that write: no bus error.
Probe(space, addr, n) == \A a \in addr .. addr + n - 1 : a \in Answers[space]

-----------------------------------------------------------------------------
(* vmeread, vmewrite                                                       *)

SpaceOf(amod) == CASE amod = 16 -> "A16" [] amod = 24 -> "A24" [] amod = 32 -> "A32"

\* validate_widths(): the sum is one of epicsUInt32.
ValidWidths(addr, amod, dmod, count) ==
  /\ dmod \in {8, 16, 32}
  /\ amod \in {16, 24, 32}
  /\ addr <= LastOf(SpaceOf(amod))
  /\ (addr + count * (dmod \div 8)) % Word < LastOf(SpaceOf(amod))
  /\ BusToLocal(SpaceOf(amod), addr)

Ones(n) == [i \in 1 .. n |-> 255]
Zeros(n) == [i \in 1 .. n |-> 0]

\* The bytes of a word of four in memory, and the word made of bytes in memory.
InMemory(little, word) == IF little THEN [i \in 1 .. 4 |-> word[5 - i]] ELSE word

\* vmeread(): the probe fills the first bytes of a word of ones; the highest
\* bytes of the word are printed.
Printed(little, bytes) ==
  SubSeq(InMemory(little, bytes \o Ones(4 - Len(bytes))), 1, Len(bytes))

\* vmewrite(): the value is moved to the highest bytes of a word, and the first
\* n bytes of the word are written.
Stored(little, value, n) ==
  SubSeq(InMemory(little, SubSeq(value, 5 - n, 4) \o Zeros(4 - n)), 1, n)
==============================================================================
