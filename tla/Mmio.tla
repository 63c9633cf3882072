-------------------------------- MODULE Mmio --------------------------------
(***************************************************************************)
(* Access to I/O memory in the byte order of the device or of the CPU: the *)
(* macros of common/os/default/epicsMMIODef.h and of                       *)
(* common/os/vxWorks/epicsMMIO.h.                                          *)
(*                                                                         *)
(* A value is the set of its bits.  A byte has ByteBits bits.  The bytes   *)
(* of a register are a sequence, the one with the lowest address first.    *)
(***************************************************************************)
EXTENDS Integers, Sequences, SequencesExt

CONSTANTS
  ByteBits,  \* 8
  Cpus       \* of "big", "little", "ppc" (vxWorks on PowerPC), "x86" (vxWorks)

ASSUME ByteBitsAssumption == ByteBits \in Nat \ {0}
ASSUME CpusAssumption == Cpus \subseteq {"big", "little", "ppc", "x86"}

Bits(size) == 0 .. size * ByteBits - 1

\* External: the bytes of a value in the order of a CPU that stores the least
\* significant one first, and the value of such bytes.
Bytes(size, v) ==
  [i \in 1 .. size |-> {b \in 0 .. ByteBits - 1 : (i - 1) * ByteBits + b \in v}]
Value(bytes) ==
  {n \in Bits(Len(bytes)) : n % ByteBits \in bytes[1 + n \div ByteBits]}

BigEndian(cpu) == cpu \in {"big", "ppc"}

\* bswap16, bswap32
Bswap(size, v) == Value(Reverse(Bytes(size, v)))

\* What an instruction of the CPU loads and stores.
Load(cpu, bytes) == IF BigEndian(cpu) THEN Value(Reverse(bytes)) ELSE Value(bytes)
Store(cpu, size, v) ==
  IF BigEndian(cpu) THEN Reverse(Bytes(size, v)) ELSE Bytes(size, v)

\* External: sysPciInWord() and its like swap on a PowerPC.
SysPciIn(bytes) == Value(bytes)
SysPciOut(size, v) == Bytes(size, v)

\* nat_ioread#, nat_iowrite#
NatRead(cpu, bytes) ==
  IF cpu = "ppc" THEN Bswap(Len(bytes), SysPciIn(bytes)) ELSE Load(cpu, bytes)
NatWrite(cpu, size, v) ==
  IF cpu = "ppc" THEN SysPciOut(size, Bswap(size, v)) ELSE Store(cpu, size, v)

\* be_ioread#, be_iowrite#
BeRead(cpu, bytes) ==
  IF BigEndian(cpu) THEN NatRead(cpu, bytes) ELSE Bswap(Len(bytes), NatRead(cpu, bytes))
BeWrite(cpu, size, v) ==
  IF BigEndian(cpu) THEN NatWrite(cpu, size, v) ELSE NatWrite(cpu, size, Bswap(size, v))

\* le_ioread#, le_iowrite#
LeRead(cpu, bytes) ==
  CASE cpu = "ppc" -> SysPciIn(bytes)
    [] cpu = "big" -> Bswap(Len(bytes), NatRead(cpu, bytes))
    [] OTHER -> NatRead(cpu, bytes)
LeWrite(cpu, size, v) ==
  CASE cpu = "ppc" -> SysPciOut(size, v)
    [] cpu = "big" -> NatWrite(cpu, size, Bswap(size, v))
    [] OTHER -> NatWrite(cpu, size, v)

\* ioread8() and iowrite8() have one byte, which no order changes.
IoRead(cpu, ord, bytes) ==
  CASE ord = "BE" -> BeRead(cpu, bytes)
    [] ord = "LE" -> LeRead(cpu, bytes)
    [] OTHER -> NatRead(cpu, bytes)
IoWrite(cpu, ord, size, v) ==
  CASE ord = "BE" -> BeWrite(cpu, size, v)
    [] ord = "LE" -> LeWrite(cpu, size, v)
    [] OTHER -> NatWrite(cpu, size, v)
=============================================================================
