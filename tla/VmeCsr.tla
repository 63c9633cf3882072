-------------------------------- MODULE VmeCsr --------------------------------
(* VME64x cards in the CR/CSR space (vmeApp/devcsr.c, devcsr.h): how a card   *)
(* is recognised in a slot, and the value of its base address registers.      *)
(*                                                                            *)
(* Every register is one byte and the bytes of a value are 4 apart.  A value  *)
(* is the sequence of its bytes, the highest first.                           *)
EXTENDS VmeBus

CONSTANT
  Cards      \* the crate: a function from slots in use to cards
             \* [ascii, vendor, board, revision]

SlotMax == 31           \* VMECSRSLOTMAX
CSRSlotBase(slot) == slot * 524288
CsrAny == <<255, 255, 255, 255>>
Byte == 0 .. 255
Bytes(n) == [1 .. n -> Byte]

ASSUME CardAssumption ==
  \A s \in DOMAIN Cards :
    Cards[s] \in [ascii : Bytes(2), vendor : Bytes(3), board : Bytes(4), revision : Bytes(4)]

CR_ASCII_C == 31
CR_ASCII_R == 35
CR_IEEE_OUI == 39
CR_BOARD_ID == 51
CR_REVISION_ID == 67

\* External: the configuration ROM of a card, at the offsets VME64 asks for.
Rom(card, offset) ==
  LET at(value, first) == value[((offset - first) \div 4) + 1] IN
  CASE offset \in {31, 35} -> at(card.ascii, 31)
    [] offset \in {39, 43, 47} -> at(card.vendor, 39)
    [] offset \in {51, 55, 59, 63} -> at(card.board, 51)
    [] offset \in {67, 71, 75, 79} -> at(card.revision, 67)
    [] OTHER -> 255

\* CSRRead16() .. CSRRead32(): n bytes, 4 apart.
CSRRead(card, offset, n) == [i \in 1 .. n |-> Rom(card, offset + 4 * (i - 1))]

\* devCSRProbeSlot(): does it return the base of the slot?
ProbeSlot(slot) ==
  /\ slot >= 0 /\ slot <= SlotMax
  /\ BusToLocal("CSR", CSRSlotBase(slot))
  /\ slot \in DOMAIN Cards
  /\ Rom(Cards[slot], CR_ASCII_C) = 67   \* 'C'
  /\ Rom(Cards[slot], CR_ASCII_R) = 82   \* 'R'

\* csrMatch()
SameOrAny(a, b) == a = b \/ a = CsrAny \/ b = CsrAny
csrMatch(a, b) ==
  /\ SameOrAny(a.vendor, b.vendor)
  /\ SameOrAny(a.board, b.board)
  /\ SameOrAny(a.revision, b.revision)

\* The entries before VMECSR_END.
Entries(devs) ==
  { devs[i] : i \in { i \in DOMAIN devs : \A j \in 1 .. i : devs[j].vendor # <<0, 0, 0, 0>> } }

\* devCSRTestSlot(): the vendor has three bytes.
NotFound == "NULL"
TestSlot(devs, slot) ==
  IF ~ProbeSlot(slot) THEN NotFound
  ELSE LET test == [vendor |-> <<0>> \o CSRRead(Cards[slot], CR_IEEE_OUI, 3),
                    board |-> CSRRead(Cards[slot], CR_BOARD_ID, 4),
                    revision |-> CSRRead(Cards[slot], CR_REVISION_ID, 4)]
       IN IF \E e \in Entries(devs) : csrMatch(e, test) THEN test ELSE NotFound

\* CSRADER()
CSRADER(addr, mod) == SubSeq(addr, 1, 3) \o <<(mod % 64) * 4>>

\* CSR_FN_ADER(N) + 4 * (i - 1): the place of byte i of the register.
ADERAt(n, i) == 524131 + 16 * n + 4 * (i - 1)
==============================================================================
