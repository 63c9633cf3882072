----------------------------- MODULE AddrSpace ------------------------------
(***************************************************************************)
(* What devLib's address bookkeeping promises for one VME address space:   *)
(* devRegisterAddress(), devAllocAddress() and devUnregisterAddress() of   *)
(* vmeApp/devLibVME.h.  An owner claims a block of addresses nobody else   *)
(* has, keeps exactly that block, and is the only one to give it back.     *)
(* Running out of memory in the middle of a call loses a block for good.   *)
(***************************************************************************)
EXTENDS Naturals

CONSTANTS Owners, Last

VARIABLES
  claims,  \* the claimed blocks, [begin, end, owner]
  lost     \* addresses that nobody can have any more

vars == <<claims, lost>>

Block(begin, end) == begin .. end
Claimed == UNION {Block(c.begin, c.end) : c \in claims}

Init == claims = {} /\ lost = {}

Claim(o, begin, end) ==
  /\ Block(begin, end) \cap (Claimed \cup lost) = {}
  /\ claims' = claims \cup {[begin |-> begin, end |-> end, owner |-> o]}
  /\ UNCHANGED lost

Lose(begin, end) ==
  /\ Block(begin, end) \cap (Claimed \cup lost) = {}
  /\ lost' = lost \cup Block(begin, end)
  /\ UNCHANGED claims

GiveBack(o, c) ==
  /\ c.owner = o
  /\ claims' = claims \ {c}
  /\ UNCHANGED lost

Next ==
  \/ \E begin \in 0 .. Last : \E end \in begin .. Last :
       Lose(begin, end) \/ \E o \in Owners : Claim(o, begin, end)
  \/ \E o \in Owners, c \in claims : GiveBack(o, c)

Spec == Init /\ [][Next]_vars
=============================================================================
