---------------------------- MODULE FribFlashProofs ----------------------------
(***************************************************************************)
(* For every number of programmers, size of the chip and of its blocks,    *)
(* image and offset: the types, the lock at rest, where a run may be, that *)
(* no abort outlives its run, and which addresses commands go to.  For a   *)
(* single programmer also: a run that succeeds has its image in the chip.  *)
(***************************************************************************)
EXTENDS FribFlash, TLAPS

-----------------------------------------------------------------------------
(* Multiples                                                               *)

LEMMA Division ==
  ASSUME NEW x \in Int, NEW b \in Nat \ {0}, x % b = 0
  PROVE  x \div b \in Int /\ x = b * (x \div b)
OBVIOUS

LEMMA MultipleOf ==
  ASSUME NEW k \in Int, NEW b \in Nat \ {0}
  PROVE  (b * k) % b = 0
OBVIOUS

LEMMA SumOfMultiples ==
  ASSUME NEW x \in Int, NEW y \in Int, NEW b \in Nat \ {0}, x % b = 0, y % b = 0
  PROVE  (x + y) % b = 0
<1> DEFINE i == x \div b  j == y \div b
<1>1. i \in Int /\ j \in Int /\ x = b * i /\ y = b * j
  BY Division
<1>2. i + j \in Int /\ x + y = b * (i + j)
  BY <1>1
<1> HIDE DEF i, j
<1>3. (b * (i + j)) % b = 0
  BY <1>2, MultipleOf
<1> QED BY <1>2, <1>3

LEMMA MultipleOfMultiple ==
  ASSUME NEW x \in Int, NEW e \in Nat \ {0}, NEW b \in Nat \ {0}, x % e = 0, e % b = 0
  PROVE  x % b = 0
<1> DEFINE i == x \div e  j == e \div b
<1>1. i \in Int /\ j \in Int /\ x = e * i /\ e = b * j
  BY Division
<1> HIDE DEF i, j
<1>2. j * i \in Int /\ x = b * (j * i)
  BY <1>1
<1>3. (b * (j * i)) % b = 0
  BY <1>2, MultipleOf
<1> QED BY <1>2, <1>3

LEMMA NextIsMultiple ==
  ASSUME NEW x \in Int, NEW b \in Nat \ {0}, x % b = 0
  PROVE  (x + b) % b = 0
<1>1. b \in Int /\ b % b = 0
  OBVIOUS
<1> QED BY <1>1, SumOfMultiples, Zenon

\* The next multiple is no more than any greater one.
LEMMA NextMultiple ==
  ASSUME NEW x \in Int, NEW y \in Int, NEW b \in Nat \ {0}, x % b = 0, y % b = 0, x < y
  PROVE  x + b <= y
<1> DEFINE i == x \div b  j == y \div b
<1>1. i \in Int /\ j \in Int /\ x = b * i /\ y = b * j
  BY Division
<1>2. i < j
  BY <1>1
<1>3. b * (j - i - 1) >= 0
  BY <1>1, <1>2
<1> QED BY <1>1, <1>3

LEMMA RoundedUp ==
  ASSUME NEW n \in Nat
  PROVE  RoundUp(n) \in Nat /\ n <= RoundUp(n) /\ RoundUp(n) < n + BlockLen /\ RoundUp(n) % BlockLen = 0
BY LengthsAssumption DEF RoundUp

\* An image that fits into the chip still does when it is padded.
LEMMA PaddedFits ==
  ASSUME NEW n \in Nat, NEW off \in Nat, off % EraseLen = 0, n + off <= Capacity
  PROVE  off + RoundUp(n) <= Capacity
<1>1. off % BlockLen = 0 /\ Capacity % BlockLen = 0
  <2>1. EraseLen \in Nat \ {0} /\ BlockLen \in Nat \ {0} /\ EraseLen % BlockLen = 0
        /\ Capacity \in Int /\ Capacity % EraseLen = 0 /\ off \in Int
    BY LengthsAssumption
  <2> QED BY <2>1, MultipleOfMultiple
<1> DEFINE up == RoundUp(n)
<1>2. up \in Nat /\ up < n + BlockLen /\ up % BlockLen = 0
  BY RoundedUp
<1>3. BlockLen \in Nat \ {0} /\ Capacity \in Nat
  BY LengthsAssumption
<1> SUFFICES off + up <= Capacity
  OBVIOUS
<1> HIDE DEF up
<1>4. off + up \in Int /\ (off + up) % BlockLen = 0
  <2>1. off \in Int /\ up \in Int
    BY <1>2
  <2>2. (off + up) % BlockLen = 0
    BY <1>1, <1>2, <1>3, <2>1, SumOfMultiples, Zenon
  <2> QED BY <2>1, <2>2
<1>5. CASE Capacity < off + up
  <2>1. Capacity + BlockLen <= off + up
    BY <1>1, <1>3, <1>4, <1>5, NextMultiple
  <2> QED BY <2>1, <1>2, <1>3
<1> QED BY <1>5, <1>2, <1>3

LEMMA PaddedType ==
  ASSUME NEW im \in Images
  PROVE  /\ Padded(im) \in Seq(Words)
         /\ Len(Padded(im)) = RoundUp(Len(im))
<1>1. im \in Seq(Words) /\ Len(im) \in Nat
  BY ImagesAssumption
<1>2. RoundUp(Len(im)) \in Nat
  BY <1>1, RoundedUp
<1>3. \A i \in 1 .. RoundUp(Len(im)) : (IF i <= Len(im) THEN im[i] ELSE Zero) \in Words
  BY <1>1 DEF Words
<1> QED BY <1>2, <1>3 DEF Padded

-----------------------------------------------------------------------------
(* The card                                                                *)

LEMMA SendType ==
  ASSUME TypeOK, NEW op \in {"enable", "erase", "program", "read"}, NEW a \in Addrs, Send(op, a)
  PROVE  engine' \in [op : {"none", "enable", "erase", "program", "read"}, addr : Addrs]
<1>1. 0 \in Addrs
  BY LengthsAssumption DEF Addrs
<1> QED BY <1>1 DEF TypeOK, Send

LEMMA ProgrammedType ==
  ASSUME TypeOK, NEW a \in Addrs
  PROVE  Erased(a) \in [Addrs -> Words] /\ Programmed(a) \in [Addrs -> Words]
<1>1. Garbage \in Words /\ Blank \in Words
  BY DEF Words
<1>2. ASSUME NEW x \in Addrs, x \in a .. a + Len(fifo) - 1
      PROVE  Overwritten(flash[x], fifo[x - a + 1]) \in Words
  <2>1. x - a + 1 \in 1 .. Len(fifo)
    BY <1>2 DEF Addrs, TypeOK
  <2>2. fifo[x - a + 1] \in Words
    BY <2>1 DEF TypeOK
  <2> QED BY <1>1, <2>2 DEF Overwritten
<1> QED BY <1>1, <1>2 DEF Erased, Programmed, TypeOK

LEMMA ChipKeeps ==
  ASSUME PlaceInv, Chip
  PROVE  PlaceInv'
<1>1. engine.addr \in Addrs /\ engine \in [op : {"none", "enable", "erase", "program", "read"}, addr : Addrs]
  BY DEF PlaceInv, TypeOK
<1>2. flash' \in [Addrs -> Words] /\ engine' = Ready /\ latch' \in BOOLEAN /\ rdata' \in Words
      /\ UNCHANGED <<unlocked, fifo>>
  <2>1. CASE ChipEnables
    BY <2>1 DEF ChipEnables, Executes, PlaceInv, TypeOK
  <2>2. CASE ChipErases
    BY <2>2, <1>1, ProgrammedType DEF ChipErases, Executes, PlaceInv, TypeOK
  <2>3. CASE ChipPrograms
    BY <2>3, <1>1, ProgrammedType DEF ChipPrograms, Executes, PlaceInv, TypeOK
  <2>4. CASE ChipReads
    BY <2>4, <1>1 DEF ChipReads, Executes, PlaceInv, TypeOK
  <2> QED BY <2>1, <2>2, <2>3, <2>4 DEF Chip
<1>3. Ready \in [op : {"none", "enable", "erase", "program", "read"}, addr : Addrs]
  BY LengthsAssumption DEF Ready, Addrs
<1>4. TypeOK'
  BY <1>2, <1>3 DEF Chip, progVars, recordVars, PlaceInv, TypeOK
<1>5. LockedAtRest' /\ \A p \in Progs : InPlace(p)'
  BY <1>2 DEF Chip, progVars, PlaceInv, LockedAtRest, Running, InPlace, Last
<1> QED BY <1>4, <1>5 DEF PlaceInv

-----------------------------------------------------------------------------
(* The runs                                                                *)

LEMMA InitHolds == Init => PlaceInv
<1> SUFFICES ASSUME Init PROVE PlaceInv
  OBVIOUS
<1>1. TypeOK
  <2>1. 0 \in Addrs /\ 0 \in 0 .. BlockLen - 1 /\ Garbage \in Words /\ <<>> \in Seq(Words)
        /\ Len(<<>>) <= BlockLen /\ 0 \in 0 .. Capacity
    BY LengthsAssumption DEF Addrs, Words
  <2> QED BY <2>1 DEF Init, TypeOK, Ready, States, Points
<1> QED BY <1>1 DEF Init, PlaceInv, LockedAtRest, InPlace

\* A step that leaves the other runs where they are.
LEMMA OthersStay ==
  ASSUME NEW p \in Progs, \A q \in Progs : InPlace(q), NEW at,
         pc' = [pc EXCEPT ![p] = at], pc \in [Progs -> Points],
         \A q \in Progs \ {p} : lastaddr'[q] = lastaddr[q] /\ file'[q] = file[q],
         InPlace(p)'
  PROVE  \A q \in Progs : InPlace(q)'
BY DEF InPlace, Last

\* A worker that goes on leaves the lock as it should be.
LEMMA StaysUnlocked ==
  ASSUME NEW p \in Progs, NEW at, at # "none", pc' = [pc EXCEPT ![p] = at], pc \in [Progs -> Points]
  PROVE  LockedAtRest'
BY DEF LockedAtRest, Running

\* The end of a run.
LEMMA EndKeeps ==
  ASSUME PlaceInv, NEW p \in Progs, NEW s \in States, End(p, s), UNCHANGED <<file, lastaddr, words>>,
         bitfile' \in [Progs -> Images \cup {<<>>}]
  PROVE  PlaceInv'
<1>1. TypeOK'
  BY DEF PlaceInv, TypeOK, End, Goto, Points
<1>2. InPlace(p)'
  BY DEF PlaceInv, TypeOK, End, Goto, InPlace
<1>3. \A q \in Progs : InPlace(q)'
  BY <1>2, OthersStay DEF PlaceInv, TypeOK, End, Goto
<1> QED BY <1>1, <1>3 DEF PlaceInv, LockedAtRest, End

\* A command of a run at a place of its image.
LEMMA CommandKeeps ==
  ASSUME PlaceInv, NEW p \in Progs, NEW op \in {"enable", "erase", "program", "read"},
         NEW next \in Points \ {"none"}, Command(p, op, next), lastaddr[p] \in Addrs, InPlace(p)'
  PROVE  PlaceInv'
<1>1. TypeOK'
  BY SendType DEF PlaceInv, TypeOK, Command, Goto, recordVars
<1>2. \A q \in Progs : InPlace(q)'
  BY OthersStay DEF PlaceInv, TypeOK, Command, Goto
<1> QED BY <1>1, <1>2, StaysUnlocked DEF PlaceInv, TypeOK, Command, Goto

\* The card became ready.
LEMMA WaitKeeps ==
  ASSUME PlaceInv, NEW p \in Progs, NEW next \in Points \ {"none"}, NEW step \in Nat, Wait(p, next, step),
         lastaddr[p] + step <= Capacity, InPlace(p)'
  PROVE  PlaceInv'
<1>1. TypeOK'
  BY LengthsAssumption DEF PlaceInv, TypeOK, Wait, Goto, recordVars, chipVars
<1>2. \A q \in Progs : InPlace(q)'
  BY OthersStay DEF PlaceInv, TypeOK, Wait, Goto
<1> QED BY <1>1, <1>2, StaysUnlocked DEF PlaceInv, TypeOK, Wait, Goto

\* What is known of a run when it is about to take a step.
Placed(p) ==
  /\ InPlace(p)
  /\ lastaddr[p] \in Nat /\ Offset[p] \in Nat /\ Len(file[p]) \in Nat
  /\ file[p] \in Seq(Words) /\ lastaddr[p] <= Capacity /\ words[p] \in 0 .. BlockLen - 1
  /\ Capacity \in Nat \ {0} /\ EraseLen \in Nat \ {0} /\ BlockLen \in Nat \ {0}

LEMMA PlaceKnown ==
  ASSUME PlaceInv, NEW p \in Progs
  PROVE  Placed(p)
BY OffsetAssumption, LengthsAssumption DEF Placed, PlaceInv, TypeOK

\* The first block of a phase is the one at the offset.
LEMMA OffsetIsBlock ==
  ASSUME NEW p \in Progs, Offset[p] % EraseLen = 0
  PROVE  Offset[p] % BlockLen = 0
<1>1. Offset[p] \in Int /\ EraseLen \in Nat \ {0} /\ BlockLen \in Nat \ {0} /\ EraseLen % BlockLen = 0
  BY OffsetAssumption, LengthsAssumption
<1> QED BY <1>1, MultipleOfMultiple

\* A phase that begins.
LEMMA PhaseKeeps ==
  ASSUME PlaceInv, NEW p \in Progs, NEW s \in {"Erase", "Program", "Verify"}, Phase(p, s),
         unlocked' \in BOOLEAN, UNCHANGED words, bitfile' \in [Progs -> Images \cup {<<>>}],
         file' \in [Progs -> Seq(Words)], \A q \in Progs \ {p} : file'[q] = file[q],
         Offset[p] % EraseLen = 0, Len(file'[p]) % BlockLen = 0, Last(p)' <= Capacity, Capacity <= Reach
  PROVE  PlaceInv'
<1>1. Len(file'[p]) \in Nat /\ Offset[p] \in 0 .. Capacity
  BY OffsetAssumption, LengthsAssumption DEF Last
<1>2. TypeOK'
  BY <1>1 DEF PlaceInv, TypeOK, Phase, Goto, States, Points
<1>3. InPlace(p)'
  BY <1>1, OffsetIsBlock DEF InPlace, Last, Phase, Goto, PlaceInv, TypeOK
<1>4. \A q \in Progs : InPlace(q)'
  BY <1>3, OthersStay DEF PlaceInv, TypeOK, Phase, Goto
<1> QED BY <1>2, <1>4, StaysUnlocked DEF PlaceInv, TypeOK, Phase, Goto

LEMMA BeginKeeps ==
  ASSUME PlaceInv, NEW p \in Progs, Begin(p)
  PROVE  PlaceInv'
<1>1. bitfile[p] \in Images /\ Len(bitfile[p]) \in Nat
  BY ImagesAssumption DEF Begin, Accepts, PlaceInv, TypeOK
<1>2. /\ Offset[p] \in Nat /\ Offset[p] % EraseLen = 0 /\ Len(bitfile[p]) + Offset[p] <= Capacity
      /\ Capacity <= Reach
  BY OffsetAssumption DEF Begin, Accepts
<1>3. file'[p] \in Seq(Words) /\ Len(file'[p]) = RoundUp(Len(bitfile[p]))
  BY <1>1, PaddedType DEF Begin, PlaceInv, TypeOK
<1>4. Len(file'[p]) % BlockLen = 0 /\ Last(p)' <= Capacity
  <2>1. Offset[p] + RoundUp(Len(bitfile[p])) <= Capacity
    BY <1>1, <1>2, PaddedFits, Zenon
  <2>2. RoundUp(Len(bitfile[p])) % BlockLen = 0
    BY <1>1, RoundedUp, Zenon
  <2> QED BY <1>3, <2>1, <2>2 DEF Last
<1>5. file' \in [Progs -> Seq(Words)] /\ \A q \in Progs \ {p} : file'[q] = file[q]
  BY <1>1, <1>3, PaddedType DEF Begin, PlaceInv, TypeOK
<1> QED BY <1>2, <1>4, <1>5, PhaseKeeps DEF Begin, PlaceInv, TypeOK

\* A run that commands the chip is within its image.
LEMMA CommandPlace ==
  ASSUME PlaceInv, NEW p \in Progs,
         EraseEnable(p) \/ EraseCommand(p) \/ ProgramEnable(p) \/ ProgramCommand(p) \/ VerifyCommand(p)
  PROVE  Running(p) /\ lastaddr[p] \in Addrs /\ Offset[p] <= lastaddr[p] /\ lastaddr[p] < Last(p)
         /\ lastaddr[p] < Reach
<1>1. Placed(p)
  BY PlaceKnown
<1>2. pc[p] \notin {"none", "start"} /\ (pc[p] \in {"Erase", "Program", "Verify"} => lastaddr[p] < Last(p))
  BY DEF EraseEnable, EraseCommand, ProgramEnable, ProgramCommand, VerifyCommand, More
<1>3. Offset[p] <= lastaddr[p] /\ lastaddr[p] < Last(p) /\ Last(p) <= Capacity /\ Capacity <= Reach
  BY <1>1, <1>2 DEF Placed, InPlace
<1>4. lastaddr[p] \in Nat /\ Last(p) \in Nat /\ Capacity \in Nat
  BY <1>1 DEF Placed, Last
<1> QED BY <1>2, <1>3, <1>4, ReachAssumption DEF Running, Addrs

\* The commands of a run.
LEMMA CommandsKeep ==
  ASSUME PlaceInv, NEW p \in Progs,
         EraseEnable(p) \/ EraseCommand(p) \/ ProgramEnable(p) \/ ProgramCommand(p) \/ VerifyCommand(p)
  PROVE  PlaceInv'
<1>0. Placed(p)
  BY PlaceKnown
<1>1. PICK op \in {"enable", "erase", "program", "read"}, next \in Points \ {"none"} : Command(p, op, next)
  BY DEF EraseEnable, EraseCommand, ProgramEnable, ProgramCommand, VerifyCommand, Points
<1>2. lastaddr[p] \in Addrs
  BY CommandPlace
<1>3. InPlace(p)'
  BY DEF EraseEnable, EraseCommand, ProgramEnable, ProgramCommand, VerifyCommand, More, Command, Goto,
         InPlace, Last, PlaceInv, TypeOK
<1> QED BY <1>1, <1>2, <1>3, CommandKeeps

\* What a wait does.
LEMMA WaitMoves ==
  ASSUME PlaceInv, NEW p \in Progs, NEW next, NEW step \in Nat, Wait(p, next, step)
  PROVE  /\ pc'[p] = next /\ lastaddr'[p] = lastaddr[p] + step
         /\ file'[p] = file[p]
BY DEF PlaceInv, TypeOK, Wait, Goto

\* A run that has come to the next block is in place if that is a whole one.
LEMMA NextInPlace ==
  ASSUME NEW p \in Progs, Placed(p), NEW step \in Nat, pc[p] \notin {"none", "start"},
         lastaddr'[p] = lastaddr[p] + step, file'[p] = file[p], pc'[p] \in {"Erase", "Program", "Verify"},
         pc'[p] = "Erase" => lastaddr'[p] % EraseLen = 0,
         pc'[p] = "Program" => lastaddr'[p] % BlockLen = 0
  PROVE  InPlace(p)'
<1>1. /\ Offset[p] % EraseLen = 0 /\ Len(file'[p]) % BlockLen = 0
      /\ Offset[p] <= lastaddr[p] /\ Last(p)' <= Capacity /\ Capacity <= Reach
  BY DEF Placed, InPlace, Last
<1>2. Offset[p] \in Nat /\ lastaddr[p] \in Nat
  BY DEF Placed
<1>3. Offset[p] <= lastaddr'[p]
  BY <1>1, <1>2
<1> QED BY <1>1, <1>3 DEF InPlace

\* Erasing goes on by an erase block, and the chip ends with one.
LEMMA EraseWaitsKeep ==
  ASSUME PlaceInv, NEW p \in Progs, EraseWait(p) \/ EraseDone(p)
  PROVE  PlaceInv'
<1>0. Placed(p)
  BY PlaceKnown
<1>1. CASE EraseWait(p)
  <2>1. pc'[p] = "erase" /\ lastaddr'[p] = lastaddr[p] /\ file'[p] = file[p]
    BY <1>0, <1>1, WaitMoves DEF EraseWait, Placed
  <2>2. InPlace(p)'
    BY <1>0, <1>1, <2>1 DEF EraseWait, InPlace, Last, Placed
  <2> QED BY <1>0, <1>1, <2>2, WaitKeeps DEF EraseWait, Points, Placed
<1>2. CASE EraseDone(p)
  <2>1. /\ lastaddr[p] \in Int /\ Capacity \in Int /\ EraseLen \in Nat \ {0} /\ lastaddr[p] < Capacity
        /\ lastaddr[p] % EraseLen = 0 /\ Capacity % EraseLen = 0
    BY <1>0, <1>2, LengthsAssumption DEF EraseDone, InPlace, Last, Placed
  <2>2. lastaddr[p] + EraseLen <= Capacity
    BY <2>1, NextMultiple, Zenon
  <2>3. (lastaddr[p] + EraseLen) % EraseLen = 0
    BY <2>1, NextIsMultiple, Zenon
  <2>4. pc'[p] = "Erase" /\ lastaddr'[p] = lastaddr[p] + EraseLen /\ file'[p] = file[p]
    BY <1>0, <1>2, WaitMoves DEF EraseDone, Placed
  <2>5. InPlace(p)'
    BY <1>0, <1>2, <2>1, <2>3, <2>4, NextInPlace DEF EraseDone
  <2> QED BY <1>0, <1>2, <2>2, <2>5, WaitKeeps DEF EraseDone, Points, Placed
<1> QED BY <1>1, <1>2

LEMMA ProgramWaitsKeep ==
  ASSUME PlaceInv, NEW p \in Progs, ProgramWait(p) \/ ProgramDone(p) \/ VerifyWait(p)
  PROVE  PlaceInv'
<1>0. Placed(p)
  BY PlaceKnown
<1>1. CASE ProgramWait(p) \/ VerifyWait(p)
  <2>1. PICK next \in {"program", "answered"} : Wait(p, next, 0) /\ (next = "program" => pc[p] = "filled")
                                              /\ pc[p] \in {"filled", "asked"}
    BY <1>1 DEF ProgramWait, VerifyWait
  <2>2. pc'[p] = next /\ lastaddr'[p] = lastaddr[p] /\ file'[p] = file[p]
    BY <1>0, <2>1, WaitMoves DEF Placed
  <2>3. InPlace(p)'
    BY <1>0, <2>1, <2>2 DEF InPlace, Last, Placed
  <2> QED BY <1>0, <2>1, <2>3, WaitKeeps DEF Points, Placed
<1>2. CASE ProgramDone(p)
  <2>1. /\ lastaddr[p] \in Int /\ Capacity \in Int /\ BlockLen \in Nat \ {0} /\ EraseLen \in Nat \ {0}
        /\ lastaddr[p] < Capacity /\ lastaddr[p] % BlockLen = 0
        /\ Capacity % EraseLen = 0 /\ EraseLen % BlockLen = 0
    BY <1>0, <1>2, LengthsAssumption DEF ProgramDone, InPlace, Last, Placed
  <2>2. Capacity % BlockLen = 0
    BY <2>1, MultipleOfMultiple, Zenon
  <2>3. lastaddr[p] + BlockLen <= Capacity
    BY <2>1, <2>2, NextMultiple, Zenon
  <2>4. (lastaddr[p] + BlockLen) % BlockLen = 0
    BY <2>1, NextIsMultiple, Zenon
  <2>5. pc'[p] = "Program" /\ lastaddr'[p] = lastaddr[p] + BlockLen /\ file'[p] = file[p]
    BY <1>0, <1>2, WaitMoves DEF ProgramDone, Placed
  <2>6. InPlace(p)'
    BY <1>0, <1>2, <2>1, <2>4, <2>5, NextInPlace DEF ProgramDone
  <2> QED BY <1>0, <1>2, <2>3, <2>6, WaitKeeps DEF ProgramDone, Points, Placed
<1> QED BY <1>1, <1>2

\* The words of a block are words of the image.
LEMMA ProgramFillKeeps ==
  ASSUME PlaceInv, NEW p \in Progs, ProgramFill(p)
  PROVE  PlaceInv'
<1>0. Placed(p)
  BY PlaceKnown
<1> DEFINE rel == lastaddr[p] - Offset[p]
<1>1. /\ Offset[p] <= lastaddr[p] /\ lastaddr[p] < Last(p)
      /\ lastaddr[p] % BlockLen = 0 /\ Offset[p] % EraseLen = 0 /\ Len(file[p]) % BlockLen = 0
  BY <1>0 DEF ProgramFill, InPlace, Placed
<1>2. rel + BlockLen <= Len(file[p])
  <2>1. lastaddr[p] \in Int /\ Offset[p] \in Int /\ Len(file[p]) \in Int /\ Last(p) \in Int
        /\ BlockLen \in Nat \ {0}
    BY <1>0 DEF Placed, Last
  <2>2. Offset[p] % BlockLen = 0
    BY <1>1, OffsetIsBlock
  <2>3. Last(p) % BlockLen = 0
    BY <1>1, <2>1, <2>2, SumOfMultiples, Zenon DEF Last
  <2>4. lastaddr[p] + BlockLen <= Last(p)
    BY <1>1, <2>1, <2>3, NextMultiple, Zenon
  <2> QED BY <2>1, <2>4 DEF Last
<1>3. rel + BlockLen - words[p] \in 1 .. Len(file[p])
  <2>1. words[p] \in 0 .. BlockLen - 1 /\ BlockLen \in Nat /\ Len(file[p]) \in Nat
        /\ Offset[p] \in Nat /\ lastaddr[p] \in Nat
    BY <1>0 DEF Placed
  <2>2. Offset[p] <= lastaddr[p]
    BY <1>1
  <2> QED BY <1>2, <2>1, <2>2
<1>4. file[p][rel + BlockLen - words[p]] \in Words
  BY <1>0, <1>3 DEF Placed
<1>5. fifo' \in Seq(Words) /\ Len(fifo') <= BlockLen
  <2> DEFINE w == file[p][rel + BlockLen - words[p]]
  <2>1. w \in Words /\ fifo \in Seq(Words) /\ Len(fifo) <= BlockLen /\ BlockLen \in Nat
    BY <1>4, LengthsAssumption DEF PlaceInv, TypeOK
  <2>2. Push(w)
    BY DEF ProgramFill
  <2> HIDE DEF w
  <2>3. <<w>> \o fifo \in Seq(Words) /\ Len(<<w>> \o fifo) = Len(fifo) + 1
    BY <2>1
  <2>4. PICK n \in Nat : n <= Len(fifo) + 1 /\ n <= BlockLen /\ fifo' = SubSeq(<<w>> \o fifo, 1, n)
    BY <2>1, <2>2 DEF Push
  <2> QED BY <2>1, <2>3, <2>4
<1>6. words' \in [Progs -> 0 .. BlockLen - 1]
  <2>1. (words[p] + 1) % BlockLen \in 0 .. BlockLen - 1
    BY <1>0 DEF Placed
  <2> QED BY <2>1 DEF ProgramFill, PlaceInv, TypeOK
<1>7. PICK at \in {"filled", "fifo"} : Goto(p, at)
  BY DEF ProgramFill
<1>8. TypeOK'
  BY <1>5, <1>6, <1>7 DEF ProgramFill, Goto, PlaceInv, TypeOK, recordVars, Points
<1>9. InPlace(p)'
  BY <1>0, <1>7 DEF ProgramFill, Goto, InPlace, Last, PlaceInv, TypeOK, Placed
<1>10. \A q \in Progs : InPlace(q)'
  BY <1>7, <1>9, OthersStay DEF ProgramFill, Goto, PlaceInv, TypeOK
<1> QED BY <1>7, <1>8, <1>10, StaysUnlocked DEF Goto, PlaceInv, TypeOK

LEMMA VerifyWordKeeps ==
  ASSUME PlaceInv, NEW p \in Progs, VerifyWord(p)
  PROVE  PlaceInv'
<1>0. Placed(p)
  BY PlaceKnown
<1>1. lastaddr[p] + 1 <= Capacity
  BY <1>0 DEF VerifyWord, InPlace, Last, Placed
<1>2. TypeOK'
  BY <1>0, <1>1 DEF Placed, VerifyWord, Goto, PlaceInv, TypeOK, recordVars, chipVars, Points
<1>3. pc'[p] = "Verify" /\ lastaddr'[p] = lastaddr[p] + 1 /\ file'[p] = file[p]
  BY DEF VerifyWord, Goto, PlaceInv, TypeOK
<1>4. InPlace(p)'
  BY <1>0, <1>3, NextInPlace DEF VerifyWord
<1>5. \A q \in Progs : InPlace(q)'
  BY <1>4, OthersStay DEF VerifyWord, Goto, PlaceInv, TypeOK
<1> QED BY <1>2, <1>5, StaysUnlocked DEF VerifyWord, Goto, PlaceInv, TypeOK, chipVars

LEMMA EndsKeep ==
  ASSUME PlaceInv, NEW p \in Progs, Refuse(p) \/ Aborted(p) \/ Succeed(p) \/ VerifyMismatch(p)
  PROVE  PlaceInv'
<1>1. PICK s \in States : End(p, s)
  BY DEF Refuse, Aborted, Succeed, VerifyMismatch, States
<1>2. UNCHANGED <<file, lastaddr, words>> /\ bitfile' \in [Progs -> Images \cup {<<>>}]
  BY DEF Refuse, Aborted, Succeed, VerifyMismatch, PlaceInv, TypeOK
<1> QED BY <1>1, <1>2, EndKeeps

LEMMA PhaseEndsKeeps ==
  ASSUME PlaceInv, NEW p \in Progs, PhaseEnds(p, "Erase", "Program") \/ PhaseEnds(p, "Program", "Verify")
  PROVE  PlaceInv'
<1>1. PICK s \in {"Program", "Verify"} : Phase(p, s)
  BY DEF PhaseEnds
<1>2. pc[p] \in {"Erase", "Program"} /\ UNCHANGED <<bitfile, file, words, unlocked>>
  BY DEF PhaseEnds
<1> QED BY <1>1, <1>2, PhaseKeeps DEF PlaceInv, TypeOK, InPlace, Last

LEMMA RecordsKeep ==
  ASSUME PlaceInv, NEW p \in Progs, Start(p) \/ Abort(p) \/ Show(p) \/ \E im \in Images : Load(p, im)
  PROVE  PlaceInv'
<1> USE DEF PlaceInv, TypeOK, chipVars, recordVars, progVars
<1>1. TypeOK'
  <2>1. CASE Start(p)
    BY <2>1 DEF Start, Goto, Points
  <2>2. CASE Abort(p)
    BY <2>2 DEF Abort
  <2>3. CASE Show(p)
    BY <2>3 DEF Show
  <2>4. CASE \E im \in Images : Load(p, im)
    BY <2>4 DEF Load
  <2> QED BY <2>1, <2>2, <2>3, <2>4
<1>2. \A q \in Progs : InPlace(q)'
  BY DEF Start, Abort, Show, Load, Goto, PlaceInv, TypeOK, chipVars, recordVars, progVars, InPlace, Last, Running
<1>3. LockedAtRest'
  BY DEF Start, Abort, Show, Load, Goto, PlaceInv, TypeOK, chipVars, recordVars, progVars, LockedAtRest, Running
<1> QED BY <1>1, <1>2, <1>3 DEF PlaceInv

LEMMA NextKeeps ==
  ASSUME PlaceInv, [Next]_vars
  PROVE  PlaceInv'
<1>1. CASE UNCHANGED vars
  BY <1>1 DEF vars, PlaceInv, TypeOK, LockedAtRest, Running, InPlace, Last
<1>2. ASSUME NEW p \in Progs, Worker(p)
      PROVE  PlaceInv'
  BY <1>2, BeginKeeps, CommandsKeep, EraseWaitsKeep, ProgramWaitsKeep, ProgramFillKeeps, VerifyWordKeeps,
     EndsKeep, PhaseEndsKeeps DEF Worker
<1> QED BY <1>1, <1>2, ChipKeeps, RecordsKeep DEF Next

\* In every reachable state.
LEMMA PlacesAlways == Spec => []PlaceInv
<1>1. PlaceInv /\ [Next]_vars => PlaceInv'
  BY NextKeeps
<1> QED BY <1>1, InitHolds, PTL DEF Spec

\* An abort is never left over for a later run: a run that ends takes it along.
THEOREM NoAbortIsLeft == Spec => []NoStaleAbort
<1>1. Init => NoStaleAbort
  BY DEF Init, NoStaleAbort
<1>2. PlaceInv /\ NoStaleAbort /\ [Next]_vars => NoStaleAbort'
  <2> SUFFICES ASSUME PlaceInv, NoStaleAbort, [Next]_vars PROVE NoStaleAbort'
    OBVIOUS
  <2> USE DEF PlaceInv, TypeOK, NoStaleAbort, Running
  <2>1. CASE UNCHANGED vars \/ Chip
    BY <2>1 DEF vars, Chip, progVars
  <2>2. ASSUME NEW p \in Progs, Start(p) \/ Abort(p) \/ Show(p) \/ \E im \in Images : Load(p, im)
        PROVE  NoStaleAbort'
    BY <2>2 DEF Start, Abort, Show, Load, Goto, progVars
  <2>3. ASSUME NEW p \in Progs, Worker(p)
        PROVE  NoStaleAbort'
    <3>1. \/ \E at \in Points \ {"none"} : Goto(p, at) /\ UNCHANGED abort
          \/ Goto(p, "none") /\ abort' = [abort EXCEPT ![p] = FALSE]
      BY <2>3 DEF Worker, Refuse, Begin, Aborted, Succeed, EraseEnable, EraseWait, EraseCommand, EraseDone,
         ProgramEnable, ProgramFill, ProgramWait, ProgramCommand, ProgramDone, VerifyWait, VerifyCommand,
         VerifyWord, VerifyMismatch, PhaseEnds, Phase, End, Command, Wait, Points
    <3> QED BY <3>1 DEF Goto
  <2> QED BY <2>1, <2>2, <2>3 DEF Next
<1> QED BY <1>1, <1>2, PlacesAlways, PTL DEF Spec

\* A command that a run sends is for an address in an erase block of its image.
LEMMA CommandsStay ==
  ASSUME PlaceInv, [Next]_vars, engine' # engine, engine'.op \notin {"none", "enable"}
  PROVE  \E p \in Progs : Running(p) /\ engine'.addr \in Blocks(p) /\ engine'.addr < Reach
<1>1. ~Chip
  BY DEF Chip, ChipEnables, ChipErases, ChipPrograms, ChipReads, Executes, Ready
<1>2. PICK p \in Progs : EraseEnable(p) \/ EraseCommand(p) \/ ProgramEnable(p) \/ ProgramCommand(p) \/ VerifyCommand(p)
  BY <1>1 DEF Next, vars, Start, Abort, Show, Load, Worker, Refuse, Begin, Aborted, Succeed, EraseWait,
     EraseDone, ProgramFill, ProgramWait, ProgramDone, VerifyWait, VerifyWord, VerifyMismatch, PhaseEnds,
     Phase, End, Wait, chipVars
<1>3. engine'.addr = lastaddr[p]
  BY <1>2 DEF EraseEnable, EraseCommand, ProgramEnable, ProgramCommand, VerifyCommand, Command, Send
<1>4. /\ Running(p) /\ lastaddr[p] \in Addrs /\ Offset[p] <= lastaddr[p] /\ lastaddr[p] < Last(p)
      /\ lastaddr[p] < Reach
  BY <1>2, CommandPlace
<1>5. lastaddr[p] - Offset[p] + 1 \in 1 .. Len(file[p])
      /\ Offset[p] + (lastaddr[p] - Offset[p] + 1) - 1 = lastaddr[p]
  <2>1. lastaddr[p] \in Nat /\ Offset[p] \in Nat /\ Len(file[p]) \in Nat
    BY PlaceKnown DEF Placed
  <2> QED BY <1>4, <2>1 DEF Last
<1>6. lastaddr[p] \in Blocks(p)
  BY <1>4, <1>5 DEF Blocks
<1> QED BY <1>3, <1>4, <1>6

\* Whatever programmers share the chip, and whenever they are aborted, nothing
\* outside of the erase blocks of a running programmer's image is touched, and
\* no address is cut off.
THEOREM InRange == Spec => CommandsInRange
<1>1. PlaceInv /\ [Next]_vars =>
        [engine' # engine /\ engine'.op \notin {"none", "enable"} =>
           \E p \in Progs : Running(p) /\ engine'.addr \in Blocks(p) /\ engine'.addr < Reach]_vars
  BY CommandsStay
<1> QED BY <1>1, PlacesAlways, PTL DEF Spec, CommandsInRange

-----------------------------------------------------------------------------
(* A chip with one programmer                                              *)

Verifying == {"Verify", "asked", "answered"}

\* The chip carries out what it was told, which is to read or nothing.
LEMMA ChipVerifies ==
  ASSUME PlaceInv, NEW p \in Progs, VerifyInv(p), Chip
  PROVE  VerifyInv(p)'
<1>1. UNCHANGED <<pc, abort, lastaddr, file, state>> /\ engine # Ready
  BY DEF Chip, progVars, ChipEnables, ChipErases, ChipPrograms, ChipReads, Executes, Ready
<1>2. CASE ~abort[p] /\ pc[p] = "asked"
  <2>1. engine = [op |-> "read", addr |-> lastaddr[p]]
    BY <1>1, <1>2 DEF VerifyInv
  <2>2. ChipReads
    BY <2>1 DEF Chip, ChipEnables, ChipErases, ChipPrograms, Executes
  <2>3. flash' = flash /\ engine' = Ready /\ rdata' = flash[lastaddr[p]]
    BY <2>1, <2>2 DEF ChipReads, Executes
  <2> QED BY <1>1, <1>2, <2>3 DEF VerifyInv
<1>3. CASE abort[p] \/ pc[p] # "asked"
  BY <1>1, <1>3 DEF VerifyInv
<1> QED BY <1>2, <1>3

\* The phases before the last, and the ends of a run.
LEMMA EarlierPhases ==
  ASSUME PlaceInv, NEW p \in Progs, VerifyInv(p),
         \/ Refuse(p) \/ Begin(p) \/ Aborted(p) \/ Succeed(p) \/ VerifyMismatch(p)
         \/ EraseEnable(p) \/ EraseWait(p) \/ EraseCommand(p) \/ EraseDone(p)
         \/ ProgramEnable(p) \/ ProgramFill(p) \/ ProgramWait(p) \/ ProgramCommand(p) \/ ProgramDone(p)
         \/ PhaseEnds(p, "Erase", "Program")
  PROVE  VerifyInv(p)'
<1>0. /\ pc \in [Progs -> Points] /\ lastaddr \in [Progs -> 0 .. Capacity] /\ Offset[p] \in Nat
      /\ file \in [Progs -> Seq(Words)] /\ bitfile \in [Progs -> Images \cup {<<>>}]
  BY OffsetAssumption DEF PlaceInv, TypeOK
<1>1. CASE Refuse(p) \/ Aborted(p) \/ Succeed(p) \/ VerifyMismatch(p)
  <2>1. pc'[p] = "none"
    BY <1>0, <1>1 DEF Refuse, Aborted, Succeed, VerifyMismatch, End, Goto
  <2> QED BY <2>1 DEF VerifyInv
<1>2. CASE Begin(p)
  <2>1. pc'[p] = "Erase" /\ file'[p] = Padded(bitfile[p]) /\ bitfile[p] \in Images
    BY <1>0, <1>2 DEF Begin, Phase, Goto, Accepts
  <2>2. Len(bitfile[p]) \in Nat \ {0}
    BY <2>1, ImagesAssumption
  <2>3. Len(Padded(bitfile[p])) >= Len(bitfile[p])
    BY <2>1, <2>2, PaddedType, RoundedUp
  <2>4. file'[p] # <<>>
    BY <2>1, <2>2, <2>3
  <2> QED BY <2>1, <2>4 DEF VerifyInv
<1>3. CASE \/ EraseEnable(p) \/ EraseWait(p) \/ EraseCommand(p) \/ EraseDone(p)
           \/ ProgramEnable(p) \/ ProgramFill(p) \/ ProgramWait(p) \/ ProgramCommand(p)
  <2>1. /\ pc'[p] \in Points \ (Verifying \cup {"none", "start", "Program"})
        /\ pc[p] \notin {"none", "start"} /\ file' = file
    BY <1>0, <1>3 DEF EraseEnable, EraseWait, EraseCommand, EraseDone, ProgramEnable, ProgramFill, ProgramWait,
       ProgramCommand, Command, Wait, Goto, Points, Verifying
  <2> QED BY <2>1 DEF VerifyInv, Verifying
<1>4. CASE ProgramDone(p)
  <2>1. /\ pc[p] = "programmed" /\ pc'[p] = "Program" /\ UNCHANGED <<file, abort, engine>>
        /\ ~abort[p] => engine = Ready
    BY <1>0, <1>4 DEF ProgramDone, Wait, Waited, Goto, chipVars
  <2> QED BY <2>1 DEF VerifyInv
<1>5. CASE PhaseEnds(p, "Erase", "Program")
  <2>1. pc[p] = "Erase" /\ pc'[p] = "Program" /\ file' = file /\ lastaddr'[p] = Offset[p]
    BY <1>0, <1>5 DEF PhaseEnds, Phase, Goto
  <2>2. ~(lastaddr'[p] > Offset[p])
    BY <1>0, <2>1
  <2> QED BY <2>1, <2>2 DEF VerifyInv
<1> QED BY <1>1, <1>2, <1>3, <1>4, <1>5

\* The last phase: the engine is ready before it begins.
LEMMA LastPhase ==
  ASSUME PlaceInv, NEW p \in Progs, VerifyInv(p),
         PhaseEnds(p, "Program", "Verify") \/ VerifyCommand(p) \/ VerifyWait(p) \/ VerifyWord(p)
  PROVE  VerifyInv(p)'
<1>0. /\ pc \in [Progs -> Points] /\ state \in [Progs -> States] /\ lastaddr \in [Progs -> 0 .. Capacity]
      /\ lastaddr[p] \in Nat /\ Offset[p] \in Nat /\ Len(file[p]) \in Nat /\ Placed(p) /\ file[p] \in Seq(Words)
  BY PlaceKnown DEF PlaceInv, TypeOK, Placed
<1>1. CASE PhaseEnds(p, "Program", "Verify")
  <2>1. /\ pc[p] = "Program" /\ pc'[p] = "Verify" /\ state'[p] = "Verify" /\ lastaddr'[p] = Offset[p]
        /\ UNCHANGED <<file, engine, rdata, flash, abort>> /\ ~abort[p] /\ ~More(p)
    BY <1>0, <1>1 DEF PhaseEnds, Phase, Goto
  <2>2. file[p] # <<>>
    BY <2>1 DEF VerifyInv
  <2>3. Len(file[p]) # 0
    BY <1>0, <2>2
  <2>4. lastaddr[p] > Offset[p]
    BY <1>0, <2>1, <2>3 DEF More, Last
  <2>5. engine = Ready
    BY <2>1, <2>4 DEF VerifyInv
  <2>6. 1 .. lastaddr'[p] - Offset[p] = {}
    BY <1>0, <2>1
  <2> QED BY <2>1, <2>2, <2>5, <2>6 DEF VerifyInv
<1>2. CASE VerifyCommand(p)
  <2>1. /\ pc[p] = "Verify" /\ pc'[p] = "asked" /\ Send("read", lastaddr[p])
        /\ UNCHANGED <<file, lastaddr, state, abort, rdata, flash>>
    BY <1>0, <1>2 DEF VerifyCommand, Command, Goto
  <2>2. ~abort[p] => engine' = [op |-> "read", addr |-> lastaddr[p]]
    BY <2>1 DEF VerifyInv, Send
  <2> QED BY <2>1, <2>2 DEF VerifyInv
<1>3. CASE VerifyWait(p)
  <2>1. /\ pc[p] = "asked" /\ pc'[p] = "answered" /\ lastaddr'[p] = lastaddr[p]
        /\ UNCHANGED <<file, state, abort, engine, rdata, flash>>
        /\ ~abort[p] => engine = Ready
    BY <1>0, <1>3 DEF VerifyWait, Wait, Waited, Goto, chipVars
  <2>2. ~abort[p] => rdata = flash[lastaddr[p]]
    <3>1. [op |-> "read", addr |-> lastaddr[p]] # Ready
      BY DEF Ready
    <3> QED BY <2>1, <3>1 DEF VerifyInv
  <2> QED BY <2>1, <2>2 DEF VerifyInv
<1>4. CASE VerifyWord(p)
  <2>1. /\ pc[p] = "answered" /\ pc'[p] = "Verify" /\ lastaddr'[p] = lastaddr[p] + 1
        /\ UNCHANGED <<file, state, abort, engine, rdata, flash>>
        /\ rdata = file[p][lastaddr[p] - Offset[p] + 1]
    BY <1>0, <1>4 DEF VerifyWord, Goto, Matches, chipVars
  <2>2. ASSUME ~abort[p], NEW i \in 1 .. lastaddr'[p] - Offset[p]
        PROVE  flash'[Offset[p] + i - 1] = file'[p][i]
    <3>0. Offset[p] <= lastaddr[p]
      BY <2>1 DEF PlaceInv, InPlace
    <3>1. CASE i \in 1 .. lastaddr[p] - Offset[p]
      BY <2>1, <2>2, <3>1 DEF VerifyInv
    <3>2. CASE i \notin 1 .. lastaddr[p] - Offset[p]
      <4>1. i = lastaddr[p] - Offset[p] + 1 /\ Offset[p] + i - 1 = lastaddr[p]
        <5>1. \A a, o \in Nat : \A j \in 1 .. a + 1 - o :
                o <= a /\ j \notin 1 .. a - o => j = a - o + 1 /\ o + j - 1 = a
          OBVIOUS
        <5>2. i \in 1 .. lastaddr[p] + 1 - Offset[p]
          BY <1>0, <2>1, <2>2
        <5> QED BY <1>0, <3>0, <3>2, <5>1, <5>2
      <4>2. rdata = flash[lastaddr[p]]
        BY <2>1, <2>2 DEF VerifyInv
      <4> QED BY <2>1, <4>1, <4>2
    <3> QED BY <3>1, <3>2
  <2> QED BY <2>1, <2>2 DEF VerifyInv
<1> QED BY <1>1, <1>2, <1>3, <1>4

LEMMA VerifyKeeps ==
  ASSUME OneProgrammer, PlaceInv, NEW p \in Progs, VerifyInv(p), [Next]_vars
  PROVE  VerifyInv(p)'
<1>1. CASE UNCHANGED vars
  BY <1>1 DEF vars, VerifyInv
<1>2. CASE Start(p) \/ Abort(p) \/ Show(p) \/ \E im \in Images : Load(p, im)
  <2>0. pc \in [Progs -> Points] /\ abort \in [Progs -> BOOLEAN]
    BY DEF PlaceInv, TypeOK
  <2>1. CASE Start(p)
    BY <2>0, <2>1 DEF Start, Goto, VerifyInv
  <2>2. CASE Abort(p)
    BY <2>0, <2>2 DEF Abort, VerifyInv
  <2>3. CASE Show(p) \/ \E im \in Images : Load(p, im)
    BY <2>3 DEF Show, Load, progVars, chipVars, VerifyInv
  <2> QED BY <1>2, <2>1, <2>2, <2>3
<1>3. CASE Worker(p)
  BY <1>3, EarlierPhases, LastPhase DEF Worker
<1>4. CASE Chip
  BY <1>4, ChipVerifies
<1> QED BY <1>1, <1>2, <1>3, <1>4 DEF Next, OneProgrammer

\* Every variable keeps its type, the chip is locked when no run is going on, a
\* run is within its image whenever it commands the chip, and the run of a single
\* programmer finds the chip ready when it verifies.
THEOREM Inductive == Spec => []IInv
<1>1. CASE ~OneProgrammer
  <2>1. PlaceInv => IInv
    BY <1>1 DEF IInv
  <2> QED BY <2>1, PlacesAlways, PTL
<1>2. CASE OneProgrammer
  <2>1. Init => \A p \in Progs : VerifyInv(p)
    BY DEF Init, VerifyInv
  <2>2. PlaceInv /\ (\A p \in Progs : VerifyInv(p)) /\ [Next]_vars => (\A p \in Progs : VerifyInv(p))'
    BY <1>2, VerifyKeeps
  <2>3. PlaceInv /\ (\A p \in Progs : VerifyInv(p)) => IInv
    BY DEF IInv
  <2> QED BY <2>1, <2>2, <2>3, PlacesAlways, PTL DEF Spec
<1> QED BY <1>1, <1>2

\* flashProg::run(): on a chip with one programmer, a run that ends in success
\* has put the image it began with into the chip, whatever was aborted, loaded
\* or failed before, and although an aborted run may leave a command behind.
THEOREM Written ==
  ASSUME OneProgrammer
  PROVE  Spec => SuccessIsProgrammed
<1>1. IInv /\ [Next]_vars =>
        [\A p \in Progs :
           pc[p] = "Verify" /\ state'[p] = "Success" =>
             \A i \in 1 .. Len(file[p]) : flash'[Offset[p] + i - 1] = file[p][i]]_vars
  <2> SUFFICES ASSUME IInv, Next, NEW p \in Progs, pc[p] = "Verify", state'[p] = "Success",
                      NEW i \in 1 .. Len(file[p])
               PROVE  flash'[Offset[p] + i - 1] = file[p][i]
    OBVIOUS
  <2>1. /\ state[p] = "Verify" /\ state \in [Progs -> States] /\ pc \in [Progs -> Points]
        /\ lastaddr[p] \in Nat /\ Offset[p] \in Nat /\ Len(file[p]) \in Nat
    BY PlaceKnown DEF IInv, VerifyInv, PlaceInv, TypeOK, Placed
  <2>2. ~Chip /\ Worker(p)
    BY <2>1 DEF Next, OneProgrammer, Chip, Start, Abort, Show, Load, progVars
  <2>3. Succeed(p)
    BY <2>1, <2>2 DEF Worker, Refuse, Begin, Aborted, EraseEnable, EraseWait, EraseCommand, EraseDone,
       ProgramEnable, ProgramFill, ProgramWait, ProgramCommand, ProgramDone, VerifyWait, VerifyCommand,
       VerifyWord, VerifyMismatch, PhaseEnds, Phase, End, Command, Wait
  <2>4. ~abort[p] /\ ~(lastaddr[p] < Last(p)) /\ flash' = flash
    BY <2>3 DEF Succeed, More, End
  <2>5. i \in 1 .. lastaddr[p] - Offset[p]
    BY <2>1, <2>4 DEF Last
  <2>6. \A j \in 1 .. lastaddr[p] - Offset[p] : flash[Offset[p] + j - 1] = file[p][j]
    BY <2>4 DEF IInv, VerifyInv
  <2> QED BY <2>4, <2>5, <2>6
<1> QED BY <1>1, Inductive, PTL DEF Spec, SuccessIsProgrammed
=============================================================================
