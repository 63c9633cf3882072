----------------------------- MODULE FribFlash ------------------------------
(***************************************************************************)
(* The "Explore FRIB Flash" device support,                                *)
(* exploreApp/src/devexplore_frib.cpp: a worker thread writes an image     *)
(* into a flash chip behind an SPI engine on a PCI card.                   *)
(*                                                                         *)
(* A programmer is one struct flashProg.  Records load its image, start    *)
(* and abort its worker and show its state; they and the worker exclude    *)
(* each other with flashProg::lock, and each critical section is one step. *)
(* The worker talks to the card without the lock, one register access per  *)
(* step.  Programmers that write to different places of one chip share its *)
(* registers, and nothing makes them take turns.                           *)
(*                                                                         *)
(* Addresses count 32 bit words.                                           *)
(***************************************************************************)
EXTENDS Integers, Sequences

CONSTANTS
  Progs,     \* the programmers of one card
  Offset,    \* Offset[p]: flash_offset
  Capacity,  \* flash_size
  Reach,     \* addresses that fit into a command: 24 bits
  EraseLen,  \* length of an erase block: 64k bytes
  BlockLen,  \* length of a program block: 16 bytes
  Images,    \* the images that may be loaded, sequences of words
  Zero,      \* the word 0, which images are padded with
  Blank,     \* an erased word
  Garbage    \* a word that was programmed twice

Addrs == 0 .. Capacity - 1
Words == {Zero, Blank, Garbage} \cup UNION {{im[i] : i \in 1 .. Len(im)} : im \in Images}

ASSUME LengthsAssumption ==
  /\ EraseLen \in Nat \ {0} /\ BlockLen \in Nat \ {0} /\ Capacity \in Nat \ {0}
  /\ EraseLen % BlockLen = 0 /\ Capacity % EraseLen = 0
ASSUME OffsetAssumption == Offset \in [Progs -> Nat]
ASSUME ReachAssumption == Reach \in Nat
ASSUME ImagesAssumption == Images \subseteq Seq(Words) \ {<<>>}

VARIABLES
  bitfile,   \* the image that the next run will write, or <<>>
  file,      \* the image of the run, padded
  lastaddr,  \* the run has come to this address
  state,     \* flashProg::state
  abort,     \* flashProg::abort
  pc,        \* where the worker is; "none" if flashProg::worker is null
  words,     \* how many words of a block are in the FIFO
  engine,    \* the command that the SPI engine executes
  unlocked,  \* REG_LOCKOUT: write commands are accepted
  latch,     \* the chip's write enable latch
  fifo,      \* REG_WDATA, the newest word first
  rdata,     \* REG_RDATA
  flash,     \* the contents of the chip
  request,   \* the status record is to be processed
  shown      \* the status record's value

progVars == <<bitfile, file, lastaddr, state, abort, pc, words>>
chipVars == <<engine, unlocked, latch, fifo, rdata, flash>>
recordVars == <<request, shown>>
vars == <<bitfile, file, lastaddr, state, abort, pc, words, engine, unlocked, latch, fifo,
          rdata, flash, request, shown>>

States == {"Idle", "Erase", "Program", "Verify", "Success", "Fail"}
Points == {"none", "start", "Erase", "enabled", "erase", "erased", "Program", "fifo",
           "filled", "program", "programmed", "Verify", "asked", "answered"}

Running(p) == pc[p] # "none"
Goto(p, point) == pc' = [pc EXCEPT ![p] = point]

-----------------------------------------------------------------------------
(* The card, external.                                                     *)

Ready == [op |-> "none", addr |-> 0]

\* A write to REG_CMDADDR: write commands are ignored while they are locked, and
\* what becomes of a command that comes while the engine is busy is not said.
\* The address of a write enable is 0, and nothing looks at it.
Send(op, a) ==
  LET accepted == op = "read" \/ unlocked IN
  \/ ~accepted /\ UNCHANGED engine
  \/ accepted /\ engine' = [op |-> op, addr |-> IF op = "enable" THEN 0 ELSE a]
  \/ accepted /\ engine # Ready /\ UNCHANGED engine

Push(w) == fifo' = SubSeq(<<w>> \o fifo, 1, IF Len(fifo) < BlockLen THEN Len(fifo) + 1 ELSE BlockLen)

\* Programming only clears bits.
Overwritten(old, new) == IF old \in {Blank, new} THEN new ELSE Garbage

Erased(a) == [x \in Addrs |-> IF x \in a .. a + EraseLen - 1 THEN Blank ELSE flash[x]]
Programmed(a) == [x \in Addrs |->
  IF x \in a .. a + Len(fifo) - 1 THEN Overwritten(flash[x], fifo[x - a + 1]) ELSE flash[x]]

\* The engine carries out its command; erasing and programming can fail.
Executes(op, next, enabled) ==
  /\ engine.op = op
  /\ engine' = Ready
  /\ flash' \in IF latch THEN {flash, next} ELSE {flash}
  /\ latch' = enabled
  /\ UNCHANGED <<unlocked, fifo>>

ChipEnables == Executes("enable", flash, TRUE) /\ UNCHANGED rdata
ChipErases == Executes("erase", Erased(engine.addr), FALSE) /\ UNCHANGED rdata
ChipPrograms == Executes("program", Programmed(engine.addr), FALSE) /\ UNCHANGED rdata
ChipReads == Executes("read", flash, latch) /\ rdata' = flash[engine.addr]

Chip ==
  /\ ChipEnables \/ ChipErases \/ ChipPrograms \/ ChipReads
  /\ UNCHANGED <<progVars, recordVars>>

-----------------------------------------------------------------------------
(* The records                                                             *)

Load(p, im) ==
  /\ bitfile' = [bitfile EXCEPT ![p] = im]
  /\ UNCHANGED <<file, lastaddr, state, abort, pc, words, chipVars, recordVars>>

\* A value other than 0 starts a worker if there is none.
Start(p) ==
  /\ ~Running(p)
  /\ Goto(p, "start")
  /\ UNCHANGED <<bitfile, file, lastaddr, state, abort, words, chipVars, recordVars>>

\* 0 asks the worker to stop, if there is one.
Abort(p) ==
  /\ Running(p)
  /\ abort' = [abort EXCEPT ![p] = TRUE]
  /\ UNCHANGED <<bitfile, file, lastaddr, state, pc, words, chipVars, recordVars>>

\* status_mbbi(), processed because of scanIoRequest().
Show(p) ==
  /\ request[p]
  /\ request' = [request EXCEPT ![p] = FALSE]
  /\ shown' = [shown EXCEPT ![p] = state[p]]
  /\ UNCHANGED <<progVars, chipVars>>

-----------------------------------------------------------------------------
(* flashProg::run                                                          *)

RoundUp(n) == ((n + BlockLen - 1) \div BlockLen) * BlockLen
Padded(im) == [i \in 1 .. RoundUp(Len(im)) |-> IF i <= Len(im) THEN im[i] ELSE Zero]
Last(p) == Offset[p] + Len(file[p])

\* The checks of the image and the offset.
Accepts(p) ==
  /\ bitfile[p] # <<>>
  /\ Len(bitfile[p]) + Offset[p] <= Capacity
  /\ Offset[p] % EraseLen = 0
  /\ Offset[p] < Reach /\ Capacity <= Reach

\* Mutant: the write logic stays unlocked.
EndUnlocked(p, s) ==
  /\ state' = [state EXCEPT ![p] = s]
  /\ UNCHANGED unlocked
  /\ request' = [request EXCEPT ![p] = TRUE]
  /\ abort' = [abort EXCEPT ![p] = FALSE]
  /\ Goto(p, "none")
  /\ UNCHANGED <<shown, engine, latch, fifo, rdata, flash>>

\* Mutant: the abort flag is not reset.
EndKeepsAbort(p, s) ==
  /\ state' = [state EXCEPT ![p] = s]
  /\ unlocked' = FALSE
  /\ request' = [request EXCEPT ![p] = TRUE]
  /\ abort' = abort
  /\ Goto(p, "none")
  /\ UNCHANGED <<shown, engine, latch, fifo, rdata, flash>>

\* The end of a run, under the lock from the last test to the end.
End(p, s) ==
  /\ state' = [state EXCEPT ![p] = s]
  /\ unlocked' = FALSE
  /\ request' = [request EXCEPT ![p] = TRUE]
  /\ abort' = [abort EXCEPT ![p] = FALSE]
  /\ Goto(p, "none")
  /\ UNCHANGED <<shown, engine, latch, fifo, rdata, flash>>

\* A new phase of the run begins at the offset.
Phase(p, s) ==
  /\ state' = [state EXCEPT ![p] = s]
  /\ request' = [request EXCEPT ![p] = TRUE]
  /\ lastaddr' = [lastaddr EXCEPT ![p] = Offset[p]]
  /\ Goto(p, s)
  /\ UNCHANGED <<abort, shown, engine, latch, fifo, rdata, flash>>

\* The image is refused and stays, or is taken and the card has gone.
Refuse(p) ==
  /\ pc[p] = "start"
  /\ \/ ~Accepts(p) /\ UNCHANGED bitfile
     \/ Accepts(p) /\ bitfile' = [bitfile EXCEPT ![p] = <<>>]
  /\ End(p, "Fail")
  /\ UNCHANGED <<file, lastaddr, words>>

\* Take the image and unlock the write logic.
Begin(p) ==
  /\ pc[p] = "start"
  /\ Accepts(p)
  /\ bitfile' = [bitfile EXCEPT ![p] = <<>>]
  /\ file' = [file EXCEPT ![p] = Padded(bitfile[p])]
  /\ unlocked' = TRUE
  /\ Phase(p, "Erase")
  /\ UNCHANGED words

\* Mutant: one step too many.
MoreThanAll(p) == lastaddr[p] <= Last(p) /\ ~abort[p]

\* The condition of the three loops.
More(p) == lastaddr[p] < Last(p) /\ ~abort[p]

\* Mutant: an abort does not end the wait.
WaitedForReady(p) == engine = Ready

\* wait_for_ready() returns.
Waited(p) == engine = Ready \/ abort[p]

Command(p, op, next) ==
  /\ Send(op, lastaddr[p])
  /\ Goto(p, next)
  /\ UNCHANGED <<bitfile, file, lastaddr, state, abort, words, unlocked, latch, fifo, rdata,
                 flash, recordVars>>

Wait(p, next, step) ==
  /\ Waited(p)
  /\ Goto(p, next)
  /\ lastaddr' = [lastaddr EXCEPT ![p] = @ + step]
  /\ UNCHANGED <<bitfile, file, state, abort, words, chipVars, recordVars>>

EraseEnable(p) == pc[p] = "Erase" /\ More(p) /\ Command(p, "enable", "enabled")
EraseWait(p) == pc[p] = "enabled" /\ Wait(p, "erase", 0)
EraseCommand(p) == pc[p] = "erase" /\ Command(p, "erase", "erased")
EraseDone(p) == pc[p] = "erased" /\ Wait(p, "Erase", EraseLen)

ProgramEnable(p) ==
  pc[p] = "Program" /\ More(p) /\ Command(p, "enable", "fifo")

\* The words of a block go to the FIFO from the last to the first.
ProgramFill(p) ==
  /\ pc[p] = "fifo"
  /\ Push(file[p][lastaddr[p] - Offset[p] + BlockLen - words[p]])
  /\ words' = [words EXCEPT ![p] = (@ + 1) % BlockLen]
  /\ Goto(p, IF words[p] + 1 = BlockLen THEN "filled" ELSE "fifo")
  /\ UNCHANGED <<bitfile, file, lastaddr, state, abort, engine, unlocked, latch, rdata,
                 flash, recordVars>>

ProgramWait(p) == pc[p] = "filled" /\ Wait(p, "program", 0)
ProgramCommand(p) == pc[p] = "program" /\ Command(p, "program", "programmed")
ProgramDone(p) == pc[p] = "programmed" /\ Wait(p, "Program", BlockLen)

VerifyCommand(p) == pc[p] = "Verify" /\ More(p) /\ Command(p, "read", "asked")
VerifyWait(p) == pc[p] = "asked" /\ Wait(p, "answered", 0)

\* Mutant: the word is not compared.
MatchesAnyway(p) == TRUE

Matches(p) == rdata = file[p][lastaddr[p] - Offset[p] + 1]

VerifyWord(p) ==
  /\ pc[p] = "answered" /\ Matches(p)
  /\ lastaddr' = [lastaddr EXCEPT ![p] = @ + 1]
  /\ Goto(p, "Verify")
  /\ UNCHANGED <<bitfile, file, state, abort, words, chipVars, recordVars>>

VerifyMismatch(p) ==
  /\ pc[p] = "answered" /\ ~Matches(p)
  /\ End(p, "Fail")
  /\ UNCHANGED <<bitfile, file, lastaddr, words>>

\* A loop is over: take the lock, stop if asked to, or go on.
PhaseEnds(p, s, next) ==
  /\ pc[p] = s /\ ~More(p) /\ ~abort[p]
  /\ Phase(p, next)
  /\ UNCHANGED <<bitfile, file, words, unlocked>>

Aborted(p) ==
  /\ pc[p] \in {"Erase", "Program", "Verify"} /\ abort[p]
  /\ End(p, "Fail")
  /\ UNCHANGED <<bitfile, file, lastaddr, words>>

Succeed(p) ==
  /\ pc[p] = "Verify" /\ ~More(p) /\ ~abort[p]
  /\ End(p, "Success")
  /\ UNCHANGED <<bitfile, file, lastaddr, words>>

\* What the thread of a programmer does.
Worker(p) ==
  \/ Refuse(p)        \/ Begin(p)       \/ Aborted(p)       \/ Succeed(p)
  \/ EraseEnable(p)   \/ EraseWait(p)   \/ EraseCommand(p)  \/ EraseDone(p)
  \/ ProgramEnable(p) \/ ProgramFill(p) \/ ProgramWait(p)   \/ ProgramCommand(p)
  \/ ProgramDone(p)   \/ VerifyWait(p)  \/ VerifyCommand(p) \/ VerifyWord(p)
  \/ VerifyMismatch(p)
  \/ PhaseEnds(p, "Erase", "Program")   \/ PhaseEnds(p, "Program", "Verify")

-----------------------------------------------------------------------------
Init ==
  /\ bitfile = [p \in Progs |-> <<>>]
  /\ file = [p \in Progs |-> <<>>]
  /\ lastaddr = [p \in Progs |-> 0]
  /\ state = [p \in Progs |-> "Idle"]
  /\ abort = [p \in Progs |-> FALSE]
  /\ pc = [p \in Progs |-> "none"]
  /\ words = [p \in Progs |-> 0]
  /\ engine = Ready
  /\ unlocked = FALSE
  /\ latch = FALSE
  /\ fifo = <<>>
  /\ rdata = Garbage
  /\ flash = [a \in Addrs |-> Garbage]
  /\ request = [p \in Progs |-> FALSE]
  /\ shown = [p \in Progs |-> "Idle"]

Next ==
  \/ \E p \in Progs : Start(p) \/ Abort(p) \/ Show(p) \/ Worker(p)
  \/ \E p \in Progs, im \in Images : Load(p, im)
  \/ Chip

\* The worker's thread and the record's scan are carried out.  Nothing is said
\* of the card: it may be busy for ever.
Spec ==
  /\ Init /\ [][Next]_vars
  /\ \A p \in Progs : WF_vars(Worker(p)) /\ WF_vars(Show(p))

-----------------------------------------------------------------------------
(* Properties                                                              *)

TypeOK ==
  /\ bitfile \in [Progs -> Images \cup {<<>>}]
  /\ file \in [Progs -> Seq(Words)]
  /\ lastaddr \in [Progs -> 0 .. Capacity]
  /\ state \in [Progs -> States]
  /\ abort \in [Progs -> BOOLEAN]
  /\ pc \in [Progs -> Points]
  /\ words \in [Progs -> 0 .. BlockLen - 1]
  /\ engine \in [op : {"none", "enable", "erase", "program", "read"}, addr : Addrs]
  /\ unlocked \in BOOLEAN
  /\ latch \in BOOLEAN
  /\ fifo \in Seq(Words) /\ Len(fifo) <= BlockLen
  /\ rdata \in Words
  /\ flash \in [Addrs -> Words]
  /\ request \in [Progs -> BOOLEAN]
  /\ shown \in [Progs -> States]

\* A run that ends with "Success" has put the image it started with into the
\* chip, whatever was loaded, aborted or failed before and meanwhile.
SuccessIsProgrammed ==
  [][\A p \in Progs :
       pc[p] = "Verify" /\ state'[p] = "Success" =>
         \A i \in 1 .. Len(file[p]) : flash'[Offset[p] + i - 1] = file[p][i]]_vars

\* The chip accepts write commands only while some run is going on.
LockedAtRest == (\A p \in Progs : ~Running(p)) => ~unlocked

\* A run is at a whole erase or program block of its image, and not behind it
\* when it sends a command; what was rounded up still fits into the chip.
InPlace(p) ==
  pc[p] \notin {"none", "start"} =>
    /\ Offset[p] % EraseLen = 0 /\ Len(file[p]) % BlockLen = 0
    /\ Offset[p] <= lastaddr[p] /\ Last(p) <= Capacity /\ Capacity <= Reach
    /\ pc[p] \in {"Erase", "enabled", "erase", "erased"} => lastaddr[p] % EraseLen = 0
    /\ pc[p] \in {"Program", "fifo", "filled", "program", "programmed"} => lastaddr[p] % BlockLen = 0
    /\ pc[p] \notin {"Erase", "Program", "Verify"} => lastaddr[p] < Last(p)

PlaceInv == TypeOK /\ LockedAtRest /\ \A p \in Progs : InPlace(p)

\* The chip of one programmer that is not told to stop is ready when a block was
\* programmed and between the words that are verified, and then holds those
\* that have been compared.  An abort leaves a command behind; it also ends the
\* run.
VerifyInv(p) ==
  /\ pc[p] \notin {"none", "start"} => file[p] # <<>>
  /\ pc[p] \in {"Verify", "asked", "answered"} => state[p] = "Verify"
  /\ ~abort[p] =>
       /\ pc[p] = "Program" /\ lastaddr[p] > Offset[p] => engine = Ready
       /\ pc[p] = "Verify" => engine = Ready
       /\ pc[p] = "asked" => \/ engine = [op |-> "read", addr |-> lastaddr[p]]
                             \/ engine = Ready /\ rdata = flash[lastaddr[p]]
       /\ pc[p] = "answered" => engine = Ready /\ rdata = flash[lastaddr[p]]
       /\ pc[p] \in {"Verify", "asked", "answered"} =>
            \A i \in 1 .. lastaddr[p] - Offset[p] : flash[Offset[p] + i - 1] = file[p][i]

\* Nobody else writes to the chip.
OneProgrammer == \A p, q \in Progs : p = q

\* Where runs are, and what the single programmer of a chip has verified.
IInv == PlaceInv /\ (OneProgrammer => \A p \in Progs : VerifyInv(p))

\* An abort ends the run it was meant for and no later one.
NoStaleAbort == \A p \in Progs : abort[p] => Running(p)

\* The places a run may erase: its image in whole erase blocks.
Blocks(p) ==
  {a \in Addrs : \E i \in 1 .. Len(file[p]) : (Offset[p] + i - 1) \div EraseLen = a \div EraseLen}

\* A run erases, programs and reads nothing outside of its image's blocks, and
\* nothing that a command has no room to address.
CommandsInRange ==
  [][engine' # engine /\ engine'.op \notin {"none", "enable"} =>
       \E p \in Progs : Running(p) /\ engine'.addr \in Blocks(p) /\ engine'.addr < Reach]_vars

\* A run that is told to stop ends, even if the chip is never ready again.
AbortEnds == \A p \in Progs : abort[p] ~> ~Running(p)

=============================================================================
