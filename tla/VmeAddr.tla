------------------------------- MODULE VmeAddr ------------------------------
(***************************************************************************)
(* The bookkeeping of one VME address space in vmeApp/devLibVME.c:         *)
(* devRegisterAddress(), devAllocAddress() and devUnregisterAddress() with *)
(* what they call, devInstallAddr(), blockFind(), devInsertAddress(),      *)
(* devCombineAdjacentBlocks() and addrVerify().                            *)
(*                                                                         *)
(* The free and the allocated ranges are two lists in the order of their   *)
(* addresses, here sets of disjoint ranges.  One driver thread calls at a  *)
(* time, so a call is one step.  Addresses are size_t: their arithmetic    *)
(* is modulo 2^32 or 2^64 (Modulo), whichever the board has.               *)
(***************************************************************************)
EXTENDS Integers, FiniteSets

CONSTANTS
  Owners,     \* the names drivers register under
  Last,       \* addrLast[addrType]
  Modulo,     \* 2^(bits of size_t)
  Devices,    \* addresses at which a board answers devNoResponseProbe()
  Alignments  \* 2^alignment for the values drivers pass

Addrs == 0 .. Last

ASSUME LastAssumption == Last \in Nat
ASSUME ModuloAssumption == Modulo \in Nat /\ Last < Modulo
ASSUME DevicesAssumption == Devices \subseteq Addrs
ASSUME AlignmentsAssumption == \* powers of two that a size_t can hold
  \A align \in Alignments : align \in Nat \ {0} /\ Modulo % align = 0

VARIABLES
  free,    \* addrFree: ranges [begin, end]
  alloc,   \* addrAlloc: ranges [begin, end, owner]
  asked,   \* the last call and its arguments; for alloc with the base it found
  result,  \* of the last call; "crash" when it dereferenced a null pointer,
           \* "hang" when it never returned
  lost     \* history: addresses that are on neither list any more

vars == <<free, alloc, asked, result, lost>>

Call(op, o, base, size) == [op |-> op, owner |-> o, base |-> base, size |-> size]

Results == {"success", "badAddr", "overlap", "badArgument", "mapFail", "noMemory",
            "notFound", "notOwner", "doesNotFit", "crash", "hang"}

Span(r) == r.begin .. r.end
Range(begin, end) == [begin |-> begin, end |-> end]

\* The first of some ranges in a list, as a set.
First(ranges) == {r \in ranges : \A q \in ranges : r.begin <= q.begin}

-----------------------------------------------------------------------------
\* addrVerify(): the block lies in the address space.
AddrVerify(base, size) ==
  /\ size # 0 /\ size - 1 <= Last
  /\ base <= Last /\ size - 1 <= Last - base

Fail(r) == result' = r /\ UNCHANGED <<free, alloc, lost>>

\* Mutant: the last address of the block is kept as well.
RemainderOffByOne(r, base, end) ==
  (IF r.begin < base THEN {Range(r.begin, base - 1)} ELSE {})
    \cup (IF end < r.end THEN {Range(end, r.end)} ELSE {})

\* Mutant: what is behind the block is only kept if the block is at the begin.
RemainderLosesEnd(r, base, end) ==
  IF r.begin < base THEN {Range(r.begin, base - 1)}
  ELSE IF end < r.end THEN {Range(end + 1, r.end)} ELSE {}

\* What is left of free range r without base .. end.
Remainder(r, base, end) ==
  (IF r.begin < base THEN {Range(r.begin, base - 1)} ELSE {})
    \cup (IF end < r.end THEN {Range(end + 1, r.end)} ELSE {})

Carve(r, base, end) == free' = (free \ {r}) \cup Remainder(r, base, end)

Allocate(o, base, end) ==
  alloc' = alloc \cup {[begin |-> base, end |-> end, owner |-> o]}

\* devInstallAddr() outside of the free range.
InstallOutside(r, base, end) ==
  /\ base < r.begin \/ end > r.end
  /\ Fail("badArgument")

\* devInstallAddr(): the block becomes o's.
InstallDone(o, r, base, end) ==
  /\ base >= r.begin /\ end <= r.end
  /\ Carve(r, base, end)
  /\ Allocate(o, base, end)
  /\ result' = "success"
  /\ UNCHANGED lost

\* devInstallAddr(): the block cannot be mapped.
InstallNoMap(r, base, end) ==
  /\ base >= r.begin /\ end <= r.end
  /\ Fail("mapFail")

\* devInstallAddr(): no memory for the second half of the free range.
InstallNoSplit(r, base, end) ==
  /\ r.begin < base /\ end < r.end
  /\ Fail("noMemory")

\* devInstallAddr(): no memory for the allocated range; the block is gone.
InstallNoRange(r, base, end) ==
  /\ base >= r.begin /\ end <= r.end
  /\ Carve(r, base, end)
  /\ lost' = lost \cup (base .. end)
  /\ result' = "noMemory"
  /\ UNCHANGED alloc

InstallAddr(o, r, base, size) ==
  LET end == base + (size - 1) IN
  \/ InstallOutside(r, base, end) \/ InstallDone(o, r, base, end)
  \/ InstallNoMap(r, base, end) \/ InstallNoSplit(r, base, end)
  \/ InstallNoRange(r, base, end)

-----------------------------------------------------------------------------
(* devRegisterAddress                                                      *)

\* The free ranges at which the search of the list may stop.
Stops(base, size) == {r \in free : r.begin > base \/ base + (size - 1) <= r.end}

\* The search stops at the first of them; if there is none it runs off the
\* end of the list, and the null pointer there is dereferenced.
RegisterAddress(o, base, size) ==
  LET stops == Stops(base, size) IN
  /\ asked' = Call("register", o, base, size)
  /\ \/ ~AddrVerify(base, size) /\ Fail("badAddr")
     \/ /\ AddrVerify(base, size)
        /\ \/ stops = {} /\ Fail("crash")
           \/ \E r \in First(stops) : r.begin > base /\ Fail("overlap")
           \/ \E r \in First(stops) : r.begin <= base /\ InstallAddr(o, r, base, size)

-----------------------------------------------------------------------------
(* devAllocAddress                                                         *)

\* Rounded up to a multiple of `align`, as a size_t.
RoundUp(size, align) == (((size + align - 1) \div align) * align) % Modulo

Length(r) == (r.end - r.begin + 1) % Modulo

\* Mutant: boards that answer are not looked for.
NoResponseAnywhere(base, size) == TRUE

\* External: devNoResponseProbe() finds no board in the block; a block of
\* size 0 is an error.
NoResponseProbe(base, size) == size > 0 /\ base .. base + size - 1 \cap Devices = {}

\* blockFind() probes r in steps of the rounded size from its begin, which is
\* not rounded.
Candidate(r, size, k) == (r.begin + k * size) % Modulo
Limit(r, size) == (r.end + 1 - size) % Modulo
Reached(r, size, k) == \A j \in 0 .. k : Candidate(r, size, j) <= Limit(r, size)
Probed(r, size, k) == Reached(r, size, k) /\ NoResponseProbe(Candidate(r, size, k), size)

\* The result of blockFind(): the first base that passes.  When the loop is
\* not entered that counts as a success, with the base 0 of the caller.
BlockFind(r, size) ==
  IF Length(r) < size THEN {}
  ELSE {IF Reached(r, size, 0) THEN Candidate(r, size, k) ELSE 0 :
          k \in {k \in Addrs : \/ k = 0 /\ ~Reached(r, size, 0)
                               \/ /\ Probed(r, size, k)
                                  /\ \A j \in 0 .. k - 1 : ~Probed(r, size, j)}}

\* blockFind() does not return: the candidates repeat, and none passes.
Endless(r, size) ==
  /\ Length(r) >= size
  /\ Reached(r, size, Last)
  /\ \A k \in Addrs : ~Probed(r, size, k)

AllocAddress(o, size, align) ==
  LET rounded == RoundUp(size, align)
      stops == {r \in free : /\ Length(r) >= size
                             /\ BlockFind(r, rounded) # {} \/ Endless(r, rounded)}
      Asked(base) == asked' = Call("alloc", o, base, size)
  IN \/ ~AddrVerify(0, size) /\ Fail("badAddr") /\ Asked(0)
     \/ AddrVerify(0, size) /\ stops = {} /\ Fail("doesNotFit") /\ Asked(0)
     \/ AddrVerify(0, size) /\ \E r \in First(stops) :
          \/ Endless(r, rounded) /\ Fail("hang") /\ Asked(0)
          \/ \E base \in BlockFind(r, rounded) : InstallAddr(o, r, base, size) /\ Asked(base)

-----------------------------------------------------------------------------
(* devUnregisterAddress                                                    *)

\* Mutant: released blocks are not combined with their neighbours.
InsertOnly(r) == free' = free \cup {Range(r.begin, r.end)}

\* devInsertAddress() and devCombineAdjacentBlocks().
InsertAndCombine(r) ==
  LET adjacent == {q \in free : q.end + 1 = r.begin \/ q.begin = r.end + 1}
      begin == {r.begin} \cup {q.begin : q \in adjacent}
      end   == {r.end} \cup {q.end : q \in adjacent}
  IN \E b \in begin, e \in end :
       /\ \A x \in begin : b <= x
       /\ \A x \in end : x <= e
       /\ free' = (free \ adjacent) \cup {Range(b, e)}

\* strcmp() of the owners' names.
MayRelease(o, r) == r.owner = o

Release(r) ==
  /\ alloc' = alloc \ {r}
  /\ InsertAndCombine(r)
  /\ result' = "success"
  /\ UNCHANGED lost

UnregisterAddress(o, base) ==
  LET found == {r \in alloc : r.begin = base} IN
  /\ asked' = Call("unregister", o, base, 1)
  /\ \/ ~AddrVerify(base, 1) /\ Fail("badAddr")
     \/ AddrVerify(base, 1) /\ found = {} /\ Fail("notFound")
     \/ \E r \in found : ~MayRelease(o, r) /\ Fail("notOwner")
     \/ \E r \in found : MayRelease(o, r) /\ Release(r)

-----------------------------------------------------------------------------
\* devLibInit(): the whole address space is free.
Init ==
  /\ free = {Range(0, Last)}
  /\ alloc = {}
  /\ \E o \in Owners : asked = Call("none", o, 0, 0)
  /\ result = "success"
  /\ lost = {}

Next ==
  /\ result \notin {"crash", "hang"}
  /\ \E o \in Owners :
       \/ \E base \in 0 .. Last + 1, size \in 0 .. Last + 1 : RegisterAddress(o, base, size)
       \/ \E size \in 0 .. Last + 1, align \in Alignments : AllocAddress(o, size, align)
       \/ \E base \in 0 .. Last + 1 : UnregisterAddress(o, base)

Spec == Init /\ [][Next]_vars

-----------------------------------------------------------------------------
(* Properties                                                              *)

TypeOK ==
  /\ free \subseteq [begin : Addrs, end : Addrs]
  /\ alloc \subseteq [begin : Addrs, end : Addrs, owner : Owners]
  /\ asked \in [op : {"none", "register", "alloc", "unregister"}, owner : Owners,
                base : 0 .. Last + 1, size : 0 .. Last + 1]
  /\ result \in Results
  /\ lost \subseteq Addrs

\* Two ranges, free or allocated, never overlap, and none is empty.
Disjoint ==
  /\ \A r \in free \cup alloc : r.begin <= r.end
  /\ \A r, q \in free : r # q => Span(r) \cap Span(q) = {}
  /\ \A r, q \in alloc : r # q => Span(r) \cap Span(q) = {}
  /\ \A r \in free, q \in alloc : Span(r) \cap Span(q) = {}

\* Released blocks grow together: no two free ranges touch, so a block that
\* has been released can be claimed again with its free neighbours.
FreeMerged == \A r, q \in free : r.end + 1 # q.begin

\* No sequence of calls, nor a call that fails in the middle, takes an address
\* out of both lists for good, so a driver that has been unloaded leaves room for
\* the next one; the only exception is the block that devInstallAddr() has cut
\* out of the free list when it finds no memory for the allocated range (365).
AddressesKept == (UNION {Span(r) : r \in free \cup alloc}) \cup lost = Addrs

\* devRegisterAddress() refuses a block as taken only if part of it is not free.
OverlapIsReal == result = "overlap" =>
  ~\E r \in free : asked.base .. asked.base + asked.size - 1 \subseteq Span(r)

\* devAllocAddress() hands out blocks that no board answers in.
AllocUnanswered == asked.op = "alloc" /\ result = "success" =>
  asked.base .. asked.base + asked.size - 1 \cap Devices = {}

\* What a caller is told is true: of a block that is said to be taken, and of
\* one that was found free and silent.
AnswersTrue == OverlapIsReal /\ AllocUnanswered

\* The lists implement the promise: a block stays with the owner who got it.
Space == INSTANCE AddrSpace WITH claims <- alloc

SpaceSpec == Space!Spec

=============================================================================
