--------------------------- MODULE VmeAddrProofs ----------------------------
(***************************************************************************)
(* Theorems about VmeAddr: whatever the calls and however they fail, the   *)
(* ranges of an address space never overlap, no address gets lost, and the *)
(* lists implement AddrSpace.                                              *)
(*                                                                         *)
(* The inductive invariant says it with the ends of the ranges instead of  *)
(* their sets of addresses, so that each step is a matter of arithmetic.   *)
(***************************************************************************)
EXTENDS VmeAddr, TLAPS

Apart(r, q) == r.end < q.begin \/ q.end < r.begin
Holds(r, x) == r.begin <= x /\ x <= r.end

ProperInv == \A r \in free \cup alloc : r.begin <= r.end
FreeApart == \A r, q \in free : r # q => Apart(r, q)
AllocApart == \A r, q \in alloc : r # q => Apart(r, q)
BothApart == \A r \in free, q \in alloc : Apart(r, q)
LostGone == \A r \in free \cup alloc : \A x \in lost : ~Holds(r, x)
Covered == \A x \in Addrs : x \in lost \/ \E r \in free \cup alloc : Holds(r, x)

IInv ==
  /\ TypeOK
  /\ ProperInv /\ FreeApart /\ AllocApart /\ BothApart
  /\ FreeMerged /\ LostGone /\ Covered

-----------------------------------------------------------------------------
(* The base and the end of a block that a call works on.                   *)

\* A number up to the modulus is not made larger.
LEMMA ModBound ==
  ASSUME NEW m \in Nat \ {0}, NEW n \in 0 .. m
  PROVE  n % m \in 0 .. n
<1>1. CASE n = m
  BY <1>1
<1>2. CASE n < m
  <2>1. n % m = n
    BY <1>2
  <2> QED
    BY <2>1
<1> QED
  BY <1>1, <1>2

\* The size that blockFind() works with is a number.
LEMMA RoundUpNat ==
  ASSUME NEW size \in Nat, NEW align \in Alignments
  PROVE  RoundUp(size, align) \in Nat
<1>1. align \in Nat /\ align > 0
  BY AlignmentsAssumption
<1>2. ((size + align - 1) \div align) * align \in Int
  BY <1>1
<1> QED
  BY <1>2, LastAssumption, ModuloAssumption DEF RoundUp

\* blockFind() hands devInstallAddr() no base behind its range, at most one
\* that follows it.
LEMMA BlockFindBound ==
  ASSUME NEW r \in [begin : Addrs, end : Addrs], r.begin <= r.end,
         NEW size \in Nat, NEW base \in BlockFind(r, size)
  PROVE  base \in 0 .. Last + 1
<1>1. \A k \in Nat : Candidate(r, size, k) \in Nat
  <2> TAKE k \in Nat
  <2>1. r.begin + k * size \in Int
    BY DEF Addrs
  <2> QED
    BY <2>1, LastAssumption, ModuloAssumption DEF Candidate
<1>2. Limit(r, size) \in 0 .. Last + 1
  <2>1. r.end - r.begin + 1 \in 0 .. Modulo /\ Modulo \in Nat \ {0}
    BY LastAssumption, ModuloAssumption DEF Addrs
  <2>2. Length(r) \in 0 .. r.end - r.begin + 1
    BY <2>1, ModBound DEF Length
  <2>3. size <= Length(r)
    BY <2>2 DEF BlockFind, Addrs
  <2>4. r.end + 1 - size \in 0 .. Last + 1 /\ r.end + 1 - size \in 0 .. Modulo
    BY <2>2, <2>3, LastAssumption, ModuloAssumption DEF Addrs
  <2>5. (r.end + 1 - size) % Modulo \in 0 .. r.end + 1 - size
    BY <2>1, <2>4, ModBound
  <2> QED
    BY <2>4, <2>5, LastAssumption DEF Limit
<1>3. PICK k \in Addrs :
        /\ base = IF Reached(r, size, 0) THEN Candidate(r, size, k) ELSE 0
        /\ Reached(r, size, 0) => Reached(r, size, k)
  BY DEF BlockFind, Probed
<1>4. CASE Reached(r, size, 0)
  <2>1. Candidate(r, size, k) <= Limit(r, size)
    BY <1>3, <1>4 DEF Reached, Addrs
  <2> QED
    BY <1>1, <1>2, <1>3, <1>4, <2>1, LastAssumption DEF Addrs
<1>5. CASE ~Reached(r, size, 0)
  BY <1>3, <1>5, LastAssumption
<1> QED
  BY <1>4, <1>5

\* What devInstallAddr() takes from a free range.
Fits(r, base, end) ==
  /\ r \in free
  /\ base \in Addrs /\ end \in Addrs
  /\ r.begin <= base /\ base <= end /\ end <= r.end

-----------------------------------------------------------------------------
(* devInstallAddr                                                          *)

\* Carving a block out of a free range leaves ranges that are free already,
\* or parts of r apart from the block that do not touch.
LEMMA CarveParts ==
  ASSUME IInv, NEW r, NEW base, NEW end, Fits(r, base, end), Carve(r, base, end)
  PROVE  /\ free' \subseteq [begin : Addrs, end : Addrs]
         /\ \A p \in free' : p.begin <= p.end
         /\ \A p \in free' : \/ p \in free \ {r}
                             \/ p = Range(r.begin, base - 1) /\ r.begin < base
                             \/ p = Range(end + 1, r.end) /\ end < r.end
         /\ \A x \in Addrs : (\E p \in free : Holds(p, x)) =>
              (base <= x /\ x <= end) \/ \E p \in free' : Holds(p, x)
<1>1. /\ free \subseteq [begin : Addrs, end : Addrs]
      /\ \A p \in free : p.begin <= p.end
  BY DEF IInv, TypeOK, ProperInv
<1>2. /\ r \in free /\ r.begin \in Addrs /\ r.end \in Addrs
      /\ base \in Addrs /\ end \in Addrs
      /\ r.begin <= base /\ base <= end /\ end <= r.end
  BY <1>1 DEF Fits
<1>3. \A p : p \in free' <=> \/ p \in free \ {r}
                             \/ p = Range(r.begin, base - 1) /\ r.begin < base
                             \/ p = Range(end + 1, r.end) /\ end < r.end
  BY DEF Carve, Remainder
<1>4. /\ r.begin < base => /\ Range(r.begin, base - 1) \in [begin : Addrs, end : Addrs]
                           /\ r.begin <= base - 1
      /\ end < r.end => /\ Range(end + 1, r.end) \in [begin : Addrs, end : Addrs]
                        /\ end + 1 <= r.end
  BY <1>2, LastAssumption DEF Addrs, Range
<1>5. free' \subseteq [begin : Addrs, end : Addrs] /\ \A p \in free' : p.begin <= p.end
  BY <1>1, <1>3, <1>4 DEF Range
<1>6. ASSUME NEW x \in Addrs, NEW p \in free, Holds(p, x), ~(base <= x /\ x <= end)
      PROVE  \E q \in free' : Holds(q, x)
  <2>1. CASE p # r
    BY <1>3, <1>6, <2>1
  <2>2. CASE p = r /\ x < base
    <3>1. r.begin < base /\ Holds(Range(r.begin, base - 1), x)
      BY <1>2, <1>6, <2>2 DEF Holds, Range, Addrs
    <3> QED
      BY <1>3, <3>1
  <2>3. CASE p = r /\ end < x
    <3>1. end < r.end /\ Holds(Range(end + 1, r.end), x)
      BY <1>2, <1>6, <2>3 DEF Holds, Range, Addrs
    <3> QED
      BY <1>3, <3>1
  <2> QED
    BY <1>2, <1>6, <2>1, <2>2, <2>3 DEF Addrs
<1> QED
  BY <1>3, <1>5, <1>6

\* After the carving the free ranges are apart from the block, from each other,
\* from the allocated ranges and from what is lost, and no two of them touch.
LEMMA CarveKeeps ==
  ASSUME IInv, NEW r, NEW base, NEW end, Fits(r, base, end), Carve(r, base, end)
  PROVE  /\ \A p \in free' : Apart(p, Range(base, end))
         /\ FreeApart' /\ FreeMerged'
         /\ \A p \in free', q \in alloc : Apart(p, q)
         /\ \A p \in free', x \in lost : ~Holds(p, x)
<1> DEFINE Before == Range(r.begin, base - 1)
           After == Range(end + 1, r.end)
<1>1. /\ free \subseteq [begin : Addrs, end : Addrs]
      /\ alloc \subseteq [begin : Addrs, end : Addrs, owner : Owners]
      /\ lost \subseteq Addrs
      /\ ProperInv /\ FreeApart /\ BothApart /\ FreeMerged /\ LostGone
  BY DEF IInv, TypeOK
<1>2. /\ r \in free /\ r.begin \in Int /\ r.end \in Int
      /\ base \in Int /\ end \in Int
      /\ r.begin <= base /\ base <= end /\ end <= r.end
  BY <1>1 DEF Fits, Addrs
<1>3. \A p \in free' : \/ p \in free \ {r}
                       \/ p = Before /\ r.begin < base
                       \/ p = After /\ end < r.end
  BY CarveParts
<1>4. \A p \in free' : p.begin \in Int /\ p.end \in Int /\ p.begin <= p.end
  BY CarveParts DEF Addrs
<1>5. /\ Before.begin = r.begin /\ Before.end = base - 1
      /\ After.begin = end + 1 /\ After.end = r.end
  BY DEF Range
<1> HIDE DEF Before, After
<1>6. \A p \in free \ {r} : Apart(p, r) /\ p.begin \in Int /\ p.end \in Int /\ p.begin <= p.end
  BY <1>1, <1>2 DEF FreeApart, ProperInv, Addrs
<1>7. \A p \in free' : Apart(p, Range(base, end))
  BY <1>2, <1>3, <1>5, <1>6 DEF Apart, Range
<1>8. FreeApart'
  <2> SUFFICES ASSUME NEW p \in free', NEW q \in free', p # q
               PROVE  Apart(p, q)
    BY DEF FreeApart, Apart
  <2>1. CASE p \in free \ {r} /\ q \in free \ {r}
    BY <1>1, <2>1 DEF FreeApart
  <2>2. CASE p \notin free \ {r}
    BY <1>2, <1>3, <1>4, <1>5, <1>6, <2>2 DEF Apart
  <2>3. CASE q \notin free \ {r}
    BY <1>2, <1>3, <1>4, <1>5, <1>6, <2>3 DEF Apart
  <2> QED
    BY <2>1, <2>2, <2>3
<1>9. FreeMerged'
  <2> SUFFICES ASSUME NEW p \in free', NEW q \in free'
               PROVE  p.end + 1 # q.begin
    BY DEF FreeMerged
  <2>1. /\ p \in free => \A s \in free : p.end + 1 # s.begin
        /\ q \in free => \A s \in free : s.end + 1 # q.begin
    BY <1>1 DEF FreeMerged
  <2>2. CASE p \in free \ {r}
    BY <1>2, <1>3, <1>4, <1>5, <1>6, <2>1, <2>2 DEF Apart
  <2>3. CASE p = Before /\ r.begin < base
    BY <1>2, <1>3, <1>4, <1>5, <1>6, <2>3 DEF Apart
  <2>4. CASE p = After /\ end < r.end
    BY <1>2, <1>3, <1>4, <1>5, <1>6, <2>1, <2>4 DEF Apart
  <2> QED
    BY <1>3, <2>2, <2>3, <2>4
<1>10. ASSUME NEW p \in free', NEW q \in alloc
       PROVE  Apart(p, q)
  <2>1. q.begin \in Int /\ q.end \in Int /\ q.begin <= q.end
    BY <1>1 DEF ProperInv, Addrs
  <2>2. Apart(r, q) /\ (p \in free => Apart(p, q))
    BY <1>1, <1>2 DEF BothApart
  <2> QED
    BY <1>2, <1>3, <1>5, <2>1, <2>2 DEF Apart
<1>11. ASSUME NEW p \in free', NEW x \in lost
       PROVE  ~Holds(p, x)
  <2>1. x \in Int /\ ~Holds(r, x) /\ (p \in free => ~Holds(p, x))
    BY <1>1, <1>2 DEF LostGone, Addrs
  <2> QED
    BY <1>2, <1>3, <1>5, <2>1 DEF Holds
<1> QED
  BY <1>7, <1>8, <1>9, <1>10, <1>11

\* The arguments of the last call have their types.
AskedOK == asked \in [op : {"none", "register", "alloc", "unregister"}, owner : Owners,
                      base : 0 .. Last + 1, size : 0 .. Last + 1]

\* devInstallAddr() that succeeds keeps the inductive invariant.
LEMMA InstallDoneKeeps ==
  ASSUME IInv, AskedOK', NEW o \in Owners, NEW r, NEW base, NEW end,
         Fits(r, base, end), InstallDone(o, r, base, end)
  PROVE  IInv'
<1> DEFINE new == [begin |-> base, end |-> end, owner |-> o]
<1>1. Carve(r, base, end) /\ alloc' = alloc \cup {new} /\ result' = "success" /\ lost' = lost
  BY DEF InstallDone, Allocate
<1>2. /\ base \in Addrs /\ end \in Addrs /\ base <= end
      /\ r \in free /\ r.begin <= base /\ end <= r.end
  BY DEF Fits
<1>3. /\ new \in [begin : Addrs, end : Addrs, owner : Owners]
      /\ new.begin = base /\ new.end = end
  BY <1>2
<1> HIDE DEF new
<1>4. /\ free \subseteq [begin : Addrs, end : Addrs]
      /\ alloc \subseteq [begin : Addrs, end : Addrs, owner : Owners]
      /\ lost \subseteq Addrs
      /\ ProperInv /\ AllocApart /\ BothApart /\ LostGone /\ Covered
  BY DEF IInv, TypeOK
<1>5. TypeOK'
  BY <1>1, <1>3, <1>4, CarveParts DEF TypeOK, AskedOK, Results
<1>6. ProperInv'
  BY <1>1, <1>2, <1>3, <1>4, CarveParts DEF ProperInv
<1>7. FreeApart' /\ FreeMerged'
  BY <1>1, CarveKeeps
<1>8. ASSUME NEW q \in alloc
      PROVE  Apart(new, q) /\ Apart(q, new)
  <2>1. Apart(r, q) /\ q.begin \in Int /\ q.end \in Int /\ q.begin <= q.end
    BY <1>2, <1>4 DEF BothApart, ProperInv, Addrs
  <2>2. r.begin \in Int /\ r.end \in Int /\ base \in Int /\ end \in Int
    BY <1>2, <1>4 DEF Addrs
  <2> QED
    BY <1>2, <1>3, <2>1, <2>2 DEF Apart
<1>9. AllocApart'
  BY <1>1, <1>4, <1>8 DEF AllocApart, Apart
<1>10. BothApart'
  BY <1>1, <1>3, CarveKeeps DEF BothApart, Apart, Range
<1>11. LostGone'
  <2>1. ASSUME NEW x \in lost PROVE ~Holds(new, x)
    <3>1. ~Holds(r, x) /\ x \in Int
      BY <1>2, <1>4 DEF LostGone, Addrs
    <3>2. r.begin \in Int /\ r.end \in Int /\ base \in Int /\ end \in Int
      BY <1>2, <1>4 DEF Addrs
    <3> QED
      BY <1>2, <1>3, <3>1, <3>2 DEF Holds
  <2> QED
    BY <1>1, <1>4, <2>1, CarveKeeps DEF LostGone, Holds
<1>12. Covered'
  BY <1>1, <1>2, <1>3, <1>4, CarveParts DEF Covered, Holds
<1> QED
  BY <1>5, <1>6, <1>7, <1>9, <1>10, <1>11, <1>12 DEF IInv

\* devInstallAddr() that has no memory for the allocated range loses the block
\* and keeps the inductive invariant.
LEMMA InstallNoRangeKeeps ==
  ASSUME IInv, AskedOK', NEW r, NEW base, NEW end,
         Fits(r, base, end), InstallNoRange(r, base, end)
  PROVE  IInv'
<1>1. /\ Carve(r, base, end) /\ alloc' = alloc /\ result' = "noMemory"
      /\ lost' = lost \cup (base .. end)
  BY DEF InstallNoRange
<1>2. /\ base \in Addrs /\ end \in Addrs /\ base <= end
      /\ r \in free /\ r.begin <= base /\ end <= r.end
  BY DEF Fits
<1>3. /\ free \subseteq [begin : Addrs, end : Addrs]
      /\ alloc \subseteq [begin : Addrs, end : Addrs, owner : Owners]
      /\ lost \subseteq Addrs
      /\ ProperInv /\ AllocApart /\ BothApart /\ LostGone /\ Covered
  BY DEF IInv, TypeOK
<1>4. base .. end \subseteq Addrs
  BY <1>2, LastAssumption DEF Addrs
<1>5. TypeOK'
  BY <1>1, <1>3, <1>4, CarveParts DEF TypeOK, AskedOK, Results
<1>6. ProperInv'
  BY <1>1, <1>3, CarveParts DEF ProperInv
<1>7. FreeApart' /\ FreeMerged'
  BY <1>1, CarveKeeps
<1>8. AllocApart' /\ BothApart'
  BY <1>1, <1>3, CarveKeeps DEF AllocApart, BothApart, Apart
<1>9. ASSUME NEW p \in free' \cup alloc, NEW x \in base .. end
      PROVE  ~Holds(p, x)
  <2>1. p.begin \in Int /\ p.end \in Int /\ x \in Int /\ base \in Int /\ end \in Int
    BY <1>2, <1>3, CarveParts, <1>1 DEF Addrs
  <2>2. CASE p \in free'
    <3>1. Apart(p, Range(base, end))
      BY <1>1, <2>2, CarveKeeps
    <3> QED
      BY <2>1, <3>1 DEF Apart, Range, Holds
  <2>3. CASE p \in alloc
    <3>1. Apart(r, p) /\ r.begin \in Int /\ r.end \in Int
      BY <1>2, <1>3, <2>3 DEF BothApart, Addrs
    <3> QED
      BY <1>2, <2>1, <3>1 DEF Apart, Holds
  <2> QED
    BY <2>2, <2>3
<1>10. LostGone'
  BY <1>1, <1>3, <1>9, CarveKeeps DEF LostGone, Holds
<1>11. Covered'
  BY <1>1, <1>2, <1>3, CarveParts DEF Covered, Holds, Addrs
<1> QED
  BY <1>5, <1>6, <1>7, <1>8, <1>10, <1>11 DEF IInv

\* A call that leaves the lists alone keeps the inductive invariant.
LEMMA FailKeeps ==
  ASSUME IInv, AskedOK', NEW s \in Results, Fail(s)
  PROVE  IInv'
<1>1. result' \in Results /\ UNCHANGED <<free, alloc, lost>>
  BY DEF Fail
<1>2. TypeOK'
  BY <1>1 DEF IInv, TypeOK, AskedOK
<1> QED
  BY <1>1, <1>2 DEF IInv, ProperInv, FreeApart, AllocApart, BothApart, FreeMerged, LostGone,
     Covered, Apart, Holds

\* devInstallAddr() keeps the inductive invariant, wherever the block is.
LEMMA InstallAddrKeeps ==
  ASSUME IInv, AskedOK', NEW o \in Owners, NEW r \in free,
         NEW base \in Nat, NEW size \in Nat \ {0}, InstallAddr(o, r, base, size)
  PROVE  IInv'
<1> DEFINE end == base + (size - 1)
<1>1. r.begin \in Addrs /\ r.end \in Addrs
  BY DEF IInv, TypeOK
<1>2. base \in Int /\ end \in Int /\ base <= end
  OBVIOUS
<1> HIDE DEF end
<1>3. ASSUME base >= r.begin, end <= r.end
      PROVE  Fits(r, base, end)
  BY <1>1, <1>2, <1>3, LastAssumption DEF Fits, Addrs
<1>4. CASE InstallOutside(r, base, end)
  BY <1>4, FailKeeps DEF InstallOutside, Results
<1>5. CASE InstallDone(o, r, base, end)
  BY <1>3, <1>5, InstallDoneKeeps DEF InstallDone
<1>6. CASE InstallNoMap(r, base, end)
  BY <1>6, FailKeeps DEF InstallNoMap, Results
<1>7. CASE InstallNoSplit(r, base, end)
  BY <1>7, FailKeeps DEF InstallNoSplit, Results
<1>8. CASE InstallNoRange(r, base, end)
  BY <1>3, <1>8, InstallNoRangeKeeps DEF InstallNoRange
<1> QED
  BY <1>4, <1>5, <1>6, <1>7, <1>8 DEF InstallAddr, end

-----------------------------------------------------------------------------
(* devInsertAddress and devCombineAdjacentBlocks                           *)

Touching(r) == {q \in free : q.end + 1 = r.begin \/ q.begin = r.end + 1}

\* The ends of a released block combined with the free ranges that touch it.
Merged(r, b, e) ==
  /\ b \in {r.begin} \cup {q.begin : q \in Touching(r)}
  /\ e \in {r.end} \cup {q.end : q \in Touching(r)}
  /\ b <= r.begin /\ \A q \in Touching(r) : b <= q.begin
  /\ r.end <= e /\ \A q \in Touching(r) : q.end <= e

\* devCombineAdjacentBlocks() puts one range in the place of the touching ones.
LEMMA CombineMerges ==
  ASSUME NEW r \in alloc, InsertAndCombine(r)
  PROVE  \E b, e : Merged(r, b, e) /\ free' = (free \ Touching(r)) \cup {Range(b, e)}
BY DEF InsertAndCombine, Merged, Touching

\* The combined range holds the addresses of the released block and of the
\* free ranges that touch it, and no others.
LEMMA MergedHolds ==
  ASSUME IInv, NEW r \in alloc, NEW b, NEW e, Merged(r, b, e)
  PROVE  /\ b \in Addrs /\ e \in Addrs
         /\ \A x \in Int : Holds(Range(b, e), x)
                             <=> Holds(r, x) \/ \E q \in Touching(r) : Holds(q, x)
<1>1. /\ r.begin \in Addrs /\ r.end \in Addrs /\ r.begin <= r.end
      /\ \A q \in Touching(r) : q.begin \in Addrs /\ q.end \in Addrs /\ q.begin <= q.end
  BY DEF IInv, TypeOK, ProperInv, Touching
<1>2. b \in Addrs /\ e \in Addrs
  BY <1>1 DEF Merged
<1>3. ASSUME NEW x \in Int, Holds(Range(b, e), x), ~Holds(r, x)
      PROVE  \E q \in Touching(r) : Holds(q, x)
  <2>1. b <= x /\ x <= e
    BY <1>3 DEF Holds, Range
  <2>2. CASE x < r.begin
    <3>1. PICK q \in Touching(r) : q.begin = b
      BY <1>1, <1>2, <2>1, <2>2 DEF Merged, Addrs
    <3>2. q.end + 1 = r.begin
      BY <1>1, <2>1, <2>2, <3>1 DEF Touching, Addrs
    <3> QED
      BY <1>1, <2>1, <2>2, <3>1, <3>2 DEF Holds, Addrs
  <2>3. CASE r.end < x
    <3>1. PICK q \in Touching(r) : q.end = e
      BY <1>1, <1>2, <2>1, <2>3 DEF Merged, Addrs
    <3>2. q.begin = r.end + 1
      BY <1>1, <2>1, <2>3, <3>1 DEF Touching, Addrs
    <3> QED
      BY <1>1, <2>1, <2>3, <3>1, <3>2 DEF Holds, Addrs
  <2> QED
    BY <1>1, <1>3, <2>2, <2>3 DEF Holds, Addrs
<1>4. ASSUME NEW x \in Int, NEW q, q \in Touching(r) \/ q = r, Holds(q, x)
      PROVE  Holds(Range(b, e), x)
  BY <1>1, <1>2, <1>4 DEF Merged, Holds, Range, Addrs
<1> QED
  BY <1>2, <1>3, <1>4

\* Two ranges with no common address are apart.
LEMMA ApartIfNoCommon ==
  ASSUME NEW p, NEW q, p.begin \in Int, p.end \in Int, q.begin \in Int, q.end \in Int,
         p.begin <= p.end, q.begin <= q.end,
         \A x \in Int : ~(Holds(p, x) /\ Holds(q, x))
  PROVE  Apart(p, q)
<1>1. ~(Holds(p, p.begin) /\ Holds(q, p.begin)) /\ ~(Holds(p, q.begin) /\ Holds(q, q.begin))
  OBVIOUS
<1> QED
  BY <1>1 DEF Apart, Holds

\* devUnregisterAddress() that releases a block keeps the inductive invariant.
LEMMA ReleaseKeeps ==
  ASSUME IInv, AskedOK', NEW r \in alloc, Release(r)
  PROVE  IInv'
<1>1. /\ alloc' = alloc \ {r} /\ InsertAndCombine(r)
      /\ result' = "success" /\ lost' = lost
  BY DEF Release
<1>2. PICK b, e : Merged(r, b, e) /\ free' = (free \ Touching(r)) \cup {Range(b, e)}
  BY <1>1, CombineMerges
<1> DEFINE new == Range(b, e)
<1>3. /\ b \in Addrs /\ e \in Addrs
      /\ \A x \in Int : Holds(new, x) <=> Holds(r, x) \/ \E q \in Touching(r) : Holds(q, x)
  BY <1>2, MergedHolds
<1>4. /\ new.begin = b /\ new.end = e /\ new \in [begin : Addrs, end : Addrs]
  BY <1>3 DEF Range
<1>5. free' = (free \ Touching(r)) \cup {new}
  BY <1>2
<1> HIDE DEF new
<1>6. /\ free \subseteq [begin : Addrs, end : Addrs]
      /\ alloc \subseteq [begin : Addrs, end : Addrs, owner : Owners]
      /\ lost \subseteq Addrs
      /\ ProperInv /\ FreeApart /\ AllocApart /\ BothApart
      /\ FreeMerged /\ LostGone /\ Covered
  BY DEF IInv, TypeOK
<1>7. b <= e
  BY <1>2, <1>3, <1>6 DEF Merged, ProperInv, Addrs
<1>8. \A p \in free \cup alloc : p.begin \in Int /\ p.end \in Int /\ p.begin <= p.end
  BY <1>6 DEF ProperInv, Addrs
<1>9. TypeOK'
  BY <1>1, <1>4, <1>5, <1>6 DEF TypeOK, AskedOK, Results
<1>10. ProperInv'
  BY <1>1, <1>4, <1>5, <1>6, <1>7 DEF ProperInv
<1>11. ASSUME NEW p \in (free \ Touching(r)) \cup (alloc \ {r})
       PROVE  Apart(p, new) /\ Apart(new, p)
  <2>1. ASSUME NEW x \in Int, NEW q, q \in Touching(r) \/ q = r
        PROVE  ~(Holds(p, x) /\ Holds(q, x))
    <3>1. Apart(p, q) \/ Apart(q, p)
      BY <1>6, <2>1 DEF FreeApart, AllocApart, BothApart, Touching
    <3>2. p.begin \in Int /\ p.end \in Int /\ q.begin \in Int /\ q.end \in Int
      BY <1>8, <2>1 DEF Touching
    <3> QED
      BY <3>1, <3>2 DEF Apart, Holds
  <2>2. \A x \in Int : ~(Holds(p, x) /\ Holds(new, x))
    BY <1>3, <2>1
  <2>3. p.begin \in Int /\ p.end \in Int /\ p.begin <= p.end /\ new.begin \in Int /\ new.end \in Int
    BY <1>3, <1>4, <1>8 DEF Addrs
  <2> QED
    BY <1>4, <1>7, <2>2, <2>3, ApartIfNoCommon
<1>12. FreeApart'
  BY <1>5, <1>6, <1>11 DEF FreeApart, Apart
<1>13. AllocApart'
  BY <1>1, <1>6 DEF AllocApart, Apart
<1>14. BothApart'
  BY <1>1, <1>5, <1>6, <1>11 DEF BothApart, Apart
<1>15. FreeMerged'
  <2>1. ASSUME NEW p \in free \ Touching(r)
        PROVE  p.end + 1 # b /\ e + 1 # p.begin
    <3>1. p.end + 1 # r.begin /\ p.begin # r.end + 1
      BY <2>1 DEF Touching
    <3>2. \A q \in Touching(r) : p.end + 1 # q.begin /\ q.end + 1 # p.begin
      BY <1>6, <2>1 DEF FreeMerged, Touching
    <3> QED
      BY <1>2, <3>1, <3>2, <1>8 DEF Merged
  <2>2. e + 1 # b
    BY <1>3, <1>7 DEF Addrs
  <2> QED
    BY <1>4, <1>5, <1>6, <2>1, <2>2 DEF FreeMerged
<1>16. LostGone'
  <2>1. ASSUME NEW x \in lost PROVE ~Holds(new, x)
    <3>1. x \in Int
      BY <1>6 DEF Addrs
    <3> QED
      BY <1>3, <1>6, <3>1 DEF LostGone, Touching
  <2> QED
    BY <1>1, <1>5, <1>6, <2>1 DEF LostGone, Holds
<1>17. Covered'
  <2> SUFFICES ASSUME NEW x \in Addrs, x \notin lost
               PROVE  \E p \in free' \cup alloc' : Holds(p, x)
    BY <1>1 DEF Covered, Holds
  <2>1. PICK p \in free \cup alloc : Holds(p, x)
    BY <1>6 DEF Covered
  <2>2. x \in Int
    BY DEF Addrs
  <2> QED
    BY <1>1, <1>3, <1>5, <2>1, <2>2
<1> QED
  BY <1>9, <1>10, <1>12, <1>13, <1>14, <1>15, <1>16, <1>17 DEF IInv

-----------------------------------------------------------------------------
(* The theorems                                                            *)

\* The inductive invariant holds when devLibInit() has returned.
LEMMA InitIInv == Init => IInv
<1> SUFFICES ASSUME Init PROVE IInv
  OBVIOUS
<1>1. /\ free = {Range(0, Last)} /\ alloc = {} /\ lost = {} /\ result = "success"
      /\ \E o \in Owners : asked = Call("none", o, 0, 0)
  BY DEF Init
<1>2. Range(0, Last) \in [begin : Addrs, end : Addrs]
  BY LastAssumption DEF Range, Addrs
<1>3. TypeOK
  BY <1>1, <1>2, LastAssumption DEF TypeOK, Call, Results
<1>4. ProperInv /\ FreeMerged /\ Covered
  BY <1>1, LastAssumption DEF ProperInv, FreeMerged, Covered, Holds, Range, Addrs
<1>5. FreeApart /\ AllocApart /\ BothApart /\ LostGone
  BY <1>1 DEF FreeApart, AllocApart, BothApart, LostGone
<1> QED
  BY <1>3, <1>4, <1>5 DEF IInv

\* devRegisterAddress() keeps the inductive invariant.
LEMMA RegisterKeeps ==
  ASSUME IInv, NEW o \in Owners, NEW base \in 0 .. Last + 1, NEW size \in 0 .. Last + 1,
         RegisterAddress(o, base, size)
  PROVE  IInv'
<1>1. AskedOK' /\ base \in Nat /\ size \in Nat
  BY LastAssumption DEF RegisterAddress, AskedOK, Call
<1>2. CASE \E s \in {"badAddr", "crash", "overlap"} : Fail(s)
  BY <1>1, <1>2, FailKeeps DEF Results
<1>3. ASSUME NEW r \in free, AddrVerify(base, size), InstallAddr(o, r, base, size)
      PROVE  IInv'
  BY <1>1, <1>3, InstallAddrKeeps DEF AddrVerify
<1> QED
  BY <1>2, <1>3 DEF RegisterAddress, Stops, First

\* devAllocAddress() keeps the inductive invariant.
LEMMA AllocKeeps ==
  ASSUME IInv, NEW o \in Owners, NEW size \in 0 .. Last + 1, NEW align \in Alignments,
         AllocAddress(o, size, align)
  PROVE  IInv'
<1> DEFINE rounded == RoundUp(size, align)
           Asked(base) == asked' = Call("alloc", o, base, size)
<1>1. size \in Nat /\ \A base \in 0 .. Last + 1 : Asked(base) => AskedOK'
  BY LastAssumption DEF AskedOK, Call
<1>2. ASSUME NEW s \in {"badAddr", "doesNotFit", "hang"}, Fail(s), Asked(0)
      PROVE  IInv'
  BY <1>1, <1>2, FailKeeps, LastAssumption DEF Results
<1>3. ASSUME AddrVerify(0, size), NEW r \in free, NEW base \in BlockFind(r, rounded),
             InstallAddr(o, r, base, size), Asked(base)
      PROVE  IInv'
  <2>1. r \in [begin : Addrs, end : Addrs] /\ r.begin <= r.end
    BY DEF IInv, TypeOK, ProperInv
  <2>2. base \in 0 .. Last + 1
    BY <1>1, <1>3, <2>1, RoundUpNat, BlockFindBound
  <2>3. base \in Nat /\ size \in Nat \ {0} /\ AskedOK'
    BY <1>1, <1>3, <2>2, LastAssumption DEF AddrVerify
  <2> QED
    BY <1>3, <2>3, InstallAddrKeeps
<1> QED
  BY <1>2, <1>3 DEF AllocAddress, First

\* devUnregisterAddress() keeps the inductive invariant.
LEMMA UnregisterKeeps ==
  ASSUME IInv, NEW o \in Owners, NEW base \in 0 .. Last + 1, UnregisterAddress(o, base)
  PROVE  IInv'
<1>1. AskedOK'
  BY LastAssumption DEF UnregisterAddress, AskedOK, Call
<1>2. CASE \E s \in {"badAddr", "notFound", "notOwner"} : Fail(s)
  BY <1>1, <1>2, FailKeeps DEF Results
<1>3. ASSUME NEW r \in alloc, Release(r)
      PROVE  IInv'
  BY <1>1, <1>3, ReleaseKeeps
<1> QED
  BY <1>2, <1>3 DEF UnregisterAddress

\* IInv holds in every state, whatever is called and however it fails.
THEOREM Inductive == Spec => []IInv
<1>1. IInv /\ [Next]_vars => IInv'
  <2> SUFFICES ASSUME IInv, [Next]_vars PROVE IInv'
    OBVIOUS
  <2>1. CASE UNCHANGED vars
    BY <2>1 DEF vars, IInv, TypeOK, ProperInv, FreeApart, AllocApart, BothApart, FreeMerged,
       LostGone, Covered, Apart, Holds
  <2>2. CASE Next
    BY <2>2, RegisterKeeps, AllocKeeps, UnregisterKeeps DEF Next
  <2> QED
    BY <2>1, <2>2
<1> QED
  BY <1>1, InitIInv, PTL DEF Spec

\* Every variable of the bookkeeping keeps its type; no range leaves the space.
THEOREM TypeCorrect == Spec => []TypeOK
<1>1. IInv => TypeOK
  BY DEF IInv
<1> QED
  BY <1>1, Inductive, PTL

\* Ranges that are apart have no address in common.
LEMMA ApartSpans ==
  ASSUME NEW p, NEW q, p.begin \in Int, p.end \in Int, q.begin \in Int, q.end \in Int,
         Apart(p, q)
  PROVE  Span(p) \cap Span(q) = {}
BY DEF Apart, Span

\* Two ranges, free or allocated, never overlap, whatever is registered,
\* allocated and released and however a call fails.
THEOREM NeverOverlap == Spec => []Disjoint
<1>1. IInv => Disjoint
  <2> SUFFICES ASSUME IInv PROVE Disjoint
    OBVIOUS
  <2>1. \A p \in free \cup alloc : p.begin \in Int /\ p.end \in Int
    BY DEF IInv, TypeOK, Addrs
  <2>2. ASSUME NEW p \in free \cup alloc, NEW q \in free \cup alloc, Apart(p, q)
        PROVE  Span(p) \cap Span(q) = {}
    BY <2>1, <2>2, ApartSpans
  <2> QED
    BY <2>2 DEF IInv, ProperInv, FreeApart, AllocApart, BothApart, Disjoint
<1> QED
  BY <1>1, Inductive, PTL

\* Released blocks always grow together with their free neighbours.
THEOREM AlwaysMerged == Spec => []FreeMerged
<1>1. IInv => FreeMerged
  BY DEF IInv
<1> QED
  BY <1>1, Inductive, PTL

\* Every address is on a list, unless it was given up for want of memory.
THEOREM NoneLost == Spec => []AddressesKept
<1>1. IInv => AddressesKept
  <2> SUFFICES ASSUME IInv PROVE AddressesKept
    OBVIOUS
  <2>1. \A p \in free \cup alloc : p.begin \in Addrs /\ p.end \in Addrs
    BY DEF IInv, TypeOK
  <2>2. lost \subseteq Addrs /\ Covered
    BY DEF IInv, TypeOK
  <2>3. \A p \in free \cup alloc : Span(p) \subseteq Addrs
    BY <2>1, LastAssumption DEF Span, Addrs
  <2>4. ASSUME NEW x \in Addrs, x \notin lost
        PROVE  \E p \in free \cup alloc : x \in Span(p)
    <3>1. PICK p \in free \cup alloc : Holds(p, x)
      BY <2>2, <2>4 DEF Covered
    <3> QED
      BY <2>1, <3>1 DEF Holds, Span, Addrs
  <2> QED
    BY <2>2, <2>3, <2>4 DEF AddressesKept
<1> QED
  BY <1>1, Inductive, PTL

-----------------------------------------------------------------------------
(* VmeAddr implements AddrSpace.                                           *)

\* A block inside a free range is nobody's and not lost.
LEMMA FitsUnclaimed ==
  ASSUME IInv, NEW r, NEW base, NEW end, Fits(r, base, end)
  PROVE  /\ base \in 0 .. Last /\ end \in base .. Last
         /\ Space!Block(base, end) \cap (Space!Claimed \cup lost) = {}
<1>1. /\ r \in free /\ r.begin \in Int /\ r.end \in Int /\ base \in Addrs /\ end \in Addrs
      /\ r.begin <= base /\ base <= end /\ end <= r.end
  BY DEF IInv, TypeOK, Fits, Addrs
<1>2. ASSUME NEW x \in base .. end
      PROVE  x \notin lost /\ \A c \in alloc : x \notin c.begin .. c.end
  <2>1. x \in Int /\ Holds(r, x)
    BY <1>1 DEF Holds, Addrs
  <2>2. x \notin lost
    BY <1>1, <2>1 DEF IInv, LostGone
  <2>3. ASSUME NEW c \in alloc PROVE x \notin c.begin .. c.end
    <3>1. Apart(r, c) /\ c.begin \in Int /\ c.end \in Int
      BY <1>1 DEF IInv, TypeOK, BothApart, Addrs
    <3> QED
      BY <1>1, <2>1, <3>1 DEF Apart, Holds
  <2> QED
    BY <2>2, <2>3
<1> QED
  BY <1>1, <1>2 DEF Space!Block, Space!Claimed, Addrs

\* What devInstallAddr() does is a Claim, a Lose or a stutter.
LEMMA InstallAddrSeen ==
  ASSUME IInv, NEW o \in Owners, NEW r \in free,
         NEW base \in Nat, NEW size \in Nat \ {0}, InstallAddr(o, r, base, size)
  PROVE  [Space!Next]_(Space!vars)
<1> DEFINE end == base + (size - 1)
<1>1. r.begin \in Addrs /\ r.end \in Addrs
  BY DEF IInv, TypeOK
<1>2. base \in Int /\ end \in Int /\ base <= end
  OBVIOUS
<1> HIDE DEF end
<1>3. ASSUME base >= r.begin, end <= r.end
      PROVE  Fits(r, base, end)
  BY <1>1, <1>2, <1>3, LastAssumption DEF Fits, Addrs
<1>4. CASE InstallOutside(r, base, end) \/ InstallNoMap(r, base, end) \/ InstallNoSplit(r, base, end)
  BY <1>4 DEF InstallOutside, InstallNoMap, InstallNoSplit, Fail, Space!vars
<1>5. CASE InstallDone(o, r, base, end)
  <2>1. base \in 0 .. Last /\ end \in base .. Last /\ Space!Claim(o, base, end)
    BY <1>3, <1>5, FitsUnclaimed DEF InstallDone, Allocate, Space!Claim
  <2> QED
    BY <2>1 DEF Space!Next
<1>6. CASE InstallNoRange(r, base, end)
  <2>1. base \in 0 .. Last /\ end \in base .. Last /\ Space!Lose(base, end)
    BY <1>3, <1>6, FitsUnclaimed DEF InstallNoRange, Space!Lose, Space!Block
  <2> QED
    BY <2>1 DEF Space!Next
<1> QED
  BY <1>4, <1>5, <1>6 DEF InstallAddr, end

\* Every call is a step of AddrSpace or a stutter.
LEMMA SpaceStep ==
  ASSUME IInv, [Next]_vars
  PROVE  [Space!Next]_(Space!vars)
<1>1. ASSUME NEW o \in Owners, NEW base \in 0 .. Last + 1, NEW size \in 0 .. Last + 1,
             RegisterAddress(o, base, size)
      PROVE  [Space!Next]_(Space!vars)
  <2>1. CASE \E s \in Results : Fail(s)
    BY <2>1 DEF Fail, Space!vars
  <2>2. ASSUME NEW r \in free, AddrVerify(base, size), InstallAddr(o, r, base, size)
        PROVE  [Space!Next]_(Space!vars)
    BY <2>2, InstallAddrSeen, LastAssumption DEF AddrVerify
  <2> QED
    BY <1>1, <2>1, <2>2 DEF RegisterAddress, Stops, First, Results
<1>2. ASSUME NEW o \in Owners, NEW size \in 0 .. Last + 1, NEW align \in Alignments,
             AllocAddress(o, size, align)
      PROVE  [Space!Next]_(Space!vars)
  <2>1. CASE \E s \in Results : Fail(s)
    BY <2>1 DEF Fail, Space!vars
  <2>2. ASSUME AddrVerify(0, size), NEW r \in free,
               NEW base \in BlockFind(r, RoundUp(size, align)), InstallAddr(o, r, base, size)
        PROVE  [Space!Next]_(Space!vars)
    <3>1. r \in [begin : Addrs, end : Addrs] /\ r.begin <= r.end
      BY DEF IInv, TypeOK, ProperInv
    <3>2. base \in 0 .. Last + 1
      BY <3>1, RoundUpNat, BlockFindBound, LastAssumption
    <3>3. base \in Nat /\ size \in Nat \ {0}
      BY <2>2, <3>2, LastAssumption DEF AddrVerify
    <3> QED
      BY <2>2, <3>3, InstallAddrSeen
  <2> QED
    BY <1>2, <2>1, <2>2 DEF AllocAddress, First, Results
<1>3. ASSUME NEW o \in Owners, NEW base \in 0 .. Last + 1, UnregisterAddress(o, base)
      PROVE  [Space!Next]_(Space!vars)
  <2>1. CASE \E s \in Results : Fail(s)
    BY <2>1 DEF Fail, Space!vars
  <2>2. ASSUME NEW r \in alloc, MayRelease(o, r), Release(r)
        PROVE  [Space!Next]_(Space!vars)
    BY <2>2 DEF MayRelease, Release, Space!Next, Space!GiveBack
  <2> QED
    BY <1>3, <2>1, <2>2 DEF UnregisterAddress, Results
<1> QED
  BY <1>1, <1>2, <1>3 DEF Next, vars, Space!vars

\* The lists keep the promise of devLibVME.h: a block belongs to the owner that
\* got it until that owner gives it back, and to nobody else.
THEOREM Implements == Spec => SpaceSpec
<1>1. Init => Space!Init
  BY DEF Init, Space!Init
<1>2. IInv /\ [Next]_vars => [Space!Next]_(Space!vars)
  BY SpaceStep
<1> QED
  BY <1>1, <1>2, Inductive, PTL DEF Spec, SpaceSpec, Space!Spec

-----------------------------------------------------------------------------
(* What the callers are told.                                              *)

\* The multiple of `align` that a size is rounded up to is the first one, and
\* the whole of size_t is one too.
LEMMA RoundedUp ==
  ASSUME NEW size \in 1 .. Modulo, NEW align \in Nat \ {0}, Modulo % align = 0
  PROVE  ((size + align - 1) \div align) * align \in size .. Modulo
<1> DEFINE n == size + align - 1
           c == n \div align
           q == Modulo \div align
<1>1. n \in Int /\ Modulo \in Int /\ align \in Int /\ size \in Int
  BY ModuloAssumption
<1>2. /\ c \in Int /\ q \in Int /\ n % align \in 0 .. align - 1
      /\ n = align * c + (n % align) /\ Modulo = align * q + (Modulo % align)
  BY <1>1
<1> DEFINE m == n % align
<1>3. m \in Int /\ 0 <= m /\ m <= align - 1 /\ n = align * c + m /\ Modulo = align * q
  BY <1>1, <1>2
<1>4. n = size + align - 1 /\ size <= Modulo /\ align >= 1
  BY ModuloAssumption
<1>5. c * align = align * c /\ c * align \in Int
  BY <1>2
<1>6. c \in Int /\ q \in Int
  BY <1>2
<1> HIDE DEF n, c, q, m
<1>7. size <= c * align
  BY <1>1, <1>3, <1>4, <1>5
<1>8. c <= q
  <2> SUFFICES ASSUME c > q PROVE FALSE
    BY <1>6
  <2>1. align * (c - q - 1) >= 0 /\ align * (c - q - 1) = align * c - align * q - align
    BY <1>1, <1>4, <1>6
  <2> QED
    BY <1>1, <1>3, <1>4, <1>5, <2>1
<1>9. c * align <= Modulo
  <2>1. align * (q - c) >= 0 /\ align * (q - c) = align * q - align * c
    BY <1>1, <1>4, <1>6, <1>8
  <2> QED
    BY <1>1, <1>3, <1>5, <2>1
<1>10. c * align \in size .. Modulo
  BY <1>1, <1>5, <1>7, <1>9
<1> QED
  BY <1>10 DEF c, n

\* blockFind() looks for no less than was asked for, or for nothing at all when
\* the rounded size is one more than a size_t can hold.
LEMMA RoundUpEnough ==
  ASSUME NEW size \in 1 .. Last + 1, NEW align \in Alignments
  PROVE  RoundUp(size, align) = 0 \/ RoundUp(size, align) >= size
<1> DEFINE n == ((size + align - 1) \div align) * align
<1>1. size \in 1 .. Modulo /\ Modulo \in Nat \ {0}
  BY LastAssumption, ModuloAssumption
<1>2. n \in size .. Modulo
  BY <1>1, AlignmentsAssumption, RoundedUp
<1>3. RoundUp(size, align) = n % Modulo
  BY DEF RoundUp
<1> HIDE DEF n
<1>4. CASE n = Modulo
  BY <1>1, <1>2, <1>3, <1>4
<1>5. CASE n < Modulo
  <2>1. n % Modulo = n
    BY <1>1, <1>2, <1>5
  <2> QED
    BY <1>1, <1>2, <1>3, <2>1
<1> QED
  BY <1>1, <1>2, <1>4, <1>5

\* A base from blockFind() that devInstallAddr() accepts has been probed.
LEMMA FoundIsProbed ==
  ASSUME NEW r \in [begin : Addrs, end : Addrs], NEW size \in Nat,
         NEW base \in BlockFind(r, size), base >= r.begin
  PROVE  NoResponseProbe(base, size)
<1>1. CASE Reached(r, size, 0)
  BY <1>1 DEF BlockFind, Probed
<1>2. CASE ~Reached(r, size, 0)
  <2>1. base = 0
    BY <1>2 DEF BlockFind
  <2>2. r.begin = 0
    BY <2>1 DEF Addrs
  <2>3. Candidate(r, size, 0) = 0
    <3>1. r.begin + 0 * size = 0
      BY <2>2
    <3>2. 0 % Modulo = 0
      BY LastAssumption, ModuloAssumption
    <3> QED
      BY <3>1, <3>2 DEF Candidate
  <2>4. Limit(r, size) >= 0 /\ Limit(r, size) \in Int
    <3>1. r.end + 1 - size \in Int /\ Modulo \in Nat \ {0}
      BY LastAssumption, ModuloAssumption DEF Addrs
    <3> QED
      BY <3>1 DEF Limit
  <2>5. Reached(r, size, 0)
    <3>1. \A j \in 0 .. 0 : j = 0
      OBVIOUS
    <3> QED
      BY <2>3, <2>4, <3>1 DEF Reached
  <2> QED
    BY <1>2, <2>5
<1> QED
  BY <1>1, <1>2

\* What each call answers, whatever was answered before.
LEMMA AnswerStep ==
  ASSUME IInv, AnswersTrue, [Next]_vars
  PROVE  AnswersTrue'
<1>1. CASE UNCHANGED vars
  BY <1>1 DEF vars, AnswersTrue, OverlapIsReal, AllocUnanswered
<1>2. ASSUME NEW o \in Owners, NEW base \in 0 .. Last + 1, NEW size \in 0 .. Last + 1,
             RegisterAddress(o, base, size)
      PROVE  AnswersTrue'
  <2>1. asked' = Call("register", o, base, size)
    BY <1>2 DEF RegisterAddress
  <2>2. AllocUnanswered'
    BY <2>1 DEF AllocUnanswered, Call
  <2>3. ASSUME result' = "overlap" PROVE OverlapIsReal'
    <3>1. PICK r \in First(Stops(base, size)) :
                 r.begin > base /\ free' = free /\ AddrVerify(base, size)
      BY <1>2, <2>3 DEF RegisterAddress, Fail, InstallAddr, InstallOutside, InstallDone,
         InstallNoMap, InstallNoSplit, InstallNoRange
    <3>2. r.begin \in Int /\ base \in Int /\ size \in Int /\ size >= 1
      BY <3>1, LastAssumption DEF First, Stops, IInv, TypeOK, Addrs, AddrVerify
    <3>3. ASSUME NEW q \in free, base .. base + size - 1 \subseteq Span(q) PROVE FALSE
      <4>1. q.begin \in Int /\ q.end \in Int
        BY DEF IInv, TypeOK, Addrs
      <4>2. base \in Span(q) /\ base + size - 1 \in Span(q)
        BY <3>2, <3>3
      <4>3. q.begin <= base /\ base + (size - 1) <= q.end
        BY <3>2, <4>1, <4>2 DEF Span
      <4>4. q \in Stops(base, size)
        BY <4>3 DEF Stops
      <4>5. r.begin <= q.begin
        BY <3>1, <4>4 DEF First
      <4> QED
        BY <3>1, <3>2, <4>1, <4>3, <4>5
    <3>4. asked'.base = base /\ asked'.size = size
      BY <2>1 DEF Call
    <3> QED
      BY <3>1, <3>3, <3>4 DEF OverlapIsReal, Span
  <2> QED
    BY <2>2, <2>3 DEF AnswersTrue, OverlapIsReal
<1>3. ASSUME NEW o \in Owners, NEW size \in 0 .. Last + 1, NEW align \in Alignments,
             AllocAddress(o, size, align)
      PROVE  AnswersTrue'
  <2> DEFINE rounded == RoundUp(size, align)
  <2>1. result' # "overlap"
    BY <1>3 DEF AllocAddress, Fail, InstallAddr, InstallOutside, InstallDone,
       InstallNoMap, InstallNoSplit, InstallNoRange
  <2>2. ASSUME result' = "success" PROVE AllocUnanswered'
    <3>a. PICK r \in free : \E base \in BlockFind(r, rounded) :
             /\ AddrVerify(0, size) /\ InstallDone(o, r, base, base + (size - 1))
             /\ asked' = Call("alloc", o, base, size)
      BY <1>3, <2>2 DEF AllocAddress, Fail, First, InstallAddr, InstallOutside,
         InstallNoMap, InstallNoSplit, InstallNoRange
    <3>1. PICK base \in BlockFind(r, rounded) :
             /\ AddrVerify(0, size) /\ InstallDone(o, r, base, base + (size - 1))
             /\ asked' = Call("alloc", o, base, size)
      BY <3>a
    <3>2. base >= r.begin /\ r \in [begin : Addrs, end : Addrs] /\ r.begin <= r.end
      BY <3>1 DEF InstallDone, IInv, TypeOK, ProperInv
    <3>3. rounded \in Nat /\ size \in 1 .. Last + 1
      BY <3>1, RoundUpNat, LastAssumption DEF AddrVerify
    <3>4. NoResponseProbe(base, rounded)
      BY <3>1, <3>2, <3>3, FoundIsProbed
    <3>5. base \in Nat
      BY <3>2, <3>3, BlockFindBound, LastAssumption
    <3>6. rounded >= size
      BY <3>3, <3>4, RoundUpEnough DEF NoResponseProbe
    <3> HIDE DEF rounded
    <3>7. base .. base + size - 1 \cap Devices = {}
      BY <3>3, <3>4, <3>5, <3>6, LastAssumption DEF NoResponseProbe
    <3>8. asked'.base = base /\ asked'.size = size
      BY <3>1 DEF Call
    <3> QED
      BY <3>7, <3>8 DEF AllocUnanswered
  <2> QED
    BY <2>1, <2>2 DEF AnswersTrue, OverlapIsReal, AllocUnanswered
<1>4. ASSUME NEW o \in Owners, NEW base \in 0 .. Last + 1, UnregisterAddress(o, base)
      PROVE  AnswersTrue'
  <2>1. asked'.op = "unregister" /\ result' # "overlap"
    BY <1>4 DEF UnregisterAddress, Call, Fail, Release
  <2> QED
    BY <2>1 DEF AnswersTrue, OverlapIsReal, AllocUnanswered
<1> QED
  BY <1>1, <1>2, <1>3, <1>4 DEF Next

\* devRegisterAddress() refuses no block that is free, and devAllocAddress() hands
\* out none in which a board answers, for spaces and boards of any size, also when
\* the arithmetic of blockFind() wraps.
THEOREM ToldTheTruth == Spec => []AnswersTrue
<1>1. Init => AnswersTrue
  BY DEF Init, Call, AnswersTrue, OverlapIsReal, AllocUnanswered
<1> QED
  BY <1>1, AnswerStep, Inductive, PTL DEF Spec
=============================================================================
