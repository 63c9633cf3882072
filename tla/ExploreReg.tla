------------------------------ MODULE ExploreReg ------------------------------
(***************************************************************************)
(* The records of the Explore application that read and write registers    *)
(* (exploreApp/src/devexplore.cpp): the link is parsed and checked when    *)
(* the record is initialised; after that scan threads read registers, or   *)
(* write them, under the lock of the record alone.  A write with a mask    *)
(* reads the register, changes the bits of the mask and writes it.         *)
(*                                                                         *)
(* Records in the same lock set of the database are never processed at the *)
(* same time.  The conversion of floating point numbers is left out.       *)
(***************************************************************************)
EXTENDS Mmio, FiniteSets

CONSTANTS
  Records,    \* the records
  Databases,  \* sets of links: functions from Records to [dir, size, ord,
              \* array, spec, opts, elem, nelm, lockset]
  BarSize,    \* bytes of the BAR
  Wrap,       \* 2^32: offsets are epicsUInt32
  Values      \* what may be put into the records: sequences of values

ASSUME SizesAssumption == BarSize \in Nat \ {0} /\ Wrap \in Nat \ {0} /\ Wrap % 4 = 0

VARIABLES
  cpu,     \* the CPU at hand
  db,      \* the database at hand
  mem,     \* the bytes of the BAR
  status,  \* "new", "failed" (no dpvt), "ready"
  pvt,     \* the options of a record that is ready
  busy,    \* the processing of each record: the element it is at and, in a
           \* write with a mask, <<what was read>>
  val,     \* VAL of a record: a sequence, of one value unless a waveform
  alarm,   \* records in alarm
  wild,    \* history: records that have accessed memory outside of the BAR
  last,    \* history: the value a record wrote last, <<>> or <<value>>
  fresh    \* history: records read since the last write to the BAR

dbVars == <<cpu, db, status, pvt>>
vars == <<dbVars, mem, busy, val, alarm, wild, last, fresh>>

Idle == [on |-> FALSE, i |-> 0, old |-> <<>>]

-----------------------------------------------------------------------------
(* The device supports and parseLink                                       *)

\* The tables made by SUP.
Supports ==
  [dir : {"read", "write"}, size : {1}, ord : {"NAT"}, array : BOOLEAN]
  \cup [dir : {"read", "write"}, size : {2, 4}, ord : {"NAT", "BE", "LE"}, array : BOOLEAN]

ASSUME DatabasesAssumption ==
  \A d \in Databases : \A r \in Records :
    /\ [dir |-> d[r].dir, size |-> d[r].size, ord |-> d[r].ord, array |-> d[r].array] \in Supports
    /\ d[r].nelm \in Nat /\ (~d[r].array => d[r].nelm = 1)
ASSUME ValuesAssumption == Values \subseteq Seq(SUBSET Bits(4))

Names == {"bar", "offset", "step", "mask", "shift", "initread"}

\* The step is the size; what has an OUT is read when it is initialised (a
\* waveform has an INP, even when it is written).
Defaults(c) ==
  [bar |-> 0, offset |-> 0, step |-> c.size, mask |-> {}, shift |-> 0,
   initread |-> (c.dir = "write" /\ ~c.array)]

\* The options in their order; parseU32() throws when one is no number.
Throws(c) == \E i \in DOMAIN c.opts : c.opts[i].name \notin Names \/ ~c.opts[i].number
Options(c) == FoldLeft(LAMBDA p, o : [p EXCEPT ![o.name] = o.value], Defaults(c), c.opts)

\* parseU32() makes epicsUInt32 of them.
ASSUME OptionsAssumption ==
  \A d \in Databases : \A r \in Records :
    ~Throws(d[r]) =>
      /\ \A name \in {"offset", "step", "shift"} : Options(d[r])[name] \in 0 .. Wrap - 1
      /\ Options(d[r]).mask \subseteq Bits(4)

\* The register itself must lie in the BAR, the sum is one of 32 bits.
OutOfRange(c) ==
  \/ Options(c).offset >= BarSize
  \/ (Options(c).offset + c.size) % Wrap > BarSize

-----------------------------------------------------------------------------
(* readraw, read and write; c is the link of a record, p its options       *)

\* What lies outside of the BAR is unknown; {} stands for it.
Outside(c, p, off) == p.offset + off + c.size > BarSize
BytesAt(c, p, off) ==
  [i \in 1 .. c.size |->
     IF p.offset + off + i <= BarSize THEN mem[p.offset + off + i - 1] ELSE {}]

Readraw(c, p, off) == IoRead(cpu, c.ord, BytesAt(c, p, off))

\* Mutant: the value is not shifted.
ReadUnshifted(c, p, off) ==
  Readraw(c, p, off) \cap (IF p.mask # {} THEN p.mask ELSE Bits(4))

\* read()
Read(c, p, off) ==
  LET raw == Readraw(c, p, off) IN
  {b - p.shift : b \in {n \in raw : n >= p.shift /\ (p.mask # {} => n \in p.mask)}}

Shifted(p, v) == {b + p.shift : b \in v}

\* Mutant: the other bits of the register are cleared.
MergeForgets(p, v, old) ==
  IF p.mask = {} THEN Shifted(p, v) ELSE Shifted(p, v) \cap p.mask

\* write(): the value in its place, among the other bits of the register.
Merge(p, v, old) ==
  IF p.mask = {} THEN Shifted(p, v) ELSE (Shifted(p, v) \cap p.mask) \cup (old \ p.mask)

Written(c, p, off, v) ==
  LET new == IoWrite(cpu, c.ord, c.size, v)
      at(a) == a - (p.offset + off) + 1
  IN  [a \in DOMAIN mem |-> IF at(a) \in DOMAIN new THEN new[at(a)] ELSE mem[a]]

\* The type of the elements cuts a value off.
Cast(c, v) == v \cap Bits(c.elem)

-----------------------------------------------------------------------------
(* The array loops; a record that is no waveform has one element           *)

ElemAddr(p, i) == (i * p.step) % Wrap

\* Mutant: the end itself still belongs to the BAR.
WithinEnd(p, i) == \A j \in 0 .. i : ElemAddr(p, j) <= BarSize - p.offset

\* The loop has not ended before its element i.
Within(p, i) == \A j \in 0 .. i : ElemAddr(p, j) < BarSize - p.offset

\* readArray() of n elements when nobody else runs.
ReadArray(c, p, n) ==
  LET count == Cardinality({i \in 0 .. n - 1 : Within(p, i)})
  IN  [k \in 1 .. count |-> Cast(c, Read(c, p, ElemAddr(p, k - 1)))]

\* menuFtype: the switch has no case for the type.
BadType(r) == db[r].elem = 0

-----------------------------------------------------------------------------
(* Initialisation, before the scan threads start                           *)

\* Any error is caught: the record has no dpvt and does nothing from then on.
InitFails(r) ==
  /\ status[r] = "new"
  /\ \/ db[r].spec = "unknown" \/ Throws(db[r])
     \/ ~Throws(db[r]) /\ OutOfRange(db[r])
     \/ db[r].spec = "found"   \* the BAR has no address or no size
  /\ status' = [status EXCEPT ![r] = "failed"]
  /\ UNCHANGED <<cpu, db, pvt, mem, busy, val, alarm, wild, last, fresh>>

\* With initread the register is read at once.
InitRecord(r) ==
  LET c == db[r] p == Options(c) IN
  /\ status[r] = "new"
  /\ db[r].spec # "unknown" /\ ~Throws(db[r]) /\ ~OutOfRange(db[r])
  /\ status' = [status EXCEPT ![r] = "ready"]
  /\ pvt' = [pvt EXCEPT ![r] = p]
  /\ IF p.initread /\ ~BadType(r)
     THEN /\ val' = [val EXCEPT ![r] = ReadArray(c, p, c.nelm)]
          /\ fresh' = fresh \cup {r}
          /\ wild' = IF \E i \in 0 .. c.nelm - 1 : Within(p, i) /\ Outside(c, p, ElemAddr(p, i))
                     THEN wild \cup {r} ELSE wild
     ELSE UNCHANGED <<val, fresh, wild>>
  /\ alarm' = IF p.initread /\ BadType(r) THEN alarm \cup {r} ELSE alarm
  /\ UNCHANGED <<cpu, db, mem, busy, last>>

-----------------------------------------------------------------------------
(* Processing                                                              *)

\* External: the scan threads start when all records are initialised, and
\* dbScanLock() keeps the records of a lock set apart.
CanProcess(r) ==
  /\ \A q \in Records : status[q] # "new"
  /\ status[r] = "ready"
  /\ \A q \in Records : db[q].lockset = db[r].lockset => ~busy[q].on

ProcessBadType(r) ==
  /\ CanProcess(r) /\ BadType(r)
  /\ alarm' = alarm \cup {r}
  /\ UNCHANGED <<dbVars, mem, busy, val, wild, last, fresh>>

\* External: alarms are reset when a record is processed.
ReadBegin(r) ==
  /\ CanProcess(r) /\ ~BadType(r) /\ db[r].dir = "read"
  /\ busy' = [busy EXCEPT ![r] = [Idle EXCEPT !.on = TRUE]]
  /\ val' = [val EXCEPT ![r] = <<>>]
  /\ alarm' = alarm \ {r}
  /\ fresh' = fresh \cup {r}
  /\ UNCHANGED <<dbVars, mem, wild, last>>

\* A new value was put into the record.
WriteBegin(r, v) ==
  /\ CanProcess(r) /\ ~BadType(r) /\ db[r].dir = "write"
  /\ Len(v) <= db[r].nelm /\ (~db[r].array => Len(v) = 1)
  /\ busy' = [busy EXCEPT ![r] = [Idle EXCEPT !.on = TRUE]]
  /\ val' = [val EXCEPT ![r] = [k \in DOMAIN v |-> Cast(db[r], v[k])]]
  /\ alarm' = alarm \ {r}
  /\ fresh' = fresh \ {r}
  /\ UNCHANGED <<dbVars, mem, wild, last>>

Touch(r) ==
  wild' = IF Outside(db[r], pvt[r], ElemAddr(pvt[r], busy[r].i)) THEN wild \cup {r} ELSE wild

\* The number of elements of the loop.
Count(r) == IF db[r].dir = "read" THEN db[r].nelm ELSE Len(val[r])
More(r) == busy[r].on /\ busy[r].i < Count(r) /\ Within(pvt[r], busy[r].i)

ReadElement(r) ==
  /\ More(r) /\ db[r].dir = "read"
  /\ val' = [val EXCEPT ![r] =
               Append(@, Cast(db[r], Read(db[r], pvt[r], ElemAddr(pvt[r], busy[r].i))))]
  /\ busy' = [busy EXCEPT ![r].i = @ + 1]
  /\ Touch(r)
  /\ UNCHANGED <<dbVars, mem, alarm, last, fresh>>

\* The first half of a write with a mask.
ReadOld(r) ==
  /\ More(r) /\ db[r].dir = "write"
  /\ pvt[r].mask # {} /\ busy[r].old = <<>>
  /\ busy' = [busy EXCEPT ![r].old =
                <<Readraw(db[r], pvt[r], ElemAddr(pvt[r], busy[r].i))>>]
  /\ Touch(r)
  /\ UNCHANGED <<dbVars, mem, val, alarm, last, fresh>>

WriteElement(r) ==
  LET v == val[r][busy[r].i + 1]
      old == IF pvt[r].mask = {} THEN {} ELSE busy[r].old[1]
  IN
  /\ More(r) /\ db[r].dir = "write"
  /\ pvt[r].mask # {} => busy[r].old # <<>>
  /\ mem' = Written(db[r], pvt[r], ElemAddr(pvt[r], busy[r].i), Merge(pvt[r], v, old))
  /\ busy' = [busy EXCEPT ![r].i = @ + 1, ![r].old = <<>>]
  /\ last' = [last EXCEPT ![r] = <<v>>]
  /\ fresh' = {}
  /\ Touch(r)
  /\ UNCHANGED <<dbVars, val, alarm>>

\* A waveform that was not written to its end is in alarm.
Finish(r) ==
  /\ busy[r].on /\ ~More(r)
  /\ busy' = [busy EXCEPT ![r] = Idle]
  /\ alarm' = IF db[r].dir = "write" /\ busy[r].i # Count(r) THEN alarm \cup {r} ELSE alarm
  /\ UNCHANGED <<dbVars, mem, val, wild, last, fresh>>

-----------------------------------------------------------------------------
Init ==
  /\ cpu \in Cpus /\ db \in Databases
  /\ mem \in [0 .. BarSize - 1 -> {{}, 0 .. ByteBits - 1}]
  /\ status = [r \in Records |-> "new"]
  /\ pvt = [r \in Records |-> <<>>]
  /\ busy = [r \in Records |-> Idle]
  /\ val = [r \in Records |-> <<>>]
  /\ alarm = {} /\ wild = {} /\ fresh = {}
  /\ last = [r \in Records |-> <<>>]

Next ==
  \E r \in Records :
    \/ InitFails(r) \/ InitRecord(r)
    \/ ProcessBadType(r) \/ ReadBegin(r)
    \/ \E v \in Values : WriteBegin(r, v)
    \/ ReadElement(r) \/ ReadOld(r) \/ WriteElement(r) \/ Finish(r)

Spec == Init /\ [][Next]_vars

-----------------------------------------------------------------------------
(* The bits of the BAR a record is about: <<address, bit>>                 *)

Ready == {r \in Records : status[r] = "ready"}

\* Where bit b of a register is in memory, from the meaning of the orders.
Cell(r, i, b) ==
  LET big == db[r].ord = "BE" \/ (db[r].ord = "NAT" /\ BigEndian(cpu))
      byte == IF big THEN db[r].size - 1 - b \div ByteBits ELSE b \div ByteBits
  IN  <<pvt[r].offset + ElemAddr(pvt[r], i) + byte, b % ByteBits>>

Field(r) == IF pvt[r].mask = {} THEN Bits(db[r].size) ELSE pvt[r].mask \cap Bits(db[r].size)
Elements(r) == {i \in 0 .. db[r].nelm - 1 : Within(pvt[r], i)}
Cells(r) == {Cell(r, i, b) : i \in Elements(r), b \in Field(r)}
Span(r) == {Cell(r, i, b)[1] : i \in Elements(r), b \in Bits(db[r].size)}
IsSet(cell) == cell[1] < BarSize /\ cell[2] \in mem[cell[1]]

TypeOK ==
  /\ cpu \in Cpus /\ db \in Databases
  /\ mem \in [0 .. BarSize - 1 -> SUBSET (0 .. ByteBits - 1)]
  /\ status \in [Records -> {"new", "failed", "ready"}]
  /\ \A r \in Records : busy[r].i \in 0 .. db[r].nelm /\ Len(val[r]) <= db[r].nelm
  /\ alarm \cup wild \cup fresh \subseteq Ready

\* parseLink(), readArray(), writeArray(): only a record whose offset, step or
\* BAR is no multiple of its size ever accesses memory outside of the BAR.
InsideBar ==
  \A r \in wild :
    ~(\A n \in {pvt[r].offset, pvt[r].step, BarSize} : n % db[r].size = 0)

\* A record that is processed was initialised, with the options of its link.
PvtInv ==
  \A r \in Records :
    /\ status[r] = "ready" => ~Throws(db[r]) /\ ~OutOfRange(db[r]) /\ pvt[r] = Options(db[r])
    /\ busy[r].on => status[r] = "ready"
    /\ busy[r].i \in Nat

IInv == TypeOK /\ PvtInv /\ InsideBar

\* write(): a field keeps what was written last if no other record writes it
\* and those that write the same register are in the same lock set.  (The lock of
\* the record does not help: each has its own.)
Alone(r) ==
  \A q \in Ready \ {r} : db[q].dir = "write" =>
    /\ Cells(q) \cap Cells(r) = {}
    /\ db[q].lockset = db[r].lockset \/ Span(q) \cap Span(r) = {}

NothingLost ==
  \A r \in Ready :
    (~db[r].array /\ last[r] # <<>> /\ Alone(r)) =>
      \A b \in Field(r) : IsSet(Cell(r, 0, b)) <=> b - pvt[r].shift \in last[r][1]

\* read(): unless the BAR was written meanwhile, a record that has been read
\* shows the bits of its field.
ReadsTruth ==
  \A r \in fresh : ~busy[r].on =>
    \A k \in DOMAIN val[r] : \A b \in Bits(4) :
      b \in val[r][k] <=>
        /\ b \in Bits(db[r].elem) /\ b + pvt[r].shift \in Field(r)
        /\ IsSet(Cell(r, k - 1, b + pvt[r].shift))
=============================================================================
