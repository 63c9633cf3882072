--------------------------- MODULE SharedPciProofs ---------------------------
(***************************************************************************)
(* For every crate, system, list and number of threads: whoever probes a   *)
(* BAR gives it back its address before anybody else runs, the sizes and   *)
(* addresses drivers are told are true, a search tells of the devices that *)
(* are described, and a routine stays connected.                           *)
(***************************************************************************)
EXTENDS SharedPci, FiniteSetTheorems, TLAPS

-----------------------------------------------------------------------------
(* The registers                                                           *)

Kinds == {"io", "mem", "wide", "high"}

LEMMA BarFacts ==
  ASSUME TypeOK, NEW p \in DOMAIN bus, NEW b \in BarNos
  PROVE  /\ Bar(p, b).kind \in Kinds
         /\ Bar(p, b).value \subseteq Bit
         /\ Bar(p, b).size \in Nat
         /\ Bar(p, b).kind # "high" => Bar(p, b).size >= Low(Bar(p, b).kind)
         /\ Bar(p, b).kind = "wide" => b < BarCount /\ Bar(p, b + 1).kind = "high"
         /\ Bar(p, b).kind = "high" => b > 1 /\ Bar(p, b - 1).kind = "wide"
BY BusesAssumption DEF TypeOK, Bar, BarNos, Bit, Low, Kinds

LEMMA DevicesAreThere ==
  ASSUME TypeOK
  PROVE  /\ Range(devices) \subseteq DOMAIN bus
         /\ DOMAIN bus \subseteq Nat \X Nat \X Nat
BY BusesAssumption DEF TypeOK, Range

LEMMA LowBits ==
  ASSUME NEW kind \in Kinds
  PROVE  /\ Low(kind) \in {1, 2}
         /\ TypeBits(kind) \subseteq 0 .. Low(kind) - 1
<1>1. CASE kind = "io"
  BY <1>1 DEF TypeBits, Low
<1>2. CASE kind = "wide"
  BY <1>2 DEF TypeBits, Low
<1>3. CASE kind \in {"mem", "high"}
  BY <1>3 DEF TypeBits, Low
<1> QED BY <1>1, <1>2, <1>3 DEF Kinds

LEMMA StoredIsWord ==
  ASSUME TypeOK, NEW p \in DOMAIN bus, NEW r \in 0 .. BarCount, NEW v \in SUBSET Bit
  PROVE  Stored(p, r, v) \in SUBSET Bit
<1>1. CASE r = 0
  BY <1>1 DEF Stored
<1>2. CASE r # 0
  <2>1. r \in BarNos
    BY <1>2, BarCountAssumption DEF BarNos
  <2>2. TypeBits(Bar(p, r).kind) \subseteq Bit
    BY <2>1, BarFacts, LowBits, WidthAssumption DEF Bit
  <2> QED BY <2>2 DEF Stored
<1> QED BY <1>1, <1>2

LEMMA StoredTwice ==
  ASSUME TypeOK, NEW p \in DOMAIN bus, NEW b \in BarNos, NEW v \in SUBSET Bit
  PROVE  Stored(p, b, Stored(p, b, v)) = Stored(p, b, v)
<1>1. CASE Bar(p, b).kind = "high"
  BY <1>1 DEF Stored
<1>2. CASE Bar(p, b).kind # "high"
  <2> DEFINE k == Bar(p, b).kind  n == Bar(p, b).size
  <2>1. k \in Kinds /\ n \in Nat /\ n >= Low(k) /\ b # 0
    BY <1>2, BarFacts DEF BarNos
  <2>2. \A i \in TypeBits(k) : i \in Nat /\ ~(i >= n)
    BY <2>1, LowBits
  <2>3. \A w : Stored(p, b, w) = {i \in w : i >= n} \cup TypeBits(k)
    BY <1>2, <2>1 DEF Stored
  <2> HIDE DEF k, n
  <2>4. {i \in {i \in v : i >= n} \cup TypeBits(k) : i >= n} = {i \in v : i >= n}
    BY <2>2
  <2> QED BY <2>3, <2>4
<1> QED BY <1>1, <1>2

LEMMA ConfiguredIsWord ==
  ASSUME TypeOK, NEW p \in DOMAIN bus, NEW b \in BarNos
  PROVE  /\ Configured(p, b) \in SUBSET Bit
         /\ Stored(p, b, Configured(p, b)) = Configured(p, b)
<1>1. Bar(p, b).value \in SUBSET Bit /\ b \in 0 .. BarCount
  BY BarFacts DEF BarNos
<1> QED BY <1>1, StoredIsWord, StoredTwice DEF Configured

LEMMA ProbedIsWord ==
  ASSUME TypeOK, NEW p \in DOMAIN bus, NEW b \in BarNos
  PROVE  /\ Masked(Bar(p, b).kind, Bit) \in SUBSET Bit
         /\ Probed(p, b) \in SUBSET Bit
<1>1. Masked(Bar(p, b).kind, Bit) \in SUBSET Bit /\ b \in 0 .. BarCount
  BY DEF BarNos, Masked
<1> QED BY <1>1, StoredIsWord DEF Probed

\* The probe finds the size of a BAR, unless that is larger than the word.
LEMMA ProbeFindsSize ==
  ASSUME TypeOK, NEW p \in DOMAIN bus, NEW b \in BarNos, Bar(p, b).kind # "high"
  PROVE  LowestBit(Masked(Bar(p, b).kind, Probed(p, b))) \subseteq {Bar(p, b).size}
<1> DEFINE k == Bar(p, b).kind  n == Bar(p, b).size
<1>1. k \in Kinds /\ n \in Nat /\ n >= Low(k) /\ b # 0 /\ Low(k) \in {1, 2}
  BY BarFacts, LowBits DEF BarNos
<1>2. \A i \in TypeBits(k) : i \in Nat /\ ~(i >= Low(k))
  BY <1>1, LowBits
<1>3. Probed(p, b) = {i \in Bit : i >= Low(k) /\ i >= n} \cup TypeBits(k)
  BY <1>1 DEF Probed, Stored, Masked
<1> HIDE DEF k, n
<1>4. Masked(k, Probed(p, b)) = {i \in Bit : i >= n}
  BY <1>1, <1>2, <1>3 DEF Masked, Bit
<1>5. ASSUME NEW i \in LowestBit({i \in Bit : i >= n})
      PROVE  i = n
  <2>1. i \in Bit /\ i >= n /\ \A j \in Bit : j >= n => i <= j
    BY <1>5 DEF LowestBit
  <2>2. n \in Bit
    BY <1>1, <2>1, WidthAssumption DEF Bit
  <2> QED BY <1>1, <2>1, <2>2 DEF Bit
<1> QED BY <1>4, <1>5 DEF k, n
-----------------------------------------------------------------------------
(* Who runs                                                                *)

LEMMA LockIsHeld ==
  ASSUME IInv, NEW t \in Threads
  PROVE  /\ irqLock = t <=> pc[t] \in Locked
         /\ pc[t] \in Locked => \A u \in Threads \ {t} : pc[u] \notin Locked
         /\ irqLock = NoOne => pc[t] \notin Locked
         /\ CanRun(t) /\ pc[t] \notin Locked => irqLock = NoOne
BY NoOneAssumption DEF IInv, ProbeInv, CanRun

\* What a step of a thread that has not locked the interrupts leaves alone.
LEMMA SearchStays ==
  ASSUME NEW u \in Threads, SearchInv(u), bus' = bus, devices' = devices,
         pc'[u] \in {"search", "found"} => job'[u] = job[u] /\ pc'[u] = pc[u]
  PROVE  SearchInv(u)'
<1> SUFFICES ASSUME pc'[u] \in {"search", "found"} PROVE SearchInv(u)'
  BY DEF SearchInv
<1>1. Hits(u)' = Hits(u) /\ Ahead(u)' = Ahead(u)
  BY DEF Hits, Ahead
<1> QED BY <1>1 DEF SearchInv

LEMMA ListStays ==
  ASSUME ListInv, UNCHANGED <<bus, devices>>, state' = "new" => state = "new",
         state' = "new" => connected' = connected /\ pc' = pc
  PROVE  ListInv'
BY DEF ListInv, Unseen, Scanned

LEMMA RegisterStays ==
  ASSUME TypeOK, RegisterInv, UNCHANGED <<bus, devices, reg>>,
         \A u \in Threads : pc'[u] \in Changed \/ pc[u] \in Changed => pc'[u] \in Changed /\ pc[u] \in Changed /\ job'[u] = job[u]
  PROVE  RegisterInv'
<1> SUFFICES ASSUME NEW p \in Range(devices), NEW b \in BarNos
             PROVE  reg'[p][b] = IF \E t \in Threads : pc'[t] \in Changed /\ job'[t].dev = p /\ job'[t].bar = b
                                 THEN Probed(p, b)' ELSE Configured(p, b)'
  BY DEF RegisterInv
<1>1. Probed(p, b)' = Probed(p, b) /\ Configured(p, b)' = Configured(p, b)
  BY DEF Probed, Configured, Stored, Bar
<1>2. (\E t \in Threads : pc'[t] \in Changed /\ job'[t].dev = p /\ job'[t].bar = b)
        <=> \E t \in Threads : pc[t] \in Changed /\ job[t].dev = p /\ job[t].bar = b
  OBVIOUS
<1> QED BY <1>1, <1>2 DEF RegisterInv

-----------------------------------------------------------------------------
(* The scan                                                                *)

\* The addresses of the bus are ordered.
LEMMA BeforeOrder ==
  ASSUME NEW p \in Nat \X Nat \X Nat, NEW q \in Nat \X Nat \X Nat, NEW r \in Nat \X Nat \X Nat
  PROVE  /\ ~Before(p, p)
         /\ Before(p, q) => ~Before(q, p)
         /\ Before(p, q) /\ Before(q, r) => Before(p, r)
<1>1. \A a, b \in Nat \X Nat \X Nat :
        Before(a, b) <=> \/ a[1] < b[1]
                         \/ a[1] = b[1] /\ a[2] < b[2]
                         \/ a[1] = b[1] /\ a[2] = b[2] /\ a[3] < b[3]
  <2> TAKE a, b \in Nat \X Nat \X Nat
  <2>1. \A k \in 1 .. 3 : k = 1 \/ k = 2 \/ k = 3
    OBVIOUS
  <2>2. 1 .. 1 - 1 = {} /\ 1 .. 2 - 1 = {1} /\ 1 .. 3 - 1 = {1, 2}
    OBVIOUS
  <2>3. Before(a, b) <=> \/ a[1] < b[1] /\ \A j \in 1 .. 1 - 1 : a[j] = b[j]
                         \/ a[2] < b[2] /\ \A j \in 1 .. 2 - 1 : a[j] = b[j]
                         \/ a[3] < b[3] /\ \A j \in 1 .. 3 - 1 : a[j] = b[j]
    BY <2>1 DEF Before
  <2> QED BY <2>2, <2>3
<1> QED BY <1>1

\* A device that is appended.
LEMMA AppendRange ==
  ASSUME NEW S, NEW s \in Seq(S), NEW p \in S
  PROVE  /\ Append(s, p) \in Seq(S)
         /\ DOMAIN Append(s, p) = 1 .. Len(s) + 1
         /\ \A i \in DOMAIN s : Append(s, p)[i] = s[i]
         /\ Append(s, p)[Len(s) + 1] = p
         /\ Range(Append(s, p)) = Range(s) \cup {p}
<1>1. /\ Append(s, p) \in Seq(S) /\ Len(Append(s, p)) = Len(s) + 1
      /\ \A i \in 1 .. Len(s) : Append(s, p)[i] = s[i]
      /\ Append(s, p)[Len(s) + 1] = p /\ Len(s) \in Nat
      /\ DOMAIN s = 1 .. Len(s) /\ DOMAIN Append(s, p) = 1 .. Len(s) + 1
  OBVIOUS
<1>2. 1 .. Len(s) + 1 = (1 .. Len(s)) \cup {Len(s) + 1}
  BY <1>1
<1>3. Range(Append(s, p)) = Range(s) \cup {p}
  BY <1>1, <1>2 DEF Range
<1> QED BY <1>1, <1>3

\* What depends on the crate and the system only.
LEMMA SameCrate ==
  ASSUME bus' = bus, NEW p
  PROVE  ReadBase(p)' = ReadBase(p)
BY DEF ReadBase, Configured, Stored, Masked, Bar

LEMMA ScanTypes ==
  ASSUME IInv, ScanDevice
  PROVE  TypeOK'
<1>1. PICK p \in Unseen : devices' = Append(devices, p)
  BY DEF ScanDevice
<1>2. p \in DOMAIN bus /\ devices \in Seq(DOMAIN bus)
  BY <1>1 DEF Unseen, IInv, TypeOK
<1>3. devices' \in Seq(DOMAIN bus) /\ Range(devices') \subseteq DOMAIN bus
  BY <1>1, <1>2, AppendRange DEF Range
<1>4. \A q \in Range(devices') : ReadBase(q)' = ReadBase(q)
  BY SameCrate DEF ScanDevice
<1>5. base' = [q \in Range(devices') |-> ReadBase(q)']
  BY <1>4 DEF ScanDevice
<1>6. len' \in [Range(devices') -> [BarNos -> SUBSET Bit]]
  BY DEF ScanDevice
<1>7. reg' \in [Range(devices') -> [0 .. BarCount -> SUBSET Bit]]
  <2>1. ASSUME NEW q \in Range(devices'), NEW r \in 0 .. BarCount
        PROVE  (IF r = 0 THEN {} ELSE Configured(q, r)) \in SUBSET Bit
    <3>1. CASE r # 0
      <4>1. r \in BarNos
        BY <3>1, BarCountAssumption DEF BarNos
      <4> QED BY <1>3, <3>1, <4>1, ConfiguredIsWord DEF IInv
    <3> QED BY <3>1
  <2> QED BY <2>1 DEF ScanDevice
<1>8. Jobs' = Jobs
  BY DEF ScanDevice, busVars, Jobs
<1> QED
  BY <1>3, <1>5, <1>6, <1>7, <1>8 DEF ScanDevice, IInv, TypeOK, irqVars, threadVars

\* The thread's part of the invariant while all are idle.
LEMMA IdleKeeps ==
  ASSUME IInv, state = "new", UNCHANGED threadVars
  PROVE  \A t \in Threads : pc'[t] = "idle" /\ ProbeInv(t)' /\ SearchInv(t)'
<1> TAKE t \in Threads
<1>1. pc[t] = "idle" /\ ProbeInv(t)
  BY DEF IInv, ListInv
<1> QED BY <1>1 DEF threadVars, ProbeInv, SearchInv, Locked, Probing, Changed

LEMMA ScanDeviceKeeps ==
  ASSUME IInv, ScanDevice
  PROVE  IInv'
<1>1. PICK p \in Unseen : /\ devices' = Append(devices, p)
                          /\ \A q \in Unseen \ {p} : Before(p, q)
  BY DEF ScanDevice
<1>2. state = "new" /\ state' = "new" /\ UNCHANGED <<bus, threadVars, connected>>
  BY DEF ScanDevice, irqVars
<1>3. p \in DOMAIN bus /\ devices \in Seq(DOMAIN bus) /\ DOMAIN bus \subseteq Nat \X Nat \X Nat
  BY <1>1, DevicesAreThere DEF Unseen, IInv, TypeOK
<1>4. /\ Range(devices') = Range(devices) \cup {p}
      /\ DOMAIN devices' = (DOMAIN devices) \cup {Len(devices) + 1}
      /\ \A i \in DOMAIN devices : i \in Nat /\ i <= Len(devices) /\ devices'[i] = devices[i]
      /\ devices'[Len(devices) + 1] = p /\ Len(devices) \in Nat
  <2>1. /\ DOMAIN devices' = 1 .. Len(devices) + 1
        /\ \A i \in DOMAIN devices : devices'[i] = devices[i]
        /\ devices'[Len(devices) + 1] = p
        /\ Range(devices') = Range(devices) \cup {p}
    BY <1>1, <1>3, AppendRange
  <2>2. DOMAIN devices = 1 .. Len(devices) /\ Len(devices) \in Nat
    BY <1>3
  <2>3. \A n \in Nat : 1 .. n + 1 = (1 .. n) \cup {n + 1} /\ \A i \in 1 .. n : i \in Nat /\ i <= n
    OBVIOUS
  <2> QED BY <2>1, <2>2, <2>3
<1>5. TypeOK'
  BY ScanTypes
<1>6. \A t \in Threads : pc'[t] = "idle" /\ ProbeInv(t)' /\ SearchInv(t)'
  BY <1>2, IdleKeeps
<1>7. RegisterInv'
  <2>1. \A q \in Range(devices'), b \in BarNos : reg'[q][b] = Configured(q, b)
    BY DEF ScanDevice, BarNos
  <2>2. \A q, b : Configured(q, b)' = Configured(q, b)
    BY <1>2 DEF Configured, Stored, Bar
  <2> QED BY <1>6, <2>1, <2>2 DEF RegisterInv, Changed
<1>8. BarsIntact'
  BY <1>6, <1>7 DEF BarsIntact, RegisterInv, Changed
<1>9. ListInv'
  <2>1. \A i \in DOMAIN devices : Before(devices[i], p)
    BY <1>1, <1>2 DEF IInv, ListInv
  <2>2. \A i, j \in DOMAIN devices' : i < j => Before(devices'[i], devices'[j])
    <3> SUFFICES ASSUME NEW i \in DOMAIN devices', NEW j \in DOMAIN devices', i < j
                 PROVE  Before(devices'[i], devices'[j])
      OBVIOUS
    <3>1. i \in DOMAIN devices
      BY <1>4
    <3>2. CASE j \in DOMAIN devices
      BY <1>4, <3>1, <3>2 DEF IInv, ListInv
    <3>3. CASE j = Len(devices) + 1
      BY <1>4, <2>1, <3>1, <3>3
    <3> QED BY <1>4, <3>2, <3>3
  <2>3. Unseen' = Unseen \ {p}
    BY <1>2, <1>4 DEF Unseen, Scanned
  <2>4. ASSUME NEW q \in Unseen', NEW i \in DOMAIN devices'
        PROVE  Before(devices'[i], q)
    <3>1. q \in Unseen /\ Before(p, q)
      BY <1>1, <2>3, <2>4
    <3>2. CASE i \in DOMAIN devices
      BY <1>2, <1>4, <3>1, <3>2 DEF IInv, ListInv
    <3> QED BY <1>4, <3>1, <3>2
  <2> QED BY <1>2, <1>6, <2>2, <2>4 DEF ListInv, IInv
<1> QED BY <1>5, <1>6, <1>7, <1>8, <1>9 DEF IInv

LEMMA ScanEndsKeeps ==
  ASSUME IInv, ScanEnds
  PROVE  IInv'
<1>1. UNCHANGED <<build, bus, devices, base, regVars, irqVars, threadVars>> /\ state = "new" /\ state' # "new"
  BY DEF ScanEnds
<1>2. \A p : ReadBase(p)' = ReadBase(p) /\ \A b : Configured(p, b)' = Configured(p, b)
  BY <1>1 DEF ReadBase, Configured, Stored, Masked, Bar
<1>3. TypeOK'
  <2>1. Jobs' = Jobs
    BY <1>1 DEF Jobs
  <2>2. state' \in {"ready", "failed"}
    BY DEF ScanEnds
  <2> QED BY <1>1, <1>2, <2>1, <2>2 DEF IInv, TypeOK, regVars, threadVars
<1>4. \A t \in Threads : pc'[t] = "idle" /\ ProbeInv(t)' /\ SearchInv(t)'
  BY <1>1, IdleKeeps
<1>5. RegisterInv'
  BY <1>1, <1>4, RegisterStays DEF IInv, regVars, threadVars, Changed, ListInv
<1>6. BarsIntact'
  BY <1>1, <1>2 DEF IInv, BarsIntact, regVars, threadVars
<1>7. ListInv'
  BY <1>1, ListStays DEF IInv
<1> QED BY <1>3, <1>4, <1>5, <1>6, <1>7 DEF IInv

-----------------------------------------------------------------------------
(* The search                                                              *)

LEMMA ThreadMoves ==
  ASSUME IInv, NEW t \in Threads, pc[t] \notin Locked, state # "new",
         NEW x \in {"search", "found", "idle"}, Goto(t, x),
         NEW j \in Jobs, job' = [job EXCEPT ![t] = j],
         UNCHANGED <<busVars, regVars, irqVars, irqLock>>, SearchInv(t)'
  PROVE  IInv'
<1>1. /\ pc'[t] = x /\ job'[t] = j
      /\ \A u \in Threads \ {t} : pc'[u] = pc[u] /\ job'[u] = job[u]
  BY DEF Goto, IInv, TypeOK
<1>2. UNCHANGED <<bus, state, devices, base, reg, index, irqLock, connected>>
  BY DEF busVars, regVars, irqVars
<1>3. TypeOK'
  <2>1. \A p : ReadBase(p)' = ReadBase(p)
    BY <1>2, SameCrate
  <2>2. Jobs' = Jobs
    BY <1>2 DEF Jobs
  <2>3. job' \in [Threads -> Jobs] /\ pc' \in [Threads -> Points]
    BY DEF IInv, TypeOK, Goto, Points
  <2> QED BY <2>1, <2>2, <2>3 DEF IInv, TypeOK, busVars, regVars, irqVars
<1>4. \A u \in Threads : ProbeInv(u)'
  <2> TAKE u \in Threads
  <2>1. \A p, b : Configured(p, b)' = Configured(p, b) /\ Probed(p, b)' = Probed(p, b)
    BY <1>2 DEF Configured, Probed, Stored, Bar
  <2>2. CASE u = t
    <3>1. pc'[t] \notin Locked /\ irqLock' # t
      BY <1>1, <1>2, LockIsHeld DEF Locked, Probing
    <3> QED BY <2>2, <3>1 DEF ProbeInv, Locked, Probing, Changed
  <2>3. CASE u # t
    BY <1>1, <1>2, <2>1, <2>3 DEF IInv, ProbeInv
  <2> QED BY <2>2, <2>3
<1>5. \A u \in Threads : SearchInv(u)'
  BY <1>1, <1>2, SearchStays DEF IInv
<1>6. RegisterInv'
  BY <1>1, <1>2, RegisterStays DEF IInv, Locked, Probing, Changed
<1>7. BarsIntact'
  BY <1>2 DEF IInv, BarsIntact, Configured, Stored, Bar
<1>8. ListInv'
  BY <1>2, ListStays DEF IInv
<1> QED BY <1>3, <1>4, <1>5, <1>6, <1>7, <1>8 DEF IInv

\* The positions of entries, and what the pairs are.
LEMMA EntryTypes ==
  ASSUME NEW ids \in Lists \cup {<<>>}, NEW tail \in Behind \cup {<<>>}
  PROVE  Entries(ids \o tail) \subseteq Nat \ {0}
<1> DEFINE S == {ids[i] : i \in DOMAIN ids} \cup {tail[i] : i \in DOMAIN tail}
<1>1. \A T : <<>> \in Seq(T)
  OBVIOUS
<1>2. ids \in Seq({ids[i] : i \in DOMAIN ids})
  <2>1. CASE ids \in Lists
    BY <2>1, ListsAssumption
  <2> QED BY <1>1, <2>1
<1>3. tail \in Seq({tail[i] : i \in DOMAIN tail})
  <2>1. CASE tail \in Behind
    BY <2>1, ListsAssumption
  <2> QED BY <1>1, <2>1
<1>4. ids \in Seq(S) /\ tail \in Seq(S)
  BY <1>2, <1>3
<1> HIDE DEF S
<1>5. ids \o tail \in Seq(S)
  BY <1>4
<1> QED BY <1>5 DEF Entries

LEMMA HitTypes ==
  ASSUME TypeOK, NEW t \in Threads
  PROVE  /\ Hits(t) \subseteq Nat \X Nat
         /\ \A h \in Hits(t) : /\ h[1] \in DOMAIN devices /\ devices[h[1]] \in DOMAIN bus
                               /\ h[1] >= 1 /\ h[2] >= 1
<1>1. job[t].ids \in Lists \cup {<<>>} /\ job[t].tail \in Behind \cup {<<>>}
  BY DEF TypeOK, Jobs
<1>2. \A i \in Entries(job[t].ids \o job[t].tail) : i \in Nat /\ i >= 1
  BY <1>1, EntryTypes
<1>3. \A k \in DOMAIN devices : k \in Nat /\ k >= 1 /\ devices[k] \in DOMAIN bus
  BY DEF TypeOK
<1> QED BY <1>2, <1>3 DEF Hits

LEMMA LaterOrder ==
  ASSUME NEW f \in Nat \X Nat, NEW g \in Nat \X Nat, NEW h \in Nat \X Nat
  PROVE  /\ ~Later(f, f)
         /\ Later(f, g) /\ Later(g, h) => Later(f, h)
         /\ ~Later(f, g) /\ Later(f, h) => g[1] <= h[1]
BY DEF Later

LEMMA FindStartKeeps ==
  ASSUME IInv, NEW t \in Threads, NEW ids \in Lists, NEW tail \in Behind, FindStart(t, ids, tail)
  PROVE  IInv'
<1> DEFINE j == [NoJob EXCEPT !.ids = ids, !.tail = tail]
<1>1. j \in Jobs
  <2>1. <<>> \in Seq(DOMAIN bus)
    OBVIOUS
  <2>2. 0 \in 0 .. BarCount
    BY BarCountAssumption
  <2> QED BY <2>1, <2>2 DEF NoJob, Jobs
<1>2. j.told = <<>> /\ j.at = <<0, 0>> /\ ~j.whole
  BY DEF NoJob
<1>3. job' = [job EXCEPT ![t] = j] /\ job'[t] = j /\ job' \in [Threads -> Jobs]
  BY <1>1 DEF FindStart, IInv, TypeOK
<1> HIDE DEF j
<1>4. bus' = bus /\ devices' = devices /\ state = "ready" /\ Jobs' = Jobs
  BY DEF FindStart, busVars, Jobs
<1>5. SearchInv(t)'
  <2>1. \A h \in Hits(t)' : h \in Nat \X Nat /\ h[1] >= 1
    <3>1. \A k \in DOMAIN devices' : k \in Nat /\ k >= 1
      BY <1>4 DEF IInv, TypeOK
    <3>2. Entries(ids \o tail) \subseteq Nat
      BY EntryTypes
    <3>3. job'[t].ids = ids /\ job'[t].tail = tail
      BY <1>3 DEF j, NoJob
    <3> QED BY <3>1, <3>2, <3>3 DEF Hits, Entries
  <2>2. Ahead(t)' = Hits(t)'
    BY <1>2, <1>3, <2>1 DEF Ahead, Later
  <2>3. job'[t].ids \in Lists /\ job'[t].tail \in Behind
    BY <1>3 DEF j, NoJob
  <2> QED BY <1>2, <1>3, <2>2, <2>3 DEF SearchInv
<1>6. pc[t] \notin Locked /\ Goto(t, "search")
  BY DEF FindStart, Locked, Probing
<1> QED BY <1>1, <1>3, <1>4, <1>5, <1>6, ThreadMoves DEF FindStart

LEMMA CallbackKeeps ==
  ASSUME IInv, NEW t \in Threads, Callback(t)
  PROVE  IInv'
<1>1. PICK h \in Ahead(t) :
        /\ \A g \in Ahead(t) \ {h} : Later(h, g)
        /\ job' = [job EXCEPT ![t].told = Append(@, devices[h[1]]), ![t].at = h]
  BY DEF Callback
<1>2. PICK x \in {"search", "found"} : Goto(t, x)
  BY DEF Callback
<1> DEFINE d == devices[h[1]]
           j == [job[t] EXCEPT !.told = Append(@, d), !.at = h]
<1>3. /\ Hits(t) \subseteq Nat \X Nat /\ h \in Hits(t)
      /\ \A g \in Hits(t) : g[1] \in DOMAIN devices /\ devices[g[1]] \in DOMAIN bus
  BY HitTypes DEF IInv, Ahead
<1>4. job[t] \in Jobs /\ job[t].told \in Seq(DOMAIN bus) /\ job[t].at \in Nat \X Nat
  BY DEF IInv, TypeOK, Jobs
<1>5. j \in Jobs /\ job' = [job EXCEPT ![t] = j] /\ job'[t] = j
  <2>1. Append(job[t].told, d) \in Seq(DOMAIN bus)
    BY <1>3, <1>4, AppendRange
  <2>2. h \in Nat \X Nat
    BY <1>3
  <2>3. j \in Jobs
    BY <1>4, <2>1, <2>2 DEF Jobs
  <2>4. job' = [job EXCEPT ![t] = j]
    BY <1>1
  <2> QED BY <2>3, <2>4 DEF IInv, TypeOK
<1>6. /\ j.ids = job[t].ids /\ j.tail = job[t].tail /\ j.whole = job[t].whole
      /\ j.told = Append(job[t].told, d) /\ j.at = h
  BY <1>4 DEF Jobs
<1> HIDE DEF j
<1>7. UNCHANGED <<bus, devices, state>>
  BY DEF Callback, busVars
<1>8. SearchInv(t)'
  <2>1. Hits(t)' = Hits(t)
    BY <1>5, <1>6, <1>7 DEF Hits
  <2>2. Ahead(t)' = Ahead(t) \ {h}
    <3>1. Ahead(t)' = {g \in Hits(t) : Later(h, g)}
      BY <1>5, <1>6, <2>1 DEF Ahead
    <3>2. ASSUME NEW g \in Hits(t), Later(h, g)
          PROVE  g \in Ahead(t) /\ g # h
      BY <1>3, <1>4, <3>2, LaterOrder DEF Ahead
    <3> QED BY <1>1, <3>1, <3>2 DEF Ahead
  <2>3. Hits(t)' \ Ahead(t)' = (Hits(t) \ Ahead(t)) \cup {h}
    BY <1>3, <2>1, <2>2
  <2>4. pc[t] = "search" /\ SearchInv(t)
    BY DEF Callback, IInv
  <2> DEFINE told == job[t].told
  <2>5. /\ DOMAIN told = 1 .. Len(told) /\ Len(told) \in Nat
        /\ DOMAIN j.told = 1 .. Len(told) + 1
        /\ \A i \in DOMAIN told : j.told[i] = told[i]
        /\ j.told[Len(told) + 1] = d
        /\ Range(j.told) = Range(told) \cup {d}
    BY <1>3, <1>4, <1>6, AppendRange
  <2>6. \A i \in DOMAIN j.told : i \in DOMAIN told \/ i = Len(told) + 1
    BY <2>5
  <2>7. \A i \in DOMAIN told : \E g \in Hits(t) \ Ahead(t) : told[i] = devices[g[1]]
    BY <2>4 DEF SearchInv
  <2>8. \A i \in DOMAIN j.told : \E g \in (Hits(t) \ Ahead(t)) \cup {h} : j.told[i] = devices[g[1]]
    BY <2>5, <2>6, <2>7
  <2>9. \A g \in (Hits(t) \ Ahead(t)) \cup {h} : devices[g[1]] \in Range(j.told)
    BY <2>4, <2>5 DEF SearchInv
  <2>10. ASSUME NEW i \in DOMAIN told
         PROVE  ~Before(d, told[i])
    <3>1. PICK g \in Hits(t) \ Ahead(t) : told[i] = devices[g[1]]
      BY <2>7
    <3>2. g[1] <= h[1] /\ g[1] \in Nat /\ h[1] \in Nat
      BY <1>3, <1>4, LaterOrder DEF Ahead
    <3>3. devices[g[1]] \in Nat \X Nat \X Nat /\ d \in Nat \X Nat \X Nat
      BY <1>3, DevicesAreThere DEF IInv
    <3>4. g[1] = h[1] \/ Before(devices[g[1]], d)
      BY <1>3, <3>2 DEF IInv, ListInv
    <3> QED BY <3>1, <3>3, <3>4, BeforeOrder
  <2>11. ASSUME NEW i \in DOMAIN j.told, NEW k \in DOMAIN j.told, i < k
         PROVE  ~Before(j.told[k], j.told[i])
    <3>1. i \in DOMAIN told
      BY <2>5, <2>11
    <3>2. CASE k \in DOMAIN told
      BY <2>4, <2>5, <2>11, <3>1, <3>2 DEF SearchInv
    <3>3. CASE k = Len(told) + 1
      BY <2>5, <2>10, <3>1, <3>3
    <3> QED BY <2>6, <3>2, <3>3
  <2>12. ~j.whole /\ j.ids \in Lists /\ j.tail \in Behind
    BY <1>6, <2>4 DEF SearchInv
  <2> HIDE DEF told
  <2> QED BY <1>5, <1>7, <2>3, <2>8, <2>9, <2>11, <2>12 DEF SearchInv
<1>9. pc[t] \notin Locked /\ state # "new"
  BY DEF Callback, IInv, ListInv, Locked, Probing
<1> QED BY <1>2, <1>5, <1>8, <1>9, ThreadMoves DEF Callback

LEMMA FindEndsKeeps ==
  ASSUME IInv, NEW t \in Threads, FindEnds(t) \/ Found(t)
  PROVE  IInv'
<1>1. pc[t] \notin Locked /\ state # "new"
  BY DEF FindEnds, Found, IInv, ListInv, Locked, Probing
<1>2. CASE FindEnds(t)
  <2> DEFINE j == [job[t] EXCEPT !.whole = TRUE]
  <2>1. j \in Jobs /\ job' = [job EXCEPT ![t] = j] /\ job'[t] = j
    <3>1. job[t] \in Jobs /\ job \in [Threads -> Jobs]
      BY DEF IInv, TypeOK
    <3>2. j \in Jobs
      BY <3>1 DEF Jobs
    <3>3. job' = [job EXCEPT ![t] = j]
      BY <1>2 DEF FindEnds
    <3> QED BY <3>1, <3>2, <3>3
  <2>2. /\ j.ids = job[t].ids /\ j.tail = job[t].tail
        /\ j.told = job[t].told /\ j.at = job[t].at
    BY DEF IInv, TypeOK, Jobs
  <2> HIDE DEF j
  <2>3. UNCHANGED <<bus, devices>> /\ pc[t] = "search" /\ Ahead(t) = {} /\ Goto(t, "found")
    BY <1>2 DEF FindEnds, busVars
  <2>4. Hits(t)' = Hits(t) /\ Ahead(t)' = {}
    BY <2>1, <2>2, <2>3 DEF Hits, Ahead
  <2>5. SearchInv(t)'
    BY <2>1, <2>2, <2>3, <2>4 DEF IInv, SearchInv
  <2> QED BY <1>1, <1>2, <2>1, <2>3, <2>5, ThreadMoves DEF FindEnds
<1>3. CASE Found(t)
  <2>1. NoJob \in Jobs
    <3>1. <<>> \in Seq(DOMAIN bus) /\ 0 \in 0 .. BarCount
      BY BarCountAssumption
    <3> QED BY <3>1 DEF NoJob, Jobs
  <2>2. pc'[t] = "idle" /\ Goto(t, "idle")
    BY <1>3 DEF Found, Goto, IInv, TypeOK
  <2>3. SearchInv(t)'
    BY <2>2 DEF SearchInv
  <2> QED BY <1>1, <1>3, <2>1, <2>2, <2>3, ThreadMoves DEF Found
<1> QED BY <1>2, <1>3

-----------------------------------------------------------------------------
(* The probe, and the accesses of RTEMS                                    *)

LEMMA SameBars ==
  ASSUME bus' = bus, NEW p, NEW b
  PROVE  Configured(p, b)' = Configured(p, b) /\ Probed(p, b)' = Probed(p, b)
BY DEF Configured, Probed, Stored, Masked, Bar

\* A step of the only thread that has locked the interrupts, or does so now.
LEMMA HolderMoves ==
  ASSUME IInv, NEW t \in Threads, state # "new",
         \A u \in Threads \ {t} : pc[u] \notin Locked,
         pc[t] \notin {"search", "found"},
         NEW x \in Locked \cup {"idle"}, Goto(t, x),
         NEW j \in Jobs, job' = [job EXCEPT ![t] = j],
         irqLock' = IF x \in Locked THEN t ELSE NoOne,
         UNCHANGED <<busVars, irqVars>>,
         len' \in [Range(devices) -> [BarNos -> SUBSET Bit]],
         reg' \in [Range(devices) -> [0 .. BarCount -> SUBSET Bit]],
         \A p \in Range(devices), b \in BarNos :
           reg'[p][b] = IF x \in Changed /\ j.dev = p /\ j.bar = b THEN Probed(p, b) ELSE Configured(p, b),
         x \in Locked => ProbeInv(t)'
  PROVE  IInv'
<1>1. /\ pc'[t] = x /\ job'[t] = j
      /\ \A u \in Threads \ {t} : pc'[u] = pc[u] /\ job'[u] = job[u]
  BY DEF Goto, IInv, TypeOK
<1>2. UNCHANGED <<build, bus, state, devices, base, connected>>
  BY DEF busVars, irqVars
<1>3. TypeOK'
  <2>1. \A p : ReadBase(p)' = ReadBase(p)
    BY <1>2, SameCrate
  <2>2. Jobs' = Jobs
    BY <1>2 DEF Jobs
  <2>3. job' \in [Threads -> Jobs] /\ pc' \in [Threads -> Points]
    BY DEF IInv, TypeOK, Goto, Points, Locked, Probing
  <2> QED BY <1>2, <2>1, <2>2, <2>3 DEF IInv, TypeOK
<1>4. \A u \in Threads : ProbeInv(u)'
  <2> TAKE u \in Threads
  <2>1. CASE u = t
    <3>1. CASE x \notin Locked
      BY <1>1, <2>1, <3>1, NoOneAssumption DEF ProbeInv, Locked, Probing, Changed
    <3> QED BY <2>1, <3>1
  <2>2. CASE u # t
    <3>1. irqLock' # u /\ pc'[u] \notin Locked
      BY <1>1, <2>2, NoOneAssumption
    <3> QED BY <3>1 DEF ProbeInv, Locked, Probing, Changed
  <2> QED BY <2>1, <2>2
<1>5. \A u \in Threads : SearchInv(u)'
  BY <1>1, <1>2, SearchStays DEF IInv, Locked, Probing
<1>6. \A u \in Threads : pc'[u] \in Changed => u = t
  BY <1>1 DEF Locked, Probing, Changed
<1>7. RegisterInv'
  BY <1>1, <1>2, <1>6, SameBars DEF RegisterInv
<1>8. BarsIntact'
  <2> SUFFICES ASSUME irqLock' = NoOne, NEW p \in Range(devices'), NEW b \in BarNos
               PROVE  reg'[p][b] = Configured(p, b)'
    BY DEF BarsIntact
  <2>1. x \notin Changed
    BY NoOneAssumption DEF Locked, Probing, Changed
  <2> QED BY <1>2, <2>1, SameBars
<1>9. ListInv'
  BY <1>2, ListStays DEF IInv
<1> QED BY <1>3, <1>4, <1>5, <1>7, <1>8, <1>9 DEF IInv

\* What holds when a thread has the interrupts to itself.
LEMMA HolderFacts ==
  ASSUME IInv, NEW t \in Threads, pc[t] \in Locked \/ irqLock = NoOne
  PROVE  /\ \A u \in Threads \ {t} : pc[u] \notin Locked
         /\ \A p \in Range(devices), b \in BarNos :
              reg[p][b] = IF pc[t] \in Changed /\ job[t].dev = p /\ job[t].bar = b
                          THEN Probed(p, b) ELSE Configured(p, b)
         /\ job[t] \in Jobs /\ job \in [Threads -> Jobs] /\ NoJob \in Jobs
         /\ len \in [Range(devices) -> [BarNos -> SUBSET Bit]]
         /\ reg \in [Range(devices) -> [0 .. BarCount -> SUBSET Bit]]
         /\ Range(devices) \subseteq DOMAIN bus
<1>1. \A u \in Threads \ {t} : pc[u] \notin Locked
  BY LockIsHeld
<1>2. \A u \in Threads : pc[u] \in Changed => u = t
  BY <1>1 DEF Locked, Probing, Changed
<1>3. NoJob \in Jobs
  <2>1. <<>> \in Seq(DOMAIN bus) /\ 0 \in 0 .. BarCount
    BY BarCountAssumption
  <2> QED BY <2>1 DEF NoJob, Jobs
<1> QED BY <1>1, <1>2, <1>3, DevicesAreThere DEF IInv, TypeOK, RegisterInv

LEMMA BarLenKeeps ==
  ASSUME IInv, NEW t \in Threads, NEW p \in Range(devices), NEW b \in BarNos, BarLen(t, p, b)
  PROVE  IInv'
<1> DEFINE j == [NoJob EXCEPT !.dev = p, !.bar = b]
<1>1. pc[t] = "idle" /\ irqLock = NoOne /\ state # "new"
  BY LockIsHeld DEF BarLen, Locked, Probing
<1>2. NoJob \in Jobs /\ p \in DOMAIN bus /\ b \in 0 .. BarCount
  BY <1>1, HolderFacts DEF BarNos
<1>3. j \in Jobs /\ job' = [job EXCEPT ![t] = j]
  BY <1>2 DEF BarLen, Jobs
<1>4. j.dev = p /\ j.bar = b
  BY DEF NoJob
<1> HIDE DEF j
<1>5. job'[t] = j /\ pc'[t] = "select1" /\ devices' = devices
  BY <1>3 DEF BarLen, Goto, IInv, TypeOK, busVars
<1>6. ProbeInv(t)'
  BY <1>4, <1>5 DEF BarLen, ProbeInv, Locked, Probing, Changed
<1>7. "select1" \in Locked \ Changed
  BY DEF Locked, Probing, Changed
<1>8. UNCHANGED <<busVars, irqVars, len, reg>> /\ Goto(t, "select1") /\ irqLock' = t
  BY DEF BarLen, regVars
<1>9. pc[t] \notin {"search", "found"} \cup Changed
  BY <1>1 DEF Changed
<1>10. /\ \A q \in Range(devices), c \in BarNos : reg'[q][c] = Configured(q, c)
       /\ len' \in [Range(devices) -> [BarNos -> SUBSET Bit]]
       /\ reg' \in [Range(devices) -> [0 .. BarCount -> SUBSET Bit]]
       /\ \A u \in Threads \ {t} : pc[u] \notin Locked
  BY <1>1, <1>8, <1>9, HolderFacts
<1> QED BY <1>1, <1>3, <1>6, <1>7, <1>8, <1>9, <1>10, HolderMoves

LEMMA ConfigKeeps ==
  ASSUME IInv, NEW t \in Threads, NEW p \in Range(devices), Config(t, p)
  PROVE  IInv'
<1> DEFINE j == [NoJob EXCEPT !.dev = p]
<1>1. pc[t] = "idle" /\ irqLock = NoOne /\ state # "new"
  BY LockIsHeld DEF Config, Locked, Probing
<1>2. NoJob \in Jobs /\ p \in DOMAIN bus
  BY <1>1, HolderFacts
<1>3. j \in Jobs /\ job' = [job EXCEPT ![t] = j]
  BY <1>2 DEF Config, Jobs
<1>4. j.dev = p
  BY DEF NoJob
<1> HIDE DEF j
<1>5. job'[t] = j /\ pc'[t] = "config" /\ devices' = devices
  BY <1>3 DEF Config, Goto, IInv, TypeOK, busVars
<1>6. ProbeInv(t)'
  BY <1>4, <1>5 DEF Config, ProbeInv, Locked, Probing, Changed
<1>7. "config" \in Locked \ Changed
  BY DEF Locked, Probing, Changed
<1>8. UNCHANGED <<busVars, irqVars, len, reg>> /\ Goto(t, "config") /\ irqLock' = t
  BY DEF Config, regVars
<1>9. pc[t] \notin {"search", "found"} \cup Changed
  BY <1>1 DEF Changed
<1>10. /\ \A q \in Range(devices), c \in BarNos : reg'[q][c] = Configured(q, c)
       /\ len' \in [Range(devices) -> [BarNos -> SUBSET Bit]]
       /\ reg' \in [Range(devices) -> [0 .. BarCount -> SUBSET Bit]]
       /\ \A u \in Threads \ {t} : pc[u] \notin Locked
  BY <1>1, <1>8, <1>9, HolderFacts
<1> QED BY <1>1, <1>3, <1>6, <1>7, <1>8, <1>9, <1>10, HolderMoves

\* Selecting a register.
LEMMA SelectKeeps ==
  ASSUME IInv, NEW t \in Threads, SelectBar(t) \/ ConfigSelect(t)
  PROVE  IInv'
<1> DEFINE x == CASE pc[t] = "select1" -> "start" [] pc[t] = "select2" -> "mask"
                  [] pc[t] = "select3" -> "max" [] pc[t] = "select4" -> "restore"
                  [] OTHER -> "write"
<1>1. /\ pc[t] \in {"select1", "select2", "select3", "select4", "config"} /\ Goto(t, x)
      /\ index' = IF pc[t] = "config" THEN <<job[t].dev, 0>> ELSE <<job[t].dev, job[t].bar>>
      /\ UNCHANGED <<busVars, irqVars, len, reg, irqLock, job>>
  BY DEF SelectBar, ConfigSelect
<1>2. /\ x \in Locked /\ (x \in Changed <=> pc[t] \in Changed)
      /\ pc[t] \in Locked \ {"search", "found"}
  BY <1>1 DEF Locked, Probing, Changed
<1>3. irqLock = t /\ ProbeInv(t) /\ state # "new"
  BY <1>1, <1>2, LockIsHeld DEF IInv, ListInv
<1>4. job[t] \in Jobs /\ job' = [job EXCEPT ![t] = job[t]]
  BY <1>1, <1>2, HolderFacts
<1>5. bus' = bus /\ devices' = devices /\ pc'[t] = x /\ job'[t] = job[t]
  BY <1>1 DEF busVars, Goto, IInv, TypeOK
<1>6. ProbeInv(t)'
  <2>1. CASE pc[t] = "config"
    BY <1>1, <1>3, <1>5, <2>1 DEF ProbeInv, Locked, Probing, Changed
  <2>2. CASE pc[t] = "select1"
    BY <1>1, <1>3, <1>5, <2>2 DEF ProbeInv, Locked, Probing, Changed
  <2>3. CASE pc[t] = "select2"
    BY <1>1, <1>3, <1>5, <2>3, SameBars DEF ProbeInv, Locked, Probing, Changed
  <2>4. CASE pc[t] = "select3"
    BY <1>1, <1>3, <1>5, <2>4, SameBars DEF ProbeInv, Locked, Probing, Changed
  <2>5. CASE pc[t] = "select4"
    BY <1>1, <1>3, <1>5, <2>5, SameBars DEF ProbeInv, Locked, Probing, Changed
  <2> QED BY <1>1, <2>1, <2>2, <2>3, <2>4, <2>5
<1> HIDE DEF x
<1>7. /\ \A p \in Range(devices), b \in BarNos :
           reg'[p][b] = IF x \in Changed /\ job[t].dev = p /\ job[t].bar = b THEN Probed(p, b) ELSE Configured(p, b)
      /\ len' \in [Range(devices) -> [BarNos -> SUBSET Bit]]
      /\ reg' \in [Range(devices) -> [0 .. BarCount -> SUBSET Bit]]
      /\ \A u \in Threads \ {t} : pc[u] \notin Locked
  BY <1>1, <1>2, HolderFacts
<1>8. irqLock' = t
  BY <1>1, <1>3
<1>9. pc[t] \notin {"search", "found"}
  BY <1>1
<1>10. Goto(t, x) /\ UNCHANGED <<busVars, irqVars>>
  BY <1>1
<1>11. x \in Locked \cup {"idle"} /\ irqLock' = IF x \in Locked THEN t ELSE NoOne
  BY <1>2, <1>8
<1>12. state # "new" /\ (x \in Locked => ProbeInv(t)')
  BY <1>3, <1>6
<1> DEFINE j == job[t]
<1>13. /\ j \in Jobs /\ job' = [job EXCEPT ![t] = j]
       /\ \A p \in Range(devices), b \in BarNos :
            reg'[p][b] = IF x \in Changed /\ j.dev = p /\ j.bar = b THEN Probed(p, b) ELSE Configured(p, b)
  BY <1>4, <1>7
<1> HIDE DEF j
<1> QED BY <1>7, <1>9, <1>10, <1>11, <1>12, <1>13, HolderMoves

\* Writing and reading the selected register.
LEMMA SelectedRegister ==
  ASSUME IInv, NEW p \in Range(devices), NEW r \in 0 .. BarCount, index = <<p, r>>
  PROVE  /\ Selected = reg[p][r]
         /\ \A v \in SUBSET Bit : WriteSelected(v) =>
              /\ reg' \in [Range(devices) -> [0 .. BarCount -> SUBSET Bit]]
              /\ \A q \in Range(devices), b \in BarNos :
                   reg'[q][b] = IF q = p /\ b = r THEN Stored(p, r, v) ELSE reg[q][b]
<1>1. index[1] = p /\ index[2] = r
  OBVIOUS
<1>2. reg \in [Range(devices) -> [0 .. BarCount -> SUBSET Bit]] /\ p \in DOMAIN bus
  BY DevicesAreThere DEF IInv, TypeOK
<1>3. Selected = reg[p][r]
  BY <1>1 DEF Selected
<1>4. ASSUME NEW v \in SUBSET Bit, WriteSelected(v)
      PROVE  /\ reg' \in [Range(devices) -> [0 .. BarCount -> SUBSET Bit]]
             /\ \A q \in Range(devices), b \in BarNos :
                  reg'[q][b] = IF q = p /\ b = r THEN Stored(p, r, v) ELSE reg[q][b]
  <2> DEFINE w == Stored(p, r, v)
  <2>1. w \in SUBSET Bit
    BY <1>2, StoredIsWord DEF IInv
  <2>2. reg' = [reg EXCEPT ![p][r] = w]
    BY <1>1, <1>4 DEF WriteSelected
  <2>3. \A b \in BarNos : b \in 0 .. BarCount
    BY DEF BarNos
  <2> HIDE DEF w
  <2>4. reg' \in [Range(devices) -> [0 .. BarCount -> SUBSET Bit]]
    BY <1>2, <2>1, <2>2
  <2>5. \A q \in Range(devices), b \in BarNos :
          reg'[q][b] = IF q = p /\ b = r THEN w ELSE reg[q][b]
    BY <1>2, <2>2, <2>3
  <2> QED BY <2>4, <2>5 DEF w
<1> QED BY <1>3, <1>4

LEMMA ReadStartKeeps ==
  ASSUME IInv, NEW t \in Threads, ReadStart(t)
  PROVE  IInv'
<1> DEFINE p == job[t].dev  b == job[t].bar
<1>1. pc[t] = "start" /\ UNCHANGED <<busVars, regVars, irqVars>>
  BY DEF ReadStart
<1>2. pc[t] \in Locked \ Changed /\ pc[t] \in Probing /\ pc[t] \notin {"search", "found"}
  BY <1>1 DEF Locked, Probing, Changed
<1>3. /\ irqLock = t /\ ProbeInv(t) /\ state # "new"
      /\ p \in Range(devices) /\ b \in BarNos /\ index = <<p, b>>
  BY <1>1, <1>2, LockIsHeld DEF IInv, ListInv, ProbeInv
<1>4. Selected = reg[p][b]
  <2>1. b \in 0 .. BarCount
    BY <1>3 DEF BarNos
  <2> QED BY <1>3, <2>1, SelectedRegister
<1>5. Selected = Configured(p, b) /\ Configured(p, b) \in SUBSET Bit
  BY <1>2, <1>3, <1>4, HolderFacts, ConfiguredIsWord DEF IInv
<1>6. /\ \A q \in Range(devices), c \in BarNos : reg'[q][c] = Configured(q, c)
      /\ len' \in [Range(devices) -> [BarNos -> SUBSET Bit]]
      /\ reg' \in [Range(devices) -> [0 .. BarCount -> SUBSET Bit]]
      /\ \A u \in Threads \ {t} : pc[u] \notin Locked
      /\ job[t] \in Jobs /\ job \in [Threads -> Jobs] /\ NoJob \in Jobs
  BY <1>1, <1>2, HolderFacts DEF regVars
<1>7. UNCHANGED <<busVars, irqVars>>
  BY <1>1
<1>8. CASE Masked(Kind(t), Selected) = {}
  <2>1. Goto(t, "idle") /\ irqLock' = NoOne /\ job' = [job EXCEPT ![t] = NoJob]
    BY <1>8 DEF ReadStart
  <2>2. "idle" \notin Locked /\ "idle" \notin Changed
    BY DEF Locked, Probing, Changed
  <2> DEFINE j == NoJob
  <2>3. j \in Jobs /\ job' = [job EXCEPT ![t] = j]
    BY <1>6, <2>1
  <2> DEFINE x == "idle"
  <2>4. /\ x \in Locked \cup {"idle"} /\ Goto(t, x)
        /\ irqLock' = IF x \in Locked THEN t ELSE NoOne
        /\ x \in Locked => ProbeInv(t)'
        /\ \A q \in Range(devices), c \in BarNos :
             reg'[q][c] = IF x \in Changed /\ j.dev = q /\ j.bar = c
                          THEN Probed(q, c) ELSE Configured(q, c)
    BY <1>6, <2>1, <2>2
  <2> HIDE DEF j, x
  <2> QED BY <1>2, <1>3, <1>6, <1>7, <2>3, <2>4, HolderMoves
<1>9. CASE Masked(Kind(t), Selected) # {}
  <2> DEFINE j == [job[t] EXCEPT !.start = Selected]
  <2>1. Goto(t, "select2") /\ irqLock' = t /\ job' = [job EXCEPT ![t] = j]
    BY <1>3, <1>9 DEF ReadStart
  <2>2. "select2" \in Locked /\ "select2" \notin Changed
    BY DEF Locked, Probing, Changed
  <2>3. j \in Jobs /\ j.dev = p /\ j.bar = b /\ j.start = Configured(p, b)
    <3>1. Selected \in SUBSET Bit
      BY <1>5
    <3> QED BY <1>5, <1>6, <3>1 DEF Jobs
  <2> HIDE DEF j
  <2>4. job'[t] = j /\ pc'[t] = "select2" /\ devices' = devices /\ bus' = bus
    BY <1>1, <1>6, <2>1 DEF Goto, IInv, TypeOK, busVars
  <2>5. ProbeInv(t)'
    BY <1>3, <2>1, <2>3, <2>4, SameBars DEF ProbeInv, Locked, Probing, Changed
  <2>6. j \in Jobs
    BY <2>3
  <2> QED BY <1>2, <1>3, <1>6, <1>7, <2>1, <2>2, <2>5, <2>6, HolderMoves
<1> QED BY <1>8, <1>9

LEMMA WriteMaskKeeps ==
  ASSUME IInv, NEW t \in Threads, WriteMask(t)
  PROVE  IInv'
<1> DEFINE p == job[t].dev  b == job[t].bar
<1>1. pc[t] = "mask" /\ Goto(t, "select3") /\ UNCHANGED <<busVars, len, index, irqVars, irqLock, job>>
  BY DEF WriteMask
<1>2. pc[t] \in Locked \ Changed /\ pc[t] \in Probing /\ pc[t] \notin {"search", "found"}
  BY <1>1 DEF Locked, Probing, Changed
<1>3. /\ irqLock = t /\ ProbeInv(t) /\ state # "new"
      /\ p \in Range(devices) /\ b \in BarNos /\ index = <<p, b>>
      /\ job[t].start = Configured(p, b)
  BY <1>1, <1>2, LockIsHeld DEF IInv, ListInv, ProbeInv
<1>4. /\ \A q \in Range(devices), c \in BarNos : reg[q][c] = Configured(q, c)
      /\ len' \in [Range(devices) -> [BarNos -> SUBSET Bit]]
      /\ \A u \in Threads \ {t} : pc[u] \notin Locked
      /\ job[t] \in Jobs /\ p \in DOMAIN bus
  BY <1>1, <1>2, <1>3, HolderFacts
<1>5. /\ reg' \in [Range(devices) -> [0 .. BarCount -> SUBSET Bit]]
      /\ \A q \in Range(devices), c \in BarNos :
           reg'[q][c] = IF q = p /\ c = b THEN Probed(p, b) ELSE reg[q][c]
  <2>1. b \in 0 .. BarCount
    BY <1>3 DEF BarNos
  <2>2. Masked(Kind(t), Bit) \in SUBSET Bit /\ WriteSelected(Masked(Kind(t), Bit))
    BY DEF WriteMask, Masked
  <2>3. Stored(p, b, Masked(Kind(t), Bit)) = Probed(p, b)
    BY DEF Probed, Kind
  <2> QED BY <1>3, <2>1, <2>2, <2>3, SelectedRegister
<1>6. "select3" \in Locked /\ "select3" \in Changed
  BY DEF Locked, Probing, Changed
<1>7. job'[t] = job[t] /\ pc'[t] = "select3" /\ devices' = devices /\ bus' = bus /\ irqLock' = t
  BY <1>1, <1>3 DEF Goto, IInv, TypeOK, busVars
<1>8. ProbeInv(t)'
  BY <1>3, <1>7, SameBars DEF ProbeInv, Locked, Probing, Changed
<1> DEFINE j == job[t]
<1>9. /\ j \in Jobs /\ job' = [job EXCEPT ![t] = j]
      /\ \A q \in Range(devices), c \in BarNos :
           reg'[q][c] = IF "select3" \in Changed /\ j.dev = q /\ j.bar = c
                        THEN Probed(q, c) ELSE Configured(q, c)
  BY <1>1, <1>4, <1>5, <1>6 DEF IInv, TypeOK
<1> DEFINE x == "select3"
<1>10. /\ x \in Locked \cup {"idle"} /\ Goto(t, x) /\ UNCHANGED <<busVars, irqVars>>
       /\ irqLock' = IF x \in Locked THEN t ELSE NoOne
       /\ x \in Locked => ProbeInv(t)'
       /\ \A q \in Range(devices), c \in BarNos :
            reg'[q][c] = IF x \in Changed /\ j.dev = q /\ j.bar = c
                         THEN Probed(q, c) ELSE Configured(q, c)
  BY <1>1, <1>6, <1>7, <1>8, <1>9
<1>11. j \in Jobs /\ job' = [job EXCEPT ![t] = j]
  BY <1>9
<1> HIDE DEF j, p, b, x
<1> QED BY <1>2, <1>3, <1>4, <1>5, <1>10, <1>11, HolderMoves

LEMMA ReadMaxKeeps ==
  ASSUME IInv, NEW t \in Threads, ReadMax(t)
  PROVE  IInv'
<1> DEFINE p == job[t].dev  b == job[t].bar
<1>1. /\ pc[t] = "max" /\ Goto(t, "select4") /\ UNCHANGED <<busVars, regVars, irqVars, irqLock>>
      /\ job' = [job EXCEPT ![t].max = Selected]
  BY DEF ReadMax
<1>2. pc[t] \in Locked \cap Changed /\ pc[t] \in Probing /\ pc[t] \notin {"search", "found"}
  BY <1>1 DEF Locked, Probing, Changed
<1>3. /\ irqLock = t /\ ProbeInv(t) /\ state # "new"
      /\ p \in Range(devices) /\ b \in BarNos /\ index = <<p, b>>
      /\ job[t].start = Configured(p, b)
  BY <1>1, <1>2, LockIsHeld DEF IInv, ListInv, ProbeInv
<1>4. /\ \A q \in Range(devices), c \in BarNos :
           reg[q][c] = IF p = q /\ b = c THEN Probed(q, c) ELSE Configured(q, c)
      /\ len' \in [Range(devices) -> [BarNos -> SUBSET Bit]]
      /\ reg' \in [Range(devices) -> [0 .. BarCount -> SUBSET Bit]]
      /\ \A u \in Threads \ {t} : pc[u] \notin Locked
      /\ job[t] \in Jobs /\ job \in [Threads -> Jobs] /\ p \in DOMAIN bus
  BY <1>1, <1>2, <1>3, HolderFacts DEF regVars
<1>5. Selected = Probed(p, b) /\ Probed(p, b) \in SUBSET Bit
  <2>1. b \in 0 .. BarCount
    BY <1>3 DEF BarNos
  <2>2. Selected = reg[p][b]
    BY <1>3, <2>1, SelectedRegister
  <2> QED BY <1>3, <1>4, <2>2, ProbedIsWord DEF IInv
<1>6. "select4" \in Locked /\ "select4" \in Changed
  BY DEF Locked, Probing, Changed
<1> DEFINE j == [job[t] EXCEPT !.max = Selected]
<1>7. job' = [job EXCEPT ![t] = j]
  BY <1>1
<1>8. j \in Jobs /\ j.dev = p /\ j.bar = b /\ j.start = job[t].start /\ j.max = Probed(p, b)
  <2>1. Selected \in SUBSET Bit
    BY <1>5
  <2> QED BY <1>4, <1>5, <2>1 DEF Jobs
<1> HIDE DEF j
<1>9. job'[t] = j /\ pc'[t] = "select4" /\ devices' = devices /\ bus' = bus /\ irqLock' = t
      /\ index' = index
  BY <1>1, <1>3, <1>4, <1>7 DEF Goto, IInv, TypeOK, busVars, regVars
<1>10. ProbeInv(t)'
  BY <1>3, <1>8, <1>9, SameBars DEF ProbeInv, Locked, Probing, Changed
<1>11. /\ j \in Jobs
       /\ \A q \in Range(devices), c \in BarNos :
            reg'[q][c] = IF "select4" \in Changed /\ j.dev = q /\ j.bar = c
                         THEN Probed(q, c) ELSE Configured(q, c)
  BY <1>1, <1>4, <1>6, <1>8 DEF regVars
<1> DEFINE x == "select4"
<1>12. /\ x \in Locked \cup {"idle"} /\ Goto(t, x) /\ UNCHANGED <<busVars, irqVars>>
       /\ irqLock' = IF x \in Locked THEN t ELSE NoOne
       /\ x \in Locked => ProbeInv(t)'
       /\ \A q \in Range(devices), c \in BarNos :
            reg'[q][c] = IF x \in Changed /\ j.dev = q /\ j.bar = c
                         THEN Probed(q, c) ELSE Configured(q, c)
  BY <1>1, <1>6, <1>9, <1>10, <1>11
<1>13. j \in Jobs
  BY <1>11
<1> HIDE DEF p, b, x
<1> QED BY <1>2, <1>3, <1>4, <1>7, <1>12, <1>13, HolderMoves

\* The size that a probe notes.
LEMMA RestoreNotes ==
  ASSUME IInv, NEW t \in Threads, Restore(t)
  PROVE  /\ job[t].dev \in Range(devices) /\ job[t].bar \in BarNos
         /\ Size(t) = LowestBit(Masked(Bar(job[t].dev, job[t].bar).kind,
                                       Probed(job[t].dev, job[t].bar)))
         /\ Size(t) \in SUBSET Bit
         /\ len' = [len EXCEPT ![job[t].dev][job[t].bar] = Size(t)]
         /\ len' \in [Range(devices) -> [BarNos -> SUBSET Bit]]
<1> DEFINE p == job[t].dev  b == job[t].bar
<1>1. pc[t] = "restore" /\ pc[t] \in Locked /\ pc[t] \in Probing
  BY DEF Restore, Locked, Probing
<1>2. p \in Range(devices) /\ b \in BarNos /\ job[t].max = Probed(p, b)
  BY <1>1 DEF IInv, ProbeInv
<1>3. Size(t) = LowestBit(Masked(Bar(p, b).kind, Probed(p, b)))
  BY <1>2 DEF Size, Kind
<1>4. Size(t) \in SUBSET Bit
  BY <1>2, <1>3, ProbedIsWord, DevicesAreThere DEF LowestBit, Masked, IInv
<1>5. len' = [len EXCEPT ![p][b] = Size(t)]
  BY DEF Restore
<1>6. len \in [Range(devices) -> [BarNos -> SUBSET Bit]]
  BY DEF IInv, TypeOK
<1> HIDE DEF p, b
<1>7. len' \in [Range(devices) -> [BarNos -> SUBSET Bit]]
  BY <1>2, <1>4, <1>5, <1>6
<1> QED BY <1>2, <1>3, <1>4, <1>5, <1>7 DEF p, b

LEMMA RestoreKeeps ==
  ASSUME IInv, NEW t \in Threads, Restore(t)
  PROVE  IInv'
<1> DEFINE p == job[t].dev  b == job[t].bar
<1>1. /\ pc[t] = "restore" /\ Goto(t, "idle") /\ UNCHANGED <<busVars, index, irqVars>>
      /\ irqLock' = NoOne /\ job' = [job EXCEPT ![t] = NoJob]
  BY DEF Restore
<1>2. pc[t] \in Locked \cap Changed /\ pc[t] \in Probing /\ pc[t] \notin {"search", "found"}
  BY <1>1 DEF Locked, Probing, Changed
<1>3. /\ ProbeInv(t) /\ state # "new"
      /\ p \in Range(devices) /\ b \in BarNos /\ index = <<p, b>>
      /\ job[t].start = Configured(p, b)
  BY <1>1, <1>2 DEF IInv, ListInv, ProbeInv
<1>4. /\ \A q \in Range(devices), c \in BarNos :
           reg[q][c] = IF p = q /\ b = c THEN Probed(q, c) ELSE Configured(q, c)
      /\ \A u \in Threads \ {t} : pc[u] \notin Locked
      /\ NoJob \in Jobs /\ p \in DOMAIN bus
  BY <1>1, <1>2, <1>3, HolderFacts
<1>5. /\ reg' \in [Range(devices) -> [0 .. BarCount -> SUBSET Bit]]
      /\ \A q \in Range(devices), c \in BarNos :
           reg'[q][c] = IF q = p /\ c = b THEN Configured(p, b) ELSE reg[q][c]
  <2>1. b \in 0 .. BarCount
    BY <1>3 DEF BarNos
  <2>2. WriteSelected(job[t].start)
    BY DEF Restore
  <2>3. job[t].start \in SUBSET Bit /\ Stored(p, b, job[t].start) = Configured(p, b)
    BY <1>3, <1>4, ConfiguredIsWord DEF IInv
  <2> QED BY <1>3, <2>1, <2>2, <2>3, SelectedRegister
<1>6. len' \in [Range(devices) -> [BarNos -> SUBSET Bit]]
  BY RestoreNotes
<1> DEFINE x == "idle"  j == NoJob
<1>7. x \notin Locked /\ x \notin Changed
  BY DEF Locked, Probing, Changed
<1>8. /\ x \in Locked \cup {"idle"} /\ Goto(t, x) /\ UNCHANGED <<busVars, irqVars>>
      /\ irqLock' = IF x \in Locked THEN t ELSE NoOne
      /\ x \in Locked => ProbeInv(t)'
      /\ j \in Jobs /\ job' = [job EXCEPT ![t] = j]
      /\ \A q \in Range(devices), c \in BarNos :
           reg'[q][c] = IF x \in Changed /\ j.dev = q /\ j.bar = c
                        THEN Probed(q, c) ELSE Configured(q, c)
  BY <1>1, <1>4, <1>5, <1>7
<1> HIDE DEF x, j, p, b
<1> QED BY <1>2, <1>3, <1>4, <1>5, <1>6, <1>8, HolderMoves

LEMMA ConfigWriteKeeps ==
  ASSUME IInv, NEW t \in Threads, ConfigWrite(t)
  PROVE  IInv'
<1> DEFINE p == job[t].dev
<1>1. /\ pc[t] = "write" /\ Goto(t, "idle") /\ UNCHANGED <<busVars, len, index, irqVars>>
      /\ irqLock' = NoOne /\ job' = [job EXCEPT ![t] = NoJob]
  BY DEF ConfigWrite
<1>2. pc[t] \in Locked \ Changed /\ pc[t] \notin {"search", "found"}
  BY <1>1 DEF Locked, Probing, Changed
<1>3. state # "new" /\ p \in Range(devices) /\ index = <<p, 0>>
  BY <1>1, <1>2 DEF IInv, ListInv, ProbeInv
<1>4. /\ \A q \in Range(devices), c \in BarNos : reg[q][c] = Configured(q, c)
      /\ len' \in [Range(devices) -> [BarNos -> SUBSET Bit]]
      /\ \A u \in Threads \ {t} : pc[u] \notin Locked
      /\ NoJob \in Jobs
  BY <1>1, <1>2, HolderFacts
<1>5. /\ reg' \in [Range(devices) -> [0 .. BarCount -> SUBSET Bit]]
      /\ \A q \in Range(devices), c \in BarNos : reg'[q][c] = reg[q][c]
  <2>1. 0 \in 0 .. BarCount /\ \A c \in BarNos : c # 0
    BY BarCountAssumption DEF BarNos
  <2>2. CASE WriteSelected({})
    BY <1>3, <2>1, <2>2, SelectedRegister
  <2>3. CASE UNCHANGED reg
    BY <2>3 DEF IInv, TypeOK
  <2> QED BY <2>2, <2>3 DEF ConfigWrite
<1> DEFINE x == "idle"  j == NoJob
<1>6. x \notin Locked /\ x \notin Changed
  BY DEF Locked, Probing, Changed
<1>7. /\ x \in Locked \cup {"idle"} /\ Goto(t, x) /\ UNCHANGED <<busVars, irqVars>>
      /\ irqLock' = IF x \in Locked THEN t ELSE NoOne
      /\ x \in Locked => ProbeInv(t)'
      /\ j \in Jobs /\ job' = [job EXCEPT ![t] = j]
      /\ \A q \in Range(devices), c \in BarNos :
           reg'[q][c] = IF x \in Changed /\ j.dev = q /\ j.bar = c
                        THEN Probed(q, c) ELSE Configured(q, c)
  BY <1>1, <1>4, <1>5, <1>6
<1> HIDE DEF x, j, p
<1> QED BY <1>2, <1>3, <1>4, <1>5, <1>7, HolderMoves

\* Steps that leave threads, devices and BARs alone; one of vxWorks selects a
\* register while nobody else has.
LEMMA RestKeeps ==
  ASSUME IInv, UNCHANGED <<busVars, len, reg, threadVars>>,
         index' = index \/ irqLock = NoOne,
         connected' = connected \/ state # "new"
  PROVE  IInv'
<1>1. UNCHANGED <<build, bus, state, devices, base, len, reg, irqLock, pc, job>>
  BY DEF busVars, threadVars
<1>2. TypeOK'
  <2>1. Jobs' = Jobs /\ \A p : ReadBase(p)' = ReadBase(p)
    BY <1>1, SameCrate DEF Jobs
  <2> QED BY <1>1, <2>1 DEF IInv, TypeOK
<1>3. \A u \in Threads : ProbeInv(u)'
  <2> TAKE u \in Threads
  <2>1. ProbeInv(u) /\ (irqLock = NoOne => pc[u] \notin Locked)
    BY LockIsHeld DEF IInv
  <2>2. \A p, b : Configured(p, b)' = Configured(p, b) /\ Probed(p, b)' = Probed(p, b)
    BY <1>1, SameBars
  <2>3. CASE index' = index
    BY <1>1, <2>1, <2>2, <2>3 DEF ProbeInv
  <2>4. CASE pc[u] \notin Locked
    BY <1>1, <2>1, <2>4 DEF ProbeInv, Locked, Probing, Changed
  <2> QED BY <2>1, <2>3, <2>4
<1>4. \A u \in Threads : SearchInv(u)'
  BY <1>1, SearchStays DEF IInv
<1>5. RegisterInv'
  BY <1>1, RegisterStays DEF IInv
<1>6. BarsIntact'
  BY <1>1, SameBars DEF IInv, BarsIntact
<1>7. ListInv'
  BY <1>1, ListStays DEF IInv
<1> QED BY <1>2, <1>3, <1>4, <1>5, <1>6, <1>7 DEF IInv

LEMMA InitHolds == Init => IInv
<1> SUFFICES ASSUME Init PROVE IInv
  OBVIOUS
<1>1. bus \in Buses /\ build \in Builds /\ devices = <<>> /\ Range(devices) = {}
      /\ \A t \in Threads : pc[t] = "idle"
  BY DEF Init, Range
<1>2. NoJob \in Jobs
  <2>1. <<>> \in Seq(DOMAIN bus) /\ 0 \in 0 .. BarCount
    BY BarCountAssumption
  <2> QED BY <2>1 DEF NoJob, Jobs
<1>3. TypeOK
  BY <1>1, <1>2 DEF Init, TypeOK, Points
<1>4. \A t \in Threads : ProbeInv(t) /\ SearchInv(t)
  BY <1>1, NoOneAssumption DEF Init, ProbeInv, SearchInv, Locked, Probing, Changed
<1>5. BarsIntact /\ RegisterInv
  BY <1>1 DEF BarsIntact, RegisterInv
<1>6. ListInv
  BY <1>1 DEF Init, ListInv
<1> QED BY <1>3, <1>4, <1>5, <1>6 DEF IInv

LEMMA NextKeeps ==
  ASSUME IInv, [Next]_vars
  PROVE  IInv'
<1>1. CASE ScanDevice \/ ScanEnds
  BY <1>1, ScanDeviceKeeps, ScanEndsKeeps
<1>2. ASSUME NEW t \in Threads, NEW ids \in Lists, NEW tail \in Behind, FindStart(t, ids, tail)
      PROVE  IInv'
  BY <1>2, FindStartKeeps
<1>3. ASSUME NEW t \in Threads, Callback(t) \/ FindEnds(t) \/ Found(t)
      PROVE  IInv'
  BY <1>3, CallbackKeeps, FindEndsKeeps
<1>4. ASSUME NEW t \in Threads, NEW p \in Range(devices), Config(t, p)
      PROVE  IInv'
  BY <1>4, ConfigKeeps
<1>5. ASSUME NEW t \in Threads, NEW p \in Range(devices), ConfigVxWorks(t, p)
      PROVE  IInv'
  <2>1. irqLock = NoOne
    BY <1>5, LockIsHeld DEF ConfigVxWorks, Locked, Probing
  <2> QED BY <1>5, <2>1, RestKeeps DEF ConfigVxWorks, irqVars
<1>6. ASSUME NEW t \in Threads, NEW p \in Range(devices), NEW b \in BarNos, BarLen(t, p, b)
      PROVE  IInv'
  BY <1>6, BarLenKeeps
<1>7. ASSUME NEW p \in Range(devices), NEW r \in Handlers, Connect(p, r)
      PROVE  IInv'
  BY <1>7, RestKeeps DEF Connect, regVars
<1>8. ASSUME NEW p \in Range(devices), NEW r \in Handlers, Disconnect(p, r)
      PROVE  IInv'
  BY <1>8, RestKeeps DEF Disconnect, regVars, IInv, ListInv
<1>9. ASSUME NEW p \in Range(devices), NEW level \in {0, 1}, SwitchInterrupt(p, level)
      PROVE  IInv'
  BY <1>9, RestKeeps DEF SwitchInterrupt, regVars
<1>10. ASSUME NEW t \in Threads, Step(t)
       PROVE  IInv'
  BY <1>10, SelectKeeps, ReadStartKeeps, WriteMaskKeeps, ReadMaxKeeps, RestoreKeeps,
     ConfigWriteKeeps DEF Step
<1>11. CASE UNCHANGED vars
  BY <1>11, RestKeeps DEF vars, regVars, irqVars
<1> QED BY <1>1, <1>2, <1>3, <1>4, <1>5, <1>6, <1>7, <1>8, <1>9, <1>10, <1>11 DEF Next

\* The invariant, inductive: who has locked the interrupts, what his probe has
\* done to the BAR, what the scan has found and what a search has told.
THEOREM Inductive == Spec => []IInv
BY InitHolds, NextKeeps, PTL DEF Spec

-----------------------------------------------------------------------------
(* What drivers are told                                                   *)

LEMMA LenStays ==
  ASSUME LenIsSize, UNCHANGED <<bus, devices, len>>
  PROVE  LenIsSize'
BY DEF LenIsSize, Bar

LEMMA LenNext ==
  ASSUME IInv, LenIsSize, [Next]_vars
  PROVE  LenIsSize'
<1>1. CASE ScanDevice
  <2>1. \A p \in Range(devices'), b \in BarNos : len'[p][b] = {}
    BY <1>1 DEF ScanDevice
  <2> QED BY <2>1 DEF LenIsSize
<1>2. ASSUME NEW t \in Threads, Restore(t)
      PROVE  LenIsSize'
  <2> DEFINE p == job[t].dev  b == job[t].bar  n == Size(t)
  <2>1. /\ p \in Range(devices) /\ b \in BarNos
        /\ n = LowestBit(Masked(Bar(p, b).kind, Probed(p, b)))
        /\ len' = [len EXCEPT ![p][b] = n]
        /\ len \in [Range(devices) -> [BarNos -> SUBSET Bit]]
    BY <1>2, RestoreNotes DEF IInv, TypeOK
  <2>2. Bar(p, b).kind # "high" => n \subseteq {Bar(p, b).size}
    BY <2>1, ProbeFindsSize, DevicesAreThere DEF IInv
  <2>3. bus' = bus /\ devices' = devices
    BY <1>2 DEF Restore, busVars
  <2> HIDE DEF p, b, n
  <2>4. ASSUME NEW q \in Range(devices), NEW c \in BarNos, len'[q][c] # {}, Bar(q, c).kind # "high"
        PROVE  len'[q][c] = {Bar(q, c).size}
    <3>1. CASE q = p /\ c = b
      <4>1. len'[q][c] = n
        BY <2>1, <3>1
      <4> QED BY <2>2, <2>4, <3>1, <4>1
    <3>2. CASE ~(q = p /\ c = b)
      <4>1. len'[q][c] = len[q][c]
        BY <2>1, <3>2
      <4> QED BY <2>4, <4>1 DEF LenIsSize
    <3> QED BY <3>1, <3>2
  <2>5. \A q, c : Bar(q, c)' = Bar(q, c)
    BY <2>3 DEF Bar
  <2> QED BY <2>3, <2>4, <2>5 DEF LenIsSize
<1>3. ASSUME [Next]_vars, ~ScanDevice, \A t \in Threads : ~Restore(t)
      PROVE  UNCHANGED <<bus, devices, len>>
  <2>1. ASSUME NEW t \in Threads, Step(t)
        PROVE  UNCHANGED <<bus, devices, len>>
    BY <1>3, <2>1 DEF Step, SelectBar, ReadStart, WriteMask, ReadMax, ConfigSelect, ConfigWrite,
       busVars, regVars
  <2>2. ASSUME NEW t \in Threads,
               \/ \E ids \in Lists, tail \in Behind : FindStart(t, ids, tail)
               \/ Callback(t) \/ FindEnds(t) \/ Found(t)
               \/ \E p \in Range(devices) :
                    \/ Config(t, p) \/ ConfigVxWorks(t, p)
                    \/ \E b \in BarNos : BarLen(t, p, b)
        PROVE  UNCHANGED <<bus, devices, len>>
    BY <2>2 DEF FindStart, Callback, FindEnds, Found, Config, ConfigVxWorks, BarLen, busVars, regVars
  <2>3. ASSUME NEW p \in Range(devices),
               \/ \E r \in Handlers : Connect(p, r) \/ Disconnect(p, r)
               \/ \E level \in {0, 1} : SwitchInterrupt(p, level)
        PROVE  UNCHANGED <<bus, devices, len>>
    BY <2>3 DEF Connect, Disconnect, SwitchInterrupt, busVars, regVars
  <2>4. CASE ScanEnds
    BY <2>4 DEF ScanEnds, regVars
  <2>5. CASE UNCHANGED vars
    BY <2>5 DEF vars, busVars, regVars
  <2> QED BY <1>3, <2>1, <2>2, <2>3, <2>4, <2>5 DEF Next
<1> QED BY <1>1, <1>2, <1>3, LenStays

\* The base of the upper half is read whenever that of the lower one is.
LEMMA AddressIsWhole ==
  ASSUME IInv
  PROVE  AddressWhole
<1> SUFFICES ASSUME NEW p \in Range(devices), NEW b \in BarNos, NEW a \in Told(p, b),
                    a.address # MapFail, Bar(p, b).kind = "wide"
             PROVE  Len(a.address) = 2 \/ Bar(p, b + 1).value = {}
  BY DEF AddressWhole
<1>1. a.address = LocalAddr(p, b)
  BY DEF Told
<1>2. p \in DOMAIN bus /\ base[p] = ReadBase(p)
  BY DevicesAreThere DEF IInv, TypeOK
<1>3. b + 1 \in BarNos /\ Bar(p, b + 1).kind = "high" /\ b \in Nat
  BY <1>2, BarFacts, BarCountAssumption DEF IInv, BarNos
<1>4. base[p][b] # {}
  BY <1>1 DEF LocalAddr
<1>5. ~(bus[p].bridge /\ b > 2)
  BY <1>2, <1>4 DEF ReadBase
<1>6. ~(bus[p].bridge /\ b + 1 > 3)
  BY <1>3, <1>5
<1>7. base[p][b + 1] = Bar(p, b + 1).value
  BY <1>2, <1>3, <1>6 DEF ReadBase, Configured, Stored
<1>8. CASE build.wide
  BY <1>1, <1>4, <1>8 DEF LocalAddr
<1>9. CASE ~build.wide
  BY <1>1, <1>4, <1>7, <1>9 DEF LocalAddr
<1> QED BY <1>8, <1>9

\* The search goes through the list and what lies behind it as through one.
LEMMA EntriesOfList ==
  ASSUME NEW ids \in Lists, NEW tail \in Behind
  PROVE  /\ DOMAIN ids = 1 .. Len(ids) /\ Len(ids) \in Nat /\ Len(ids) >= 1
         /\ \A i \in DOMAIN ids : i \in DOMAIN (ids \o tail) /\ (ids \o tail)[i] = ids[i]
         /\ DOMAIN (ids \o tail) \subseteq Nat \ {0}
         /\ \A i \in DOMAIN (ids \o tail) : i > Len(ids) =>
              i - Len(ids) \in DOMAIN tail /\ (ids \o tail)[i] = tail[i - Len(ids)]
         /\ \A i \in DOMAIN tail :
              /\ i \in Nat \ {0} /\ i + Len(ids) \in DOMAIN (ids \o tail)
              /\ (ids \o tail)[i + Len(ids)] = tail[i]
<1> DEFINE S == {ids[i] : i \in DOMAIN ids}  T == {tail[i] : i \in DOMAIN tail}
<1>1. ids \in Seq(S) /\ tail \in Seq(T) /\ ids # <<>>
  BY ListsAssumption
<1> HIDE DEF S, T
<1>2. ids \in Seq(S \cup T) /\ tail \in Seq(S \cup T)
  BY <1>1
<1>3. /\ DOMAIN ids = 1 .. Len(ids) /\ Len(ids) \in Nat /\ Len(ids) >= 1
      /\ DOMAIN tail = 1 .. Len(tail) /\ Len(tail) \in Nat
      /\ DOMAIN (ids \o tail) = 1 .. Len(ids) + Len(tail)
      /\ \A i \in 1 .. Len(ids) + Len(tail) :
           (ids \o tail)[i] = IF i <= Len(ids) THEN ids[i] ELSE tail[i - Len(ids)]
  BY <1>1, <1>2
<1> QED BY <1>3

LEMMA EntriesOfTail ==
  ASSUME NEW tail \in Behind
  PROVE  \A k \in DOMAIN tail : \A j \in 1 .. k : j \in DOMAIN tail
<1> DEFINE T == {tail[i] : i \in DOMAIN tail}
<1>1. tail \in Seq(T)
  BY ListsAssumption
<1> HIDE DEF T
<1>2. DOMAIN tail = 1 .. Len(tail) /\ Len(tail) \in Nat
  BY <1>1
<1> QED BY <1>2

\* DEVPCI_END itself describes no device.
LEMMA EndMatchesNothing ==
  ASSUME IInv, NEW p \in Range(devices), NEW entry, entry.device = LastDevice
  PROVE  ~Match(entry, bus[p].id)
<1>1. p \in DOMAIN bus /\ bus \in Buses
  BY DevicesAreThere DEF IInv, TypeOK
<1> QED BY <1>1, IdsAssumption DEF Match

LEMMA FindIsExact ==
  ASSUME IInv
  PROVE  FindExact
<1> SUFFICES ASSUME NEW t \in Threads, pc[t] = "found"
             PROVE
    LET ids == job[t].ids  tail == job[t].tail  told == job[t].told
        stray(p) == /\ ids[Len(ids)].device = LastDevice
                    /\ \E i \in Entries(tail) : Match(tail[i], bus[p].id)
    IN /\ \A i, j \in DOMAIN told : i < j => ~Before(told[j], told[i])
       /\ job[t].whole => \A p \in Range(devices) : Described(ids, p) => p \in Range(told)
       /\ \A p \in Range(told) : Described(ids, p) \/ stray(p)
  BY DEF FindExact
<1> DEFINE ids == job[t].ids  told == job[t].told  tail == job[t].tail  memory == ids \o tail
<1>1. SearchInv(t)
  BY DEF IInv
<1>2. /\ ids \in Lists /\ tail \in Behind
      /\ \A i, k \in DOMAIN told : i < k => ~Before(told[k], told[i])
      /\ \A i \in DOMAIN told : \E h \in Hits(t) \ Ahead(t) : told[i] = devices[h[1]]
      /\ \A h \in Hits(t) \ Ahead(t) : devices[h[1]] \in Range(told)
      /\ job[t].whole => Ahead(t) = {}
  BY <1>1 DEF SearchInv
<1>3. Hits(t) = {h \in (DOMAIN devices) \X Entries(memory) :
                   Match(memory[h[2]], bus[devices[h[1]]].id)}
  BY DEF Hits
<1> HIDE DEF ids, tail, told
<1>4. /\ DOMAIN ids = 1 .. Len(ids) /\ Len(ids) \in Nat /\ Len(ids) >= 1
      /\ \A i \in DOMAIN ids : i \in DOMAIN memory /\ memory[i] = ids[i]
      /\ DOMAIN memory \subseteq Nat \ {0}
      /\ \A i \in DOMAIN memory : i > Len(ids) =>
           i - Len(ids) \in DOMAIN tail /\ memory[i] = tail[i - Len(ids)]
      /\ \A i \in DOMAIN tail : i \in Nat \ {0} /\ i + Len(ids) \in DOMAIN memory
                              /\ memory[i + Len(ids)] = tail[i]
  BY <1>2, EntriesOfList
<1> HIDE DEF memory
<1>5. ASSUME job[t].whole, NEW p \in Range(devices), Described(ids, p)
      PROVE  p \in Range(told)
  <2>1. PICK k \in DOMAIN devices : p = devices[k]
    BY DEF Range
  <2>2. PICK i \in Written(ids) : Match(ids[i], bus[p].id)
    BY <1>5 DEF Described
  <2>3. i \in Entries(memory) /\ memory[i] = ids[i]
    BY <1>4 DEF Entries, Written
  <2>4. <<k, i>> \in Hits(t)
    BY <1>3, <2>1, <2>2, <2>3
  <2> QED BY <1>2, <1>5, <2>1, <2>4
<1>6. ASSUME NEW p \in Range(told)
      PROVE  \/ Described(ids, p)
             \/ /\ ids[Len(ids)].device = LastDevice
                /\ \E i \in Entries(tail) : Match(tail[i], bus[p].id)
  <2>1. PICK h \in Hits(t) : p = devices[h[1]]
    BY <1>2 DEF Range
  <2>0. p \in Range(devices)
    BY <1>3, <2>1 DEF Range
  <2> DEFINE i == h[2]
  <2>2. i \in Entries(memory) /\ Match(memory[i], bus[p].id) /\ i \in Nat \ {0}
    BY <1>3, <1>4, <2>1 DEF Entries
  <2>3. \A j \in 1 .. Len(ids) - 1 : ids[j].device \notin {0, LastDevice}
    BY <1>2, ListsAssumption
  <2> HIDE DEF i
  <2>4. CASE i > Len(ids)
    <3> DEFINE k == i - Len(ids)
    <3>1. i \in DOMAIN memory /\ k \in DOMAIN tail /\ memory[i] = tail[k] /\ k \in Nat \ {0}
      BY <1>4, <2>2, <2>4 DEF Entries
    <3>2. \A j \in 1 .. k : j \in DOMAIN tail => tail[j].device # 0
      <4> SUFFICES ASSUME NEW j \in 1 .. k, j \in DOMAIN tail
                   PROVE  tail[j].device # 0
        OBVIOUS
      <4>1. j + Len(ids) \in 1 .. i /\ memory[j + Len(ids)] = tail[j]
        BY <1>4, <2>2, <2>4
      <4> QED BY <2>2, <4>1 DEF Entries
    <3>3. \A j \in 1 .. k : j \in DOMAIN tail
      BY <1>2, <3>1, EntriesOfTail
    <3>4. k \in Entries(tail)
      BY <3>1, <3>2, <3>3 DEF Entries
    <3>5. ids[Len(ids)].device # 0
      <4>1. Len(ids) \in 1 .. i /\ memory[Len(ids)] = ids[Len(ids)]
        BY <1>4, <2>2, <2>4
      <4> QED BY <2>2, <4>1 DEF Entries
    <3>6. ids[Len(ids)].device = LastDevice
      <4>1. ids[Len(ids)].device \in {0, LastDevice}
        BY <1>2, EndsAssumption
      <4> QED BY <3>5, <4>1
    <3> QED BY <2>2, <3>1, <3>4, <3>6
  <2>5. CASE i <= Len(ids)
    <3>1. i \in DOMAIN ids /\ memory[i] = ids[i] /\ \A j \in 1 .. i : j \in DOMAIN ids
      BY <1>4, <2>2, <2>5
    <3>2. i \in Entries(ids)
      BY <1>4, <2>2, <3>1 DEF Entries
    <3>3. CASE ids[i].device # LastDevice
      <4>1. \A j \in 1 .. i : ids[j].device # LastDevice
        BY <1>4, <2>2, <2>3, <2>5, <3>3
      <4> QED BY <2>2, <3>1, <3>2, <4>1 DEF Described, Written
    <3>4. CASE ids[i].device = LastDevice
      BY <2>0, <2>2, <3>1, <3>4, EndMatchesNothing
    <3> QED BY <3>3, <3>4
  <2> QED BY <1>4, <2>2, <2>4, <2>5
<1> QED BY <1>2, <1>5, <1>6 DEF ids, told, tail

\* sharedDevPCIBarLen(), sharedDevPCIToLocalAddr(), sharedDevPCIFindCB(): sizes
\* are those of the BARs, addresses are whole and searches are exact.
THEOREM TellsTheTruth == Spec => []ToldTheTruth
<1>1. Init => LenIsSize
  BY DEF Init, LenIsSize, Range
<1>2. IInv /\ LenIsSize => ToldTheTruth
  BY AddressIsWhole, FindIsExact DEF ToldTheTruth
<1> QED BY <1>1, <1>2, LenNext, Inductive, PTL DEF Spec

-----------------------------------------------------------------------------
(* Interrupts                                                              *)

\* The routines installed for an interrupt, and the device supports that have
\* them connected: where the older call of vxWorks takes one for the other,
\* there are at least as many of the first.  With this, StaysConnected is
\* inductive.
Installed(p, r) == {h \in handlers : h.inum = Inum(p) /\ h.routine = r}
Users(p, r) == {c \in connected : Inum(c[1]) = Inum(p) /\ c[2] = r}
Older == build.os = "vxWorks" /\ ~Has("pciIntDisconnect2")

Connections ==
  /\ connected \subseteq (Range(devices) \X Handlers)
  /\ handlers \subseteq {Entry(p, r) : p \in Range(devices), r \in Handlers}
  /\ IsFiniteSet(connected) /\ IsFiniteSet(handlers)
  /\ Older \/ \A c \in connected : Entry(c[1], c[2]) \in handlers
  /\ \A p \in Range(devices), r \in Handlers :
       Cardinality(Users(p, r)) <= Cardinality(Installed(p, r))

LEMMA EntryIsOne ==
  ASSUME NEW p, NEW r, NEW q, NEW s, Entry(p, r) = Entry(q, s)
  PROVE  p = q /\ r = s
BY DEF Entry

LEMMA SameEntry ==
  ASSUME UNCHANGED <<build, bus>>
  PROVE  /\ \A p, r : Entry(p, r)' = Entry(p, r)
         /\ \A p : Inum(p)' = Inum(p)
         /\ Older' = Older
<1>1. /\ \A p : Inum(p)' = Inum(p)
      /\ Older' = Older
  BY DEF Inum, InumTable, Has, Older
<1> QED BY <1>1 DEF Entry

LEMMA GroupsAreFinite ==
  ASSUME Connections, NEW p, NEW r
  PROVE  IsFiniteSet(Users(p, r)) /\ IsFiniteSet(Installed(p, r))
<1>1. Users(p, r) \in SUBSET connected /\ Installed(p, r) \in SUBSET handlers
  BY DEF Users, Installed
<1> QED BY <1>1, FS_Subset DEF Connections

\* Were every routine that is left connected for its device, there would be
\* fewer of them than connections.
LEMMA SomeoneElses ==
  ASSUME Connections, NEW c \in connected, Entry(c[1], c[2]) \notin handlers
  PROVE  \E p \in Range(devices) \ {c[1]} :
           /\ Inum(p) = Inum(c[1]) /\ <<p, c[2]>> \notin connected
           /\ Entry(p, c[2]) \in handlers
<1> DEFINE n == c[1]  r == c[2]  S == Users(n, r)  H == Installed(n, r)
<1>1. /\ n \in Range(devices) /\ r \in Handlers /\ c = <<n, r>>
      /\ \A h \in handlers : \E p \in Range(devices) : h = Entry(p, h.routine) /\ h.dev = p
  BY DEF Connections, Entry
<1>2. IsFiniteSet(S) /\ IsFiniteSet(H) /\ Cardinality(S) <= Cardinality(H)
  BY <1>1, GroupsAreFinite DEF Connections
<1>3. c \in S
  BY DEF Users
<1> SUFFICES ASSUME \A h \in H : <<h.dev, r>> \in connected
             PROVE  FALSE
  <2>1. ASSUME NEW h \in H, <<h.dev, r>> \notin connected
        PROVE  \E p \in Range(devices) \ {n} :
                 Inum(p) = Inum(n) /\ <<p, r>> \notin connected /\ Entry(p, r) \in handlers
    <3>1. h \in handlers /\ h.inum = Inum(n) /\ h.routine = r
      BY DEF Installed
    <3>2. PICK p \in Range(devices) : h = Entry(p, r) /\ h.dev = p
      BY <1>1, <3>1
    <3>3. Inum(p) = Inum(n)
      BY <3>1, <3>2 DEF Entry
    <3>4. p # n
      BY <1>1, <2>1, <3>2
    <3> QED BY <2>1, <3>1, <3>2, <3>3, <3>4
  <2> QED BY <2>1
<1> DEFINE f == [h \in H |-> <<h.dev, r>>]
<1>4. f \in Injection(H, S \ {c})
  <2>1. ASSUME NEW h \in H
        PROVE  f[h] \in S \ {c}
    <3>1. h \in handlers /\ h.inum = Inum(n) /\ h.routine = r
      BY DEF Installed
    <3>2. PICK p \in Range(devices) : h = Entry(p, r) /\ h.dev = p
      BY <1>1, <3>1
    <3>3. Inum(p) = Inum(n) /\ p # n
      BY <3>1, <3>2 DEF Entry
    <3>4. <<p, r>> \in connected
      BY <3>2
    <3> QED BY <1>1, <3>2, <3>3, <3>4 DEF Users
  <2>2. ASSUME NEW g \in H, NEW h \in H, f[g] = f[h]
        PROVE  g = h
    <3>1. g \in handlers /\ g.routine = r /\ h \in handlers /\ h.routine = r /\ g.dev = h.dev
      BY <2>2 DEF Installed
    <3> QED BY <1>1, <3>1
  <2> QED BY <2>1, <2>2 DEF Injection, IsInjective
<1> HIDE DEF S, H, f
<1>5. IsFiniteSet(S \ {c}) /\ Cardinality(S \ {c}) = Cardinality(S) - 1
  BY <1>2, <1>3, FS_RemoveElement
<1>6. Cardinality(H) <= Cardinality(S \ {c})
  BY <1>4, <1>5, FS_Injection
<1>7. Cardinality(S) \in Nat /\ Cardinality(H) \in Nat
  BY <1>2, FS_CardinalityType
<1> QED BY <1>2, <1>5, <1>6, <1>7

LEMMA ConnectStays ==
  ASSUME Connections, NEW p \in Range(devices), NEW r \in Handlers, Connect(p, r)
  PROVE  Connections'
<1>1. /\ UNCHANGED <<build, bus, devices>> /\ handlers' = handlers \cup {Entry(p, r)}
      /\ connected' \in {connected, connected \cup {<<p, r>>}}
      /\ Entry(p, r) \notin handlers
  BY DEF Connect, busVars
<1>2. /\ connected' \subseteq Range(devices') \X Handlers
      /\ handlers' \subseteq {Entry(q, s)' : q \in Range(devices'), s \in Handlers}
      /\ Older' \/ \A c \in connected' : Entry(c[1], c[2])' \in handlers'
  <2>1. connected' \subseteq Range(devices') \X Handlers
    BY <1>1 DEF Connections
  <2>2. handlers' \subseteq {Entry(q, s) : q \in Range(devices), s \in Handlers}
    BY <1>1 DEF Connections
  <2>3. Older \/ \A c \in connected' : Entry(c[1], c[2]) \in handlers'
    BY <1>1 DEF Connections
  <2> QED BY <1>1, <2>1, <2>2, <2>3, SameEntry
<1>3. IsFiniteSet(connected') /\ IsFiniteSet(handlers')
  <2>1. IsFiniteSet(handlers) /\ IsFiniteSet(connected)
    BY DEF Connections
  <2>2. IsFiniteSet(handlers \cup {Entry(p, r)})
    BY <2>1, FS_AddElement
  <2>3. IsFiniteSet(connected \cup {<<p, r>>})
    BY <2>1, FS_AddElement
  <2> QED BY <1>1, <2>1, <2>2, <2>3
<1>4. ASSUME NEW q \in Range(devices), NEW s \in Handlers
      PROVE  Cardinality(Users(q, s)') <= Cardinality(Installed(q, s)')
  <2> DEFINE U == Users(q, s)  I == Installed(q, s)
  <2>1. IsFiniteSet(U) /\ IsFiniteSet(I) /\ Cardinality(U) <= Cardinality(I)
    BY GroupsAreFinite DEF Connections
  <2>2. Cardinality(U) \in Nat /\ Cardinality(I) \in Nat
    BY <2>1, FS_CardinalityType
  <2>3. /\ U' = {c \in connected' : Inum(c[1]) = Inum(q) /\ c[2] = s}
        /\ I' = {h \in handlers' : h.inum = Inum(q) /\ h.routine = s}
    BY <1>1, SameEntry DEF Users, Installed
  <2>4. CASE Inum(p) = Inum(q) /\ r = s
    <3>1. I' = I \cup {Entry(p, r)} /\ Entry(p, r) \notin I
      BY <1>1, <2>3, <2>4 DEF Installed, Entry
    <3>2. U' \in {U, U \cup {<<p, r>>}}
      BY <1>1, <2>3, <2>4 DEF Users
    <3> HIDE DEF U, I
    <3>3. Cardinality(I') = Cardinality(I) + 1
      BY <2>1, <3>1, FS_AddElement
    <3>4. Cardinality(U') \in {Cardinality(U), Cardinality(U) + 1}
      BY <2>1, <3>2, FS_AddElement
    <3>5. Cardinality(U') <= Cardinality(I')
      BY <2>1, <2>2, <3>3, <3>4
    <3> QED BY <3>5 DEF U, I
  <2>5. CASE ~(Inum(p) = Inum(q) /\ r = s)
    <3>1. U' = U
      BY <1>1, <2>3, <2>5 DEF Users
    <3>2. I' = I
      BY <1>1, <2>3, <2>5 DEF Installed, Entry
    <3> QED BY <2>1, <3>1, <3>2
  <2> QED BY <2>4, <2>5
<1> QED BY <1>1, <1>2, <1>3, <1>4 DEF Connections

LEMMA DisconnectStays ==
  ASSUME Connections, NEW p \in Range(devices), NEW r \in Handlers, Disconnect(p, r)
  PROVE  Connections'
<1>1. PICK h \in Removes(p, r) : handlers' = handlers \ {h}
  BY DEF Disconnect
<1>2. /\ UNCHANGED <<build, bus, devices>> /\ <<p, r>> \in connected
      /\ connected' = connected \ {<<p, r>>}
  BY DEF Disconnect, busVars
<1>3. h \in handlers /\ h.inum = Inum(p) /\ h.routine = r /\ (Older \/ h = Entry(p, r))
  BY DEF Removes, Older, Entry
<1>4. /\ connected' \subseteq Range(devices') \X Handlers
      /\ handlers' \subseteq {Entry(q, s)' : q \in Range(devices'), s \in Handlers}
      /\ Older' \/ \A c \in connected' : Entry(c[1], c[2])' \in handlers'
  <2>1. connected' \subseteq Range(devices') \X Handlers
    BY <1>2 DEF Connections
  <2>2. handlers' \subseteq {Entry(q, s) : q \in Range(devices), s \in Handlers}
    BY <1>1 DEF Connections
  <2>3. ASSUME ~Older, NEW c \in connected'
        PROVE  Entry(c[1], c[2]) \in handlers'
    <3>1. c \in connected /\ ~(c[1] = p /\ c[2] = r)
      BY <1>2 DEF Connections
    <3>2. Entry(c[1], c[2]) # h
      BY <1>3, <2>3, <3>1, EntryIsOne
    <3> QED BY <1>1, <2>3, <3>1, <3>2 DEF Connections
  <2> QED BY <1>2, <2>1, <2>2, <2>3, SameEntry
<1>5. IsFiniteSet(connected') /\ IsFiniteSet(handlers')
  BY <1>1, <1>2, FS_RemoveElement DEF Connections
<1>6. ASSUME NEW q \in Range(devices), NEW s \in Handlers
      PROVE  Cardinality(Users(q, s)') <= Cardinality(Installed(q, s)')
  <2> DEFINE U == Users(q, s)  I == Installed(q, s)
  <2>1. IsFiniteSet(U) /\ IsFiniteSet(I) /\ Cardinality(U) <= Cardinality(I)
    BY GroupsAreFinite DEF Connections
  <2>2. Cardinality(U) \in Nat /\ Cardinality(I) \in Nat
    BY <2>1, FS_CardinalityType
  <2>3. /\ U' = {c \in connected' : Inum(c[1]) = Inum(q) /\ c[2] = s}
        /\ I' = {g \in handlers' : g.inum = Inum(q) /\ g.routine = s}
    BY <1>2, SameEntry DEF Users, Installed
  <2>4. CASE Inum(p) = Inum(q) /\ r = s
    <3>1. U' = U \ {<<p, r>>} /\ <<p, r>> \in U
      BY <1>2, <2>3, <2>4 DEF Users
    <3>2. I' = I \ {h} /\ h \in I
      BY <1>1, <1>3, <2>3, <2>4 DEF Installed
    <3> HIDE DEF U, I
    <3>3. Cardinality(U') = Cardinality(U) - 1 /\ Cardinality(I') = Cardinality(I) - 1
      BY <2>1, <3>1, <3>2, FS_RemoveElement
    <3>4. Cardinality(U') <= Cardinality(I')
      BY <2>1, <2>2, <3>3
    <3> QED BY <3>4 DEF U, I
  <2>5. CASE ~(Inum(p) = Inum(q) /\ r = s)
    <3>1. U' = U
      BY <1>2, <2>3, <2>5 DEF Users
    <3>2. I' = I
      BY <1>1, <1>3, <2>3, <2>5 DEF Installed
    <3> QED BY <2>1, <3>1, <3>2
  <2> QED BY <2>4, <2>5
<1> QED BY <1>2, <1>4, <1>5, <1>6 DEF Connections

LEMMA ConnectionsStay ==
  ASSUME Connections, UNCHANGED <<build, bus, devices, handlers, connected>>
  PROVE  Connections'
<1>1. \A p, r : Users(p, r)' = Users(p, r) /\ Installed(p, r)' = Installed(p, r)
  BY SameEntry DEF Users, Installed
<1> QED BY <1>1, SameEntry DEF Connections

\* While the scan runs nobody is connected.
LEMMA ScanStays ==
  ASSUME IInv, Connections, ScanDevice
  PROVE  Connections'
<1>1. connected = {} /\ UNCHANGED <<build, bus, handlers, connected>>
  BY DEF ScanDevice, irqVars, IInv, ListInv
<1>2. PICK p \in Unseen : devices' = Append(devices, p)
  BY DEF ScanDevice
<1>3. devices \in Seq(DOMAIN bus) /\ Range(devices) \subseteq Range(devices')
  <2>1. devices \in Seq(DOMAIN bus)
    BY DEF IInv, TypeOK
  <2>2. \A i \in DOMAIN devices : i \in DOMAIN devices' /\ devices'[i] = devices[i]
    BY <1>2, <2>1
  <2> QED BY <2>1, <2>2 DEF Range
<1>4. handlers' \subseteq {Entry(q, s)' : q \in Range(devices'), s \in Handlers}
  BY <1>1, <1>3, SameEntry DEF Connections
<1>5. ASSUME NEW q, NEW s
      PROVE  Cardinality(Users(q, s)') <= Cardinality(Installed(q, s)')
  <2>1. Users(q, s)' = {} /\ Installed(q, s)' = Installed(q, s)
    BY <1>1, SameEntry DEF Users, Installed
  <2>2. Cardinality(Installed(q, s)) \in Nat
    BY GroupsAreFinite, FS_CardinalityType
  <2> QED BY <2>1, <2>2, FS_EmptySet
<1> QED BY <1>1, <1>4, <1>5 DEF Connections

LEMMA ConnectionsNext ==
  ASSUME IInv, Connections, [Next]_vars
  PROVE  Connections'
<1>1. CASE ScanDevice
  BY <1>1, ScanStays
<1>2. ASSUME NEW p \in Range(devices), NEW r \in Handlers, Connect(p, r) \/ Disconnect(p, r)
      PROVE  Connections'
  BY <1>2, ConnectStays, DisconnectStays
<1>3. ASSUME NEW p \in Range(devices), NEW level \in {0, 1}, SwitchInterrupt(p, level)
      PROVE  Connections'
  BY <1>3, ConnectionsStay DEF SwitchInterrupt, busVars
<1>4. ASSUME NEW t \in Threads,
             \/ Step(t) \/ Callback(t) \/ FindEnds(t) \/ Found(t)
             \/ \E ids \in Lists, tail \in Behind : FindStart(t, ids, tail)
             \/ \E p \in Range(devices) :
                  \/ Config(t, p) \/ ConfigVxWorks(t, p)
                  \/ \E b \in BarNos : BarLen(t, p, b)
      PROVE  Connections'
  <2>1. UNCHANGED <<busVars, irqVars>>
    BY <1>4 DEF Step, SelectBar, ReadStart, WriteMask, ReadMax, Restore, ConfigSelect, ConfigWrite,
       Callback, FindEnds, Found, FindStart, Config, ConfigVxWorks, BarLen
  <2>2. UNCHANGED <<build, bus, devices, handlers, connected>>
    BY <2>1 DEF busVars, irqVars
  <2> HIDE <1>4
  <2> QED BY <2>2, ConnectionsStay
<1>5. CASE ScanEnds \/ UNCHANGED vars
  <2>1. UNCHANGED <<build, bus, devices, irqVars>>
    BY <1>5 DEF ScanEnds, vars, busVars
  <2> QED BY <2>1, ConnectionsStay DEF irqVars
<1> QED BY <1>1, <1>2, <1>3, <1>4, <1>5 DEF Next

\* Devices that share an interrupt do not disturb each other: a routine stays
\* installed until its own device support disconnects it, and if the older call
\* of vxWorks has removed it in place of another device's, that one is left.
THEOREM RoutinesStay == Spec => []StaysConnected
<1>1. Init => Connections
  <2> SUFFICES ASSUME Init PROVE Connections
    OBVIOUS
  <2>1. \A p, r : Users(p, r) = {} /\ Installed(p, r) = {}
    BY DEF Init, Users, Installed
  <2>2. Cardinality({}) <= Cardinality({})
    BY FS_EmptySet
  <2>3. connected = {} /\ handlers = {}
    BY DEF Init
  <2> QED BY <2>1, <2>2, <2>3, FS_EmptySet DEF Connections
<1>2. Connections => StaysConnected
  <2> SUFFICES ASSUME Connections, NEW c \in connected, Entry(c[1], c[2]) \notin handlers
               PROVE  /\ build.os = "vxWorks" /\ ~Has("pciIntDisconnect2")
                      /\ \E p \in Range(devices) \ {c[1]} :
                           /\ Inum(p) = Inum(c[1]) /\ <<p, c[2]>> \notin connected
                           /\ Entry(p, c[2]) \in handlers
    BY DEF StaysConnected
  <2> QED BY SomeoneElses DEF Connections, Older
<1> QED BY <1>1, <1>2, ConnectionsNext, Inductive, PTL DEF Spec
=============================================================================
