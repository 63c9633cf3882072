----------------------------- MODULE PciMapProofs -----------------------------
(***************************************************************************)
(* For any number of threads and BARs: a BAR is mapped once, one thread at *)
(* a time is in the critical section of a device, the kernel driver gives  *)
(* back what it got, and a call returns a pointer and gives back devLock,  *)
(* except in the two races that the code loses.                            *)
(***************************************************************************)
EXTENDS PciMap, FiniteSetTheorems, TLAPS

\* The three invariants that an action of one thread can disturb.
ThreadInv == TypeOK /\ MappedOnce /\ CriticalSection

\* What mmap() can show is a BAR of the device.
LEMMA TargetIsBar ==
  ASSUME NEW b, rfd \subseteq Bars, b \in Bars
  PROVE  Target(b) \subseteq Bars
BY DEF Target, Region, Regions

\* Both forms of releasing devLock keep owner and depth in step.
LEMMA UnlockType ==
  ASSUME TypeOK, NEW t \in Threads, owner = t, Unlock(t)
  PROVE  /\ owner' \in Threads \cup {NoOne}
         /\ depth' \in Nat
         /\ depth' = 0 <=> owner' = NoOne
         /\ owner' \in {t, NoOne}
BY NoOneAssumption DEF TypeOK, Unlock

\* No thread but the owner of devLock is in the critical section.
LEMMA Alone ==
  ASSUME CriticalSection, NEW t \in Threads, owner \in {NoOne, t}, NEW u \in Threads, u # t
  PROVE  pc[u] \notin Locked
BY NoOneAssumption DEF CriticalSection

-----------------------------------------------------------------------------
\* The first state: nothing is mapped, nobody is in a call.
THEOREM InitHolds == Init => IInv
<1> SUFFICES ASSUME Init PROVE IInv OBVIOUS
<1>1. TypeOK
  BY KernelsAssumption, NoOneAssumption
  DEF Init, TypeOK, Pointers, CModes, CResults, Points, Stages, Gets
<1>2. MappedOnce
  BY PointerAssumption DEF Init, MappedOnce
<1>3. CriticalSection
  BY DEF Init, CriticalSection, Locked
<1>4. KernelBalanced
  BY KernelsAssumption DEF Init, KernelBalanced, Gets, Stages
<1> QED BY <1>1, <1>2, <1>3, <1>4 DEF IInv

-----------------------------------------------------------------------------
\* Call, ReadBack and ConfigAccess read the pointers and fill none.
LEMMA ReadersKeep ==
  ASSUME IInv, NEW t \in Threads,
         (\E b \in Bars : Call(t, b)) \/ ReadBack(t) \/ ConfigAccess(t)
  PROVE  ThreadInv'
<1> USE DEF IInv, ThreadInv
<1>1. CASE \E b \in Bars : Call(t, b)
  <2>1. PICK b \in Bars : Call(t, b)
    BY <1>1
  <2>2. TypeOK'
    BY <2>1 DEF Call, Goto, TypeOK, Points, others, kernelVars, configVars, histVars, fileVars, lockVars
  <2>3. MappedOnce'
    BY <2>1 DEF Call, MappedOnce, others, histVars
  <2>4. CriticalSection'
    BY <2>1 DEF Call, Goto, TypeOK, CriticalSection, Locked, lockVars
  <2> QED BY <2>2, <2>3, <2>4
<1>2. CASE ReadBack(t)
  <2>1. TypeOK'
    BY <1>2 DEF ReadBack, Return, Goto, TypeOK, Points, Pointers, others, kernelVars, configVars, histVars, fileVars, lockVars
  <2>2. MappedOnce'
    BY <1>2 DEF ReadBack, MappedOnce, others, histVars
  <2>3. CriticalSection'
    BY <1>2 DEF ReadBack, Return, Goto, TypeOK, CriticalSection, Locked, lockVars
  <2> QED BY <2>1, <2>2, <2>3
<1>3. CASE ConfigAccess(t)
  <2>1. TypeOK'
    BY <1>3 DEF ConfigAccess, Answers, TypeOK, CModes, CResults, others, kernelVars, configVars, histVars, fileVars, lockVars
  <2>2. MappedOnce'
    BY <1>3 DEF ConfigAccess, MappedOnce, others, histVars
  <2>3. CriticalSection'
    BY <1>3 DEF ConfigAccess, CriticalSection, lockVars
  <2> QED BY <2>1, <2>2, <2>3
<1> QED BY <1>1, <1>2, <1>3

\* Taking devLock: nobody else is in the critical section, and the pointer that
\* is tested again decides whether the thread enters it.
LEMMA SecondTestKeeps ==
  ASSUME IInv, NEW t \in Threads, SecondTest(t)
  PROVE  ThreadInv'
<1> USE DEF IInv, ThreadInv
<1>1. TypeOK'
  BY NoOneAssumption
  DEF SecondTest, Lock, CanLock, Goto, TypeOK, Points, others, kernelVars, configVars, histVars, fileVars
<1>2. MappedOnce'
  BY DEF SecondTest, MappedOnce, others, histVars
<1>3. CriticalSection'
  <2> SUFFICES ASSUME NEW u \in Threads
               PROVE  /\ pc'[u] \in Locked => owner' = u
                      /\ pc'[u] \in {"res", "map1", "uio", "map2"} => base'[arg'[u]] = Null
                      /\ pc'[u] \in {"undo1", "undo2"} => base'[arg'[u]] = Failed
    BY DEF CriticalSection
  <2>1. CASE u = t
    BY <2>1 DEF SecondTest, Lock, Goto, TypeOK, Locked
  <2>2. CASE u # t
    <3>1. pc[u] \notin Locked
      BY <2>2, Alone DEF SecondTest, CanLock
    <3> QED BY <2>2, <3>1 DEF SecondTest, Goto, TypeOK, Locked
  <2> QED BY <2>1, <2>2
<1> QED BY <1>1, <1>2, <1>3

\* Opening the resource file and the UIO device.
LEMMA OpenKeeps ==
  ASSUME IInv, NEW t \in Threads, OpenRes(t) \/ OpenUio(t)
  PROVE  ThreadInv'
<1> USE DEF IInv, ThreadInv
<1>1. CASE OpenRes(t)
  <2>1. TypeOK'
    BY <1>1 DEF OpenRes, Goto, TypeOK, Points, others, kernelVars, configVars, histVars, lockVars
  <2>2. MappedOnce'
    BY <1>1 DEF OpenRes, MappedOnce, others, histVars
  <2>3. CriticalSection'
    BY <1>1 DEF OpenRes, Goto, TypeOK, CriticalSection, Locked, lockVars
  <2> QED BY <2>1, <2>2, <2>3
<1>2. CASE OpenUio(t)
  <2>1. owner = t
    BY <1>2 DEF OpenUio, CriticalSection, Locked
  <2>2. MappedOnce'
    BY <1>2 DEF OpenUio, MappedOnce, others, histVars
  <2>3. CASE /\ fd # "none" \/ HasUio
             /\ fd' = IF fd = "none" THEN "live" ELSE fd
             /\ Goto(t, "map2")
             /\ UNCHANGED <<lockVars, out>>
    <3>1. TypeOK'
      BY <1>2, <2>3 DEF OpenUio, Goto, TypeOK, Points, others, kernelVars, configVars, histVars, lockVars
    <3>2. CriticalSection'
      BY <1>2, <2>3 DEF OpenUio, Goto, TypeOK, CriticalSection, Locked, lockVars
    <3> QED BY <2>2, <3>1, <3>2
  <2>4. CASE fd = "none" /\ Unlock(t) /\ Return(t, Error) /\ UNCHANGED fd
    <3>1. TypeOK'
      BY <1>2, <2>1, <2>4, UnlockType
      DEF OpenUio, Return, Goto, TypeOK, Points, others, kernelVars, configVars, histVars
    <3>2. CriticalSection'
      BY <1>2, <2>1, <2>4, Alone DEF OpenUio, Return, Goto, TypeOK, CriticalSection, Locked
    <3> QED BY <2>2, <3>1, <3>2
  <2> QED BY <1>2, <2>3, <2>4 DEF OpenUio
<1> QED BY <1>1, <1>2

\* A failed map_bar() goes on to the UIO device or leaves the critical section.
LEMMA MapFailsCases ==
  ASSUME TypeOK, NEW t \in Threads, owner = t, MapFails(t)
  PROVE  /\ pc' \in [Threads -> Points]
         /\ out' \in [Threads -> Pointers \cup {Error}]
         /\ owner' \in Threads \cup {NoOne}
         /\ depth' \in Nat
         /\ depth' = 0 <=> owner' = NoOne
         /\ \A u \in Threads \ {t} : pc'[u] = pc[u]
         /\ \/ pc'[t] = "uio" /\ owner' = t
            \/ pc'[t] = "idle"
<1>1. CASE pc[t] \in {"map1", "undo1"}
  BY <1>1 DEF MapFails, Goto, TypeOK, Points, lockVars
<1>2. CASE pc[t] \notin {"map1", "undo1"}
  BY <1>2, UnlockType DEF MapFails, Return, Goto, TypeOK, Points
<1> QED BY <1>1, <1>2

\* map_bar() without a mapping: refused, failed, or undone after a failure.
LEMMA NoMapKeeps ==
  ASSUME IInv, NEW t \in Threads, MapRefused(t) \/ MapError(t) \/ MapUndo(t)
  PROVE  ThreadInv'
<1> USE DEF IInv, ThreadInv
<1>1. owner = t /\ arg[t] \in Bars
  BY DEF MapRefused, MapError, MapUndo, CriticalSection, Locked, TypeOK
<1>2. \A u \in Threads \ {t} : pc[u] \notin Locked
  BY <1>1, Alone
<1>3. CASE MapRefused(t)
  <2>1. TypeOK'
    BY <1>1, <1>3, MapFailsCases DEF MapRefused, TypeOK, others, kernelVars, configVars, histVars, fileVars
  <2>2. MappedOnce'
    BY <1>3 DEF MapRefused, MappedOnce, others, histVars
  <2>3. CriticalSection'
    BY <1>1, <1>2, <1>3, MapFailsCases DEF MapRefused, TypeOK, CriticalSection, Locked
  <2> QED BY <2>1, <2>2, <2>3
<1>4. CASE MapError(t)
  <2>1. TypeOK'
    BY <1>1, <1>4
    DEF MapError, Goto, TypeOK, Points, Pointers, others, kernelVars, configVars, histVars, fileVars, lockVars
  <2>2. MappedOnce'
    BY <1>1, <1>4, PointerAssumption DEF MapError, MappedOnce, TypeOK, CriticalSection, others, histVars
  <2>3. CriticalSection'
    BY <1>1, <1>2, <1>4 DEF MapError, Goto, TypeOK, CriticalSection, Locked, lockVars
  <2> QED BY <2>1, <2>2, <2>3
<1>5. CASE MapUndo(t)
  <2>1. TypeOK'
    BY <1>1, <1>5, MapFailsCases DEF MapUndo, TypeOK, Pointers, others, kernelVars, configVars, histVars
  <2>2. MappedOnce'
    BY <1>1, <1>5, PointerAssumption DEF MapUndo, MappedOnce, TypeOK, CriticalSection, others, histVars
  <2>3. CriticalSection'
    BY <1>1, <1>2, <1>5, MapFailsCases DEF MapUndo, TypeOK, CriticalSection, Locked
  <2> QED BY <2>1, <2>2, <2>3
<1> QED BY <1>3, <1>4, <1>5

\* The one step that fills a pointer for good finds it empty.
LEMMA MapDoneKeeps ==
  ASSUME IInv, NEW t \in Threads, MapDone(t)
  PROVE  ThreadInv'
<1> USE DEF IInv, ThreadInv
<1>1. owner = t /\ arg[t] \in Bars /\ base[arg[t]] = Null
  BY DEF MapDone, CriticalSection, Locked, TypeOK
<1>2. \A u \in Threads \ {t} : pc[u] \notin Locked
  BY <1>1, Alone
<1>3. PICK b \in Target(arg[t]) : base' = [base EXCEPT ![arg[t]] = b]
  BY DEF MapDone
<1>4. b \in Bars
  BY <1>1, <1>3, TargetIsBar DEF TypeOK
<1>5. TypeOK'
  <2>1. base' \in [Bars -> Pointers]
    BY <1>3, <1>4 DEF TypeOK, Pointers
  <2>2. mmaps' \in [Bars -> Nat]
    BY <1>1 DEF MapDone, TypeOK
  <2>3. pc' \in [Threads -> Points] /\ \A u \in Threads : pc'[u] # "idle" => arg'[u] \in Bars
    BY <1>1 DEF MapDone, Goto, TypeOK, Points
  <2>4. owner' \in Threads \cup {NoOne} /\ depth' \in Nat /\ (depth' = 0 <=> owner' = NoOne)
    BY <1>1, UnlockType DEF MapDone
  <2> QED BY <2>1, <2>2, <2>3, <2>4 DEF MapDone, TypeOK, kernelVars, configVars, fileVars
<1>6. MappedOnce'
  <2> SUFFICES ASSUME NEW a \in Bars PROVE mmaps'[a] = IF base'[a] \in Bars THEN 1 ELSE 0
    BY DEF MappedOnce
  <2>1. CASE a = arg[t]
    <3>1. mmaps[a] = 0
      BY <1>1, <2>1, PointerAssumption DEF MappedOnce
    <3>2. mmaps'[a] = 1
      BY <2>1, <3>1 DEF MapDone, TypeOK
    <3> QED BY <1>3, <1>4, <2>1, <3>2 DEF TypeOK
  <2>2. CASE a # arg[t]
    BY <1>3, <2>2 DEF MapDone, MappedOnce, TypeOK
  <2> QED BY <2>1, <2>2
<1>7. CriticalSection'
  BY <1>1, <1>2 DEF MapDone, Goto, TypeOK, CriticalSection, Locked
<1> QED BY <1>5, <1>6, <1>7

-----------------------------------------------------------------------------
\* A step of the kernel driver leaves the pointers and devLock alone.
LEMMA KernelKeeps ==
  ASSUME IInv, Probe \/ ProbeFails \/ Unbind
  PROVE  IInv'
<1> USE DEF IInv
<1>1. UNCHANGED <<base, rfd, configVars, lockVars, pc, arg, out, histVars>>
  BY DEF Probe, ProbeStep, ProbeFails, Unbind, fileVars, configVars
<1>2. TypeOK'
  <2>1. kernel' \in Stages \cup {"compact"} /\ held' \subseteq Gets["bound"]
    BY DEF Probe, ProbeStep, ProbeFails, Unbind, TypeOK, Stages, Gets
  <2>2. fd' \in {"none", "live", "dead"}
    BY DEF Probe, ProbeStep, ProbeFails, Unbind, TypeOK, fileVars
  <2> QED BY <1>1, <2>1, <2>2 DEF TypeOK, lockVars, configVars, histVars
<1>3. MappedOnce'
  BY <1>1 DEF MappedOnce, histVars
<1>4. CriticalSection'
  BY <1>1 DEF CriticalSection, lockVars
<1>5. KernelBalanced'
  <2>1. CASE Probe
    BY <2>1 DEF Probe, ProbeStep, KernelBalanced, Gets, Stages
  <2>2. CASE ProbeFails
    BY <2>2 DEF ProbeFails, Undone, KernelBalanced, Gets, Stages
  <2>3. CASE Unbind
    BY <2>3 DEF Unbind, KernelBalanced, Gets, Stages
  <2> QED BY <2>1, <2>2, <2>3
<1> QED BY <1>2, <1>3, <1>4, <1>5

\* Every step keeps the invariant.
THEOREM NextKeeps == IInv /\ [Next]_vars => IInv'
<1> SUFFICES ASSUME IInv, [Next]_vars PROVE IInv' OBVIOUS
<1>1. ASSUME NEW t \in Threads,
             Step(t) \/ ConfigAccess(t) \/ \E b \in Bars : Call(t, b)
      PROVE  IInv'
  <2>1. ThreadInv'
    BY <1>1, ReadersKeep, SecondTestKeeps, OpenKeeps, NoMapKeeps, MapDoneKeeps DEF Step
  <2>2. UNCHANGED kernelVars
    BY <1>1
    DEF Step, Call, SecondTest, OpenRes, OpenUio, MapRefused, MapDone, MapError, MapUndo,
        ReadBack, ConfigAccess, others
  <2>3. KernelBalanced'
    BY <2>2 DEF IInv, KernelBalanced, kernelVars, configVars
  <2> QED BY <2>1, <2>3 DEF IInv, ThreadInv
<1>2. CASE Probe \/ ProbeFails \/ Unbind
  BY <1>2, KernelKeeps
<1>3. CASE UNCHANGED vars
  BY <1>3 DEF IInv, TypeOK, MappedOnce, CriticalSection, KernelBalanced, vars
<1> QED BY <1>1, <1>2, <1>3 DEF Next

\* linuxDevPCIToLocalAddr() maps each BAR of a device at most once, inside a
\* critical section that one thread at a time is in, and probe_generic_msi()
\* gives back exactly what it got.
THEOREM Inductive == Spec => []IInv
<1>1. Init => IInv
  BY InitHolds
<1>2. IInv /\ [Next]_vars => IInv'
  BY NextKeeps
<1> QED BY <1>1, <1>2, PTL DEF Spec

\* However many drivers race for the first call, no BAR is mapped twice and no
\* mapping is lost.
THEOREM MapsOnce == Spec => []MappedOnce
<1>1. IInv => MappedOnce
  BY DEF IInv
<1> QED BY <1>1, Inductive, PTL

-----------------------------------------------------------------------------
(* The region number map_bar() computes.                                   *)

\* A kernel driver that numbers its regions over the memory BARs is only used
\* with devices on which no BAR is unused, and none is the upper half of another
\* one, below a memory BAR: map_bar() lowers the number for I/O ports alone.
NoGaps ==
  "compact" \in Kernels =>
    \A a, b \in Bars : a < b /\ Kind[b] = "mem" => Kind[a] # "none"

Below(b) == {a \in Regions : a < b}

\* No two regions have as many regions before them.
LEMMA RegionIsUnique ==
  ASSUME NEW a \in Regions, NEW b \in Regions, Cardinality(Below(a)) = Cardinality(Below(b))
  PROVE  a = b
<1> USE BarCountAssumption
<1>1. a \in Int /\ b \in Int /\ Regions \subseteq Bars /\ Bars \subseteq Int
  BY DEF Regions, Bars
<1>2. ASSUME NEW x \in Regions, NEW y \in Regions, x < y
      PROVE  Cardinality(Below(x)) # Cardinality(Below(y))
  <2>1. x \in Below(y) /\ x \notin Below(x)
    <3>1. x \in Int
      BY <1>1
    <3>2. x \notin Below(x)
      BY <3>1 DEF Below
    <3>3. x \in Below(y)
      BY <1>2 DEF Below
    <3> QED BY <3>2, <3>3
  <2>2. Below(x) \subseteq Below(y)
    <3> SUFFICES ASSUME NEW z \in Below(x) PROVE z \in Below(y)
      OBVIOUS
    <3>1. z \in Regions /\ z < x
      BY DEF Below
    <3>2. z \in Int /\ x \in Int /\ y \in Int
      BY <1>1, <3>1
    <3>3. z < y
      BY <1>2, <3>1, <3>2
    <3> QED BY <3>1, <3>3 DEF Below
  <2>3. IsFiniteSet(Below(y))
    <3>1. IsFiniteSet(Bars)
      <4>1. 0 \in Int /\ BarCount - 1 \in Int
        OBVIOUS
      <4> QED BY <4>1, FS_Interval DEF Bars
    <3>2. Below(y) \subseteq Bars
      BY <1>1 DEF Below
    <3> QED BY <3>1, <3>2, FS_Subset
  <2> QED BY <2>1, <2>2, <2>3, FS_Subset
<1>3. a < b \/ b < a \/ a = b
  BY <1>1
<1> QED BY <1>2, <1>3

\* The number map_bar() passes for a memory BAR is that of its region.
LEMMA NumberIsRight ==
  ASSUME NoGaps, kernel = "compact" => "compact" \in Kernels,
         NEW b \in Bars, Kind[b] = "mem"
  PROVE  b \in Regions /\ UioMapNo(b) = Cardinality(Below(b))
<1> USE BarCountAssumption
<1>1. b \in Regions /\ b \in Nat /\ Bars \subseteq Nat
  BY DEF Regions, Bars
<1>2. CASE ~Compact
  <2>1. Below(b) = 0 .. b - 1
    BY <1>1, <1>2 DEF Below, Regions, Bars
  <2>2. Cardinality(0 .. b - 1) = b
    BY <1>1, FS_Interval
  <2> QED BY <1>1, <1>2, <2>1, <2>2 DEF UioMapNo
<1>3. CASE Compact
  <2> DEFINE Ports == {a \in 0 .. b : Kind[a] = "io"}
  <2>1. Below(b) \subseteq 0 .. b - 1 /\ Ports \subseteq 0 .. b - 1
    BY <1>1, <1>3 DEF Below, Regions, Bars
  <2>2. 0 .. b - 1 \subseteq Below(b) \cup Ports
    <3> SUFFICES ASSUME NEW a \in 0 .. b - 1 PROVE a \in Below(b) \cup Ports
      OBVIOUS
    <3>1. a \in Bars /\ a < b
      BY <1>1 DEF Bars
    <3>2. Kind[a] \in {"mem", "io"}
      BY <1>3, <3>1, KindAssumption DEF NoGaps, Compact
    <3> QED BY <1>3, <3>1, <3>2 DEF Below, Regions
  <2>3. Below(b) \cap Ports = {}
    BY <1>3 DEF Below, Regions
  <2>4. IsFiniteSet(0 .. b - 1) /\ Cardinality(0 .. b - 1) = b
    BY <1>1, FS_Interval
  <2>5. IsFiniteSet(Below(b)) /\ IsFiniteSet(Ports)
    BY <2>1, <2>4, FS_Subset
  <2>6. Below(b) \cup Ports = 0 .. b - 1
    BY <2>1, <2>2
  <2>7. Cardinality(Below(b)) \in Nat /\ Cardinality(Ports) \in Nat
    BY <2>5, FS_CardinalityType
  <2>8. b = Cardinality(Below(b)) + Cardinality(Ports)
    <3> HIDE DEF Ports
    <3>1. Cardinality(Below(b) \cup Ports)
            = Cardinality(Below(b)) + Cardinality(Ports) - Cardinality(Below(b) \cap Ports)
      BY <2>5, FS_Union
    <3>2. Cardinality(Below(b) \cap Ports) = 0
      BY <2>3, FS_EmptySet
    <3>3. Cardinality(Below(b) \cup Ports) = b
      BY <2>4, <2>6
    <3> QED BY <2>7, <3>1, <3>2, <3>3
  <2>9. UioMapNo(b) = b - Cardinality(Ports)
    BY <1>3 DEF UioMapNo
  <2> HIDE DEF Ports
  <2> QED BY <1>1, <2>7, <2>8, <2>9
<1> QED BY <1>2, <1>3

\* Whichever file map_bar() maps, a memory BAR shows its own memory.
LEMMA TargetIsRight ==
  ASSUME NoGaps, kernel = "compact" => "compact" \in Kernels,
         NEW b \in Bars, Kind[b] = "mem", NEW shown \in Target(b)
  PROVE  shown = b
<1>1. CASE b \in rfd
  BY <1>1 DEF Target
<1>2. CASE b \notin rfd
  <2>1. shown \in Regions /\ Cardinality(Below(shown)) = UioMapNo(b)
    BY <1>2 DEF Target, Region, Below
  <2> QED BY <2>1, NumberIsRight, RegionIsUnique
<1> QED BY <1>1, <1>2

\* On every device without such gaps, with either kernel driver, bound and unbound
\* at any time, each pointer that is handed out shows the BAR that was asked for.
THEOREM RightBar ==
  ASSUME NoGaps
  PROVE  Spec => []ShowsItsBar
<1> DEFINE Inv == ShowsItsBar /\ (kernel = "compact" => "compact" \in Kernels)
<1>1. Init => Inv
  BY PointerAssumption, KernelsAssumption DEF Init, ShowsItsBar
<1>2. IInv /\ Inv /\ [Next]_vars => Inv'
  <2> SUFFICES ASSUME IInv, Inv, [Next]_vars PROVE Inv' OBVIOUS
  <2>1. kernel' = "compact" => kernel = "compact"
    BY DEF Next, Step, Call, SecondTest, OpenRes, OpenUio, MapRefused, MapDone, MapError, MapUndo,
           ReadBack, ConfigAccess, Probe, ProbeStep, ProbeFails, Unbind, others, kernelVars, configVars, vars
  <2>2. ASSUME NEW t \in Threads, MapDone(t) PROVE ShowsItsBar'
    <3>1. arg[t] \in Bars /\ Kind[arg[t]] = "mem"
      BY <2>2 DEF MapDone, IInv, TypeOK
    <3>2. base' = [base EXCEPT ![arg[t]] = arg[t]]
      BY <2>2, <3>1, TargetIsRight DEF MapDone
    <3> QED BY <3>1, <3>2 DEF ShowsItsBar, IInv, TypeOK
  <2>3. ASSUME NEW t \in Threads, MapError(t) \/ MapUndo(t) PROVE ShowsItsBar'
    <3>1. \E p \in {Null, Failed} : base' = [base EXCEPT ![arg[t]] = p]
      BY <2>3 DEF MapError, MapUndo
    <3> QED BY <3>1, PointerAssumption DEF ShowsItsBar, IInv, TypeOK
  <2>4. ASSUME UNCHANGED base PROVE ShowsItsBar'
    BY <2>4 DEF ShowsItsBar
  <2>5. \/ UNCHANGED base
        \/ \E t \in Threads : MapDone(t) \/ MapError(t) \/ MapUndo(t)
    BY DEF Next, Step, Call, SecondTest, OpenRes, OpenUio, MapRefused, ReadBack, ConfigAccess,
           Probe, ProbeStep, ProbeFails, Unbind, vars
  <2>6. ShowsItsBar'
    BY <2>2, <2>3, <2>4, <2>5
  <2> QED BY <2>1, <2>6
<1> QED BY <1>1, <1>2, Inductive, PTL DEF Spec

-----------------------------------------------------------------------------
(* What a call leaves behind: a pointer, and devLock.                      *)

\* MAP_FAILED is in base[bar] only until it is cleared; a BAR once mapped stays
\* so, and is found by every later first test.
MappedInv ==
  /\ \A b \in Bars : base[b] = Failed => Undoing(b)
  /\ \A t \in Threads, b \in Bars : <<t, b>> \in late => base[b] \in Bars
  /\ \A t \in Threads : pc[t] = "lock" => <<t, arg[t]>> \notin late
  /\ \A t \in Threads : pc[t] = "return" => base[arg[t]] \in Bars \/ t \in met

LeaveInv == MappedInv /\ PointerValid /\ LockCounted

\* The BARs for which a thread keeps devLock can be counted.
LEMMA KeptFinite ==
  ASSUME NEW t \in Threads
  PROVE  /\ IsFiniteSet(KeptBy(t)) /\ Cardinality(KeptBy(t)) \in Nat
         /\ Cardinality(KeptBy(t)) = 0 <=> KeptBy(t) = {}
<1>1. IsFiniteSet(Bars)
  <2>1. 0 \in Int /\ BarCount - 1 \in Int
    BY BarCountAssumption
  <2> QED BY <2>1, FS_Interval DEF Bars
<1>2. KeptBy(t) \subseteq Bars
  BY DEF KeptBy
<1>3. IsFiniteSet(KeptBy(t))
  BY <1>1, <1>2, FS_Subset
<1> QED BY <1>3, FS_CardinalityType, FS_EmptySet

\* Taking devLock, for good or for the critical section, and releasing it.
LEMMA LockSteps ==
  ASSUME TypeOK, LockCounted, NEW t \in Threads, TypeOK',
         \A u \in Threads \ {t} : pc'[u] = pc[u],
         \/ UNCHANGED <<owner, depth, late>> /\ (pc[t] \in Locked <=> pc'[t] \in Locked)
         \/ CanLock(t) /\ Lock(t) /\ late' = late /\ pc[t] \notin Locked /\ pc'[t] \in Locked
         \/ /\ CanLock(t) /\ Lock(t) /\ pc[t] \notin Locked /\ pc'[t] \notin Locked
            /\ \E b \in Bars : <<t, b>> \notin late /\ late' = late \cup {<<t, b>>}
         \/ owner = t /\ Unlock(t) /\ late' = late /\ pc[t] \in Locked /\ pc'[t] \notin Locked
  PROVE  LockCounted'
<1> DEFINE Count(u) == Cardinality(KeptBy(u))
<1>0. /\ owner # NoOne => depth \in Nat \ {0}
      /\ owner = NoOne => depth = 0
      /\ depth \in Nat /\ NoOne \notin Threads
  BY NoOneAssumption DEF TypeOK
<1>1. \A u \in Threads : Count(u) \in Nat /\ (Count(u) = 0 <=> KeptBy(u) = {})
  BY KeptFinite
<1>2. CASE UNCHANGED <<owner, depth, late>> /\ (pc[t] \in Locked <=> pc'[t] \in Locked)
  <2>1. \A u \in Threads : KeptBy(u)' = KeptBy(u) /\ (pc'[u] \in Locked <=> pc[u] \in Locked)
    BY <1>2 DEF KeptBy
  <2>2. \A u \in Threads : Cardinality(KeptBy(u))' = Cardinality(KeptBy(u))
    BY <2>1
  <2> QED BY <1>2, <2>1, <2>2 DEF LockCounted
<1>3. CASE CanLock(t) /\ Lock(t) /\ late' = late /\ pc[t] \notin Locked /\ pc'[t] \in Locked
  <2>1. \A u \in Threads : KeptBy(u)' = KeptBy(u) /\ Cardinality(KeptBy(u))' = Count(u)
    BY <1>3 DEF KeptBy
  <2>2. depth = Count(t)
    BY <1>0, <1>1, <1>3 DEF CanLock, LockCounted
  <2>3. owner' = t /\ depth' = Count(t) + 1
    BY <1>3, <2>2 DEF Lock
  <2>4. \A u \in Threads \ {t} : KeptBy(u) = {} /\ pc'[u] \notin Locked
    BY <1>0, <1>3 DEF CanLock, LockCounted
  <2> QED BY <1>3, <2>1, <2>3, <2>4 DEF LockCounted
<1>4. ASSUME CanLock(t), Lock(t), pc[t] \notin Locked, pc'[t] \notin Locked,
             NEW b \in Bars, <<t, b>> \notin late, late' = late \cup {<<t, b>>}
      PROVE  LockCounted'
  <2>1. \A u \in Threads \ {t} : KeptBy(u)' = KeptBy(u)
    BY <1>4 DEF KeptBy
  <2>2. KeptBy(t)' = KeptBy(t) \cup {b} /\ b \notin KeptBy(t)
    BY <1>4 DEF KeptBy
  <2>3. Cardinality(KeptBy(t) \cup {b}) = Count(t) + 1
    BY <2>2, KeptFinite, FS_AddElement
  <2>4. Cardinality(KeptBy(t))' = Count(t) + 1
    BY <2>2, <2>3
  <2>5. depth = Count(t)
    BY <1>0, <1>1, <1>4 DEF CanLock, LockCounted
  <2>6. owner' = t /\ depth' = Count(t) + 1
    BY <1>4, <2>5 DEF Lock
  <2>7. \A u \in Threads \ {t} : KeptBy(u) = {} /\ pc'[u] \notin Locked
    BY <1>0, <1>4 DEF CanLock, LockCounted
  <2> HIDE DEF Count
  <2>8. owner' = t => depth' = Cardinality(KeptBy(t))' + 0
    BY <1>1, <2>4, <2>6
  <2> QED BY <1>4, <2>1, <2>6, <2>7, <2>8 DEF LockCounted
<1>5. CASE owner = t /\ Unlock(t) /\ late' = late /\ pc[t] \in Locked /\ pc'[t] \notin Locked
  <2>1. \A u \in Threads : KeptBy(u)' = KeptBy(u) /\ Cardinality(KeptBy(u))' = Count(u)
    BY <1>5 DEF KeptBy
  <2>2. depth = Count(t) + 1
    BY <1>5 DEF LockCounted
  <2>3. depth' = Count(t) /\ owner' = IF Count(t) = 0 THEN NoOne ELSE t
    BY <1>1, <1>5, <2>2 DEF Unlock
  <2>4. \A u \in Threads \ {t} : KeptBy(u) = {} /\ pc'[u] \notin Locked
    BY <1>5 DEF LockCounted
  <2>5. owner' # t => KeptBy(t) = {}
    BY <1>1, <2>3
  <2>6. depth' = Count(t) + 0
    BY <1>1, <2>3
  <2> HIDE DEF Count
  <2>7. owner' \in {t, NoOne}
    BY <2>3
  <2> QED BY <1>0, <1>5, <2>1, <2>4, <2>5, <2>6, <2>7 DEF LockCounted
<1> QED BY <1>2, <1>3, <1>4, <1>5

\* A BAR that is mapped stays mapped, whatever another call does.
LEMMA StaysMapped ==
  ASSUME IInv, NEW t \in Threads, Step(t), NEW b \in Bars, base[b] \in Bars
  PROVE  base'[b] \in Bars
<1> USE DEF IInv, TypeOK
<1>1. CASE MapDone(t)
  <2>1. PICK a \in Bars : base' = [base EXCEPT ![arg[t]] = a]
    BY <1>1, TargetIsBar DEF MapDone
  <2> QED BY <2>1
<1>2. CASE MapError(t) \/ MapUndo(t)
  <2>1. base[arg[t]] \notin Bars /\ \E p \in {Null, Failed} : base' = [base EXCEPT ![arg[t]] = p]
    BY <1>2, PointerAssumption DEF MapError, MapUndo, CriticalSection
  <2> QED BY <2>1
<1>3. CASE base' = base
  BY <1>3
<1> QED BY <1>1, <1>2, <1>3 DEF Step, SecondTest, OpenRes, OpenUio, MapRefused, ReadBack

\* Nobody that can take devLock finds MAP_FAILED.
LEMMA NotWhileUndoing ==
  ASSUME IInv, MappedInv, NEW t \in Threads, pc[t] = "lock", CanLock(t)
  PROVE  base[arg[t]] # Failed
<1>1. arg[t] \in Bars
  BY DEF IInv, TypeOK
<1>2. ASSUME NEW u \in Threads, pc[u] \in {"undo1", "undo2"}
      PROVE  FALSE
  <2>1. owner = u
    BY <1>2 DEF IInv, CriticalSection, Locked
  <2> QED BY <1>2, <2>1, NoOneAssumption DEF CanLock
<1> QED BY <1>1, <1>2 DEF MappedInv, Undoing

\* What a step of t does to the things LeaveInv speaks of.
LEMMA StepEffect ==
  ASSUME IInv, MappedInv, NEW t \in Threads, Step(t)
  PROVE  /\ UNCHANGED <<arg, met>>
         /\ \A u \in Threads \ {t} : pc'[u] = pc[u] /\ out'[u] = out[u]
         /\ pc[t] # "idle" /\ pc'[t] # "lock" /\ arg[t] \in Bars
         /\ pc'[t] = "return" => base'[arg[t]] \in Bars
         /\ pc'[t] = "idle" => \/ out'[t] = Error
                               \/ pc[t] = "return" /\ out'[t] = base[arg[t]]
         /\ \/ late' = late
            \/ /\ pc[t] = "lock" /\ base' = base /\ base[arg[t]] \in Bars
               /\ late' = late \cup {<<t, arg[t]>>}
<1> USE DEF IInv, TypeOK, others, histVars
<1>0. pc[t] # "idle" /\ arg[t] \in Bars
  BY DEF Step, SecondTest, OpenRes, OpenUio, MapRefused, MapDone, MapError, MapUndo, ReadBack
<1>1. CASE SecondTest(t)
  <2>1. base[arg[t]] # Failed
    BY <1>1, NotWhileUndoing DEF SecondTest
  <2>2. base[arg[t]] \in Pointers
    BY <1>0
  <2> QED BY <1>0, <1>1, <2>1, <2>2 DEF SecondTest, Goto, Pointers
<1>2. CASE OpenRes(t)
  BY <1>0, <1>2 DEF OpenRes, Goto
<1>3. CASE OpenUio(t)
  BY <1>0, <1>3 DEF OpenUio, Goto, Return
<1>4. CASE MapRefused(t)
  BY <1>0, <1>4 DEF MapRefused, MapFails, Goto, Return
<1>5. CASE MapDone(t)
  <2>1. base'[arg[t]] \in Bars
    BY <1>0, <1>5, TargetIsBar DEF MapDone
  <2> QED BY <1>0, <1>5, <2>1 DEF MapDone, Goto
<1>6. CASE MapError(t)
  BY <1>0, <1>6 DEF MapError, Goto
<1>7. CASE MapUndo(t)
  BY <1>0, <1>7 DEF MapUndo, MapFails, Goto, Return
<1>8. CASE ReadBack(t)
  BY <1>0, <1>8 DEF ReadBack, Goto, Return
<1> QED BY <1>1, <1>2, <1>3, <1>4, <1>5, <1>6, <1>7, <1>8 DEF Step

\* A base[bar] that holds MAP_FAILED after a step of t is being cleared.
LEMMA FailedIsUndone ==
  ASSUME IInv, MappedInv, NEW t \in Threads, Step(t), NEW b \in Bars, base'[b] = Failed
  PROVE  Undoing(b)'
<1> USE DEF IInv, TypeOK
<1>0. UNCHANGED arg /\ \A u \in Threads \ {t} : pc'[u] = pc[u]
  BY StepEffect
<1>1. CASE base[b] = Failed
  <2>1. PICK u \in Threads : pc[u] \in {"undo1", "undo2"} /\ arg[u] = b
    BY <1>1 DEF MappedInv, Undoing
  <2>2. CASE u # t
    BY <1>0, <2>1, <2>2 DEF Undoing
  <2>3. CASE u = t
    <3>1. MapUndo(t)
      BY <2>1, <2>3 DEF Step, SecondTest, OpenRes, OpenUio, MapRefused, MapDone, MapError, MapUndo, ReadBack
    <3> QED BY <2>1, <2>3, <3>1, PointerAssumption DEF MapUndo
  <2> QED BY <2>2, <2>3
<1>2. CASE base[b] # Failed
  <2>1. MapError(t) \/ MapDone(t) \/ MapUndo(t)
    BY <1>2 DEF Step, SecondTest, OpenRes, OpenUio, MapRefused, MapDone, MapError, MapUndo, ReadBack
  <2>2. arg[t] \in Bars
    BY StepEffect
  <2>3. MapError(t)
    <3>1. ASSUME MapDone(t) PROVE FALSE
      <4>1. PICK a \in Bars : base' = [base EXCEPT ![arg[t]] = a]
        BY <2>2, <3>1, TargetIsBar DEF MapDone
      <4> QED BY <1>2, <4>1, PointerAssumption
    <3>2. ASSUME MapUndo(t) PROVE FALSE
      BY <1>2, <2>2, <3>2, PointerAssumption DEF MapUndo
    <3> QED BY <2>1, <3>1, <3>2
  <2>4. arg[t] = b /\ pc'[t] \in {"undo1", "undo2"}
    BY <1>2, <2>2, <2>3 DEF MapError, Goto
  <2> QED BY <1>0, <2>4 DEF Undoing
<1> QED BY <1>1, <1>2

LEMMA StepLocks ==
  ASSUME IInv, LeaveInv, NEW t \in Threads, Step(t)
  PROVE  LockCounted'
<1> USE DEF IInv, TypeOK, LeaveInv, others, histVars, lockVars
<1>1. TypeOK /\ TypeOK' /\ LockCounted
  BY NextKeeps DEF Next
<1>2. /\ \A u \in Threads \ {t} : pc'[u] = pc[u]
      /\ arg[t] \in Bars
  BY StepEffect
<1>3. pc[t] \in Locked => owner = t
  BY DEF CriticalSection
<1> HIDE DEF IInv, TypeOK, LeaveInv
<1>4. CASE SecondTest(t)
  <2>1. pc[t] = "lock" /\ CanLock(t) /\ Lock(t)
    BY <1>4 DEF SecondTest
  <2>2. CASE base[arg[t]] = Null
    <3>1. pc'[t] = "res" /\ late' = late
      BY <1>1, <1>4, <2>2 DEF SecondTest, Goto, TypeOK
    <3> QED BY <1>1, <1>2, <2>1, <3>1, LockSteps DEF Locked
  <2>3. CASE base[arg[t]] # Null
    <3>1. pc'[t] = "return" /\ late' = late \cup {<<t, arg[t]>>}
      BY <1>1, <1>4, <2>3 DEF SecondTest, Goto, TypeOK
    <3>2. <<t, arg[t]>> \notin late
      BY <2>1 DEF LeaveInv, MappedInv
    <3> QED BY <1>1, <1>2, <2>1, <3>1, <3>2, LockSteps DEF Locked
  <2> QED BY <2>2, <2>3
<1>5. CASE OpenRes(t) \/ MapError(t)
  <2>1. UNCHANGED <<owner, depth, late>> /\ pc[t] \in Locked /\ pc'[t] \in Locked
    BY <1>1, <1>5 DEF OpenRes, MapError, Goto, TypeOK, Locked
  <2> QED BY <1>1, <1>2, <2>1, LockSteps
<1>6. CASE OpenUio(t)
  <2>1. late' = late /\ pc[t] \in Locked
    BY <1>6 DEF OpenUio, Locked
  <2>2. \/ UNCHANGED <<owner, depth>> /\ pc'[t] \in Locked
        \/ Unlock(t) /\ pc'[t] \notin Locked
    BY <1>1, <1>6 DEF OpenUio, Goto, Return, TypeOK, Locked
  <2> QED BY <1>1, <1>2, <1>3, <2>1, <2>2, LockSteps
<1>7. CASE MapRefused(t) \/ MapUndo(t)
  <2>1. late' = late /\ pc[t] \in Locked /\ MapFails(t)
    BY <1>7 DEF MapRefused, MapUndo, Locked
  <2>2. \/ UNCHANGED <<owner, depth>> /\ pc'[t] \in Locked
        \/ Unlock(t) /\ pc'[t] \notin Locked
    BY <1>1, <2>1 DEF MapFails, Goto, Return, TypeOK, Locked
  <2> QED BY <1>1, <1>2, <1>3, <2>1, <2>2, LockSteps
<1>8. CASE MapDone(t)
  <2>1. late' = late /\ pc[t] \in Locked /\ pc'[t] \notin Locked /\ Unlock(t)
    BY <1>1, <1>8 DEF MapDone, Goto, TypeOK, Locked
  <2> QED BY <1>1, <1>2, <1>3, <2>1, LockSteps
<1>9. CASE ReadBack(t)
  <2>1. UNCHANGED <<owner, depth, late>> /\ pc[t] \notin Locked /\ pc'[t] \notin Locked
    BY <1>1, <1>9 DEF ReadBack, Return, Goto, TypeOK, Locked
  <2> QED BY <1>1, <1>2, <2>1, LockSteps
<1> QED BY <1>4, <1>5, <1>6, <1>7, <1>8, <1>9 DEF Step

\* Every step of a thread inside a call keeps it.
LEMMA StepLeaves ==
  ASSUME IInv, LeaveInv, NEW t \in Threads, Step(t)
  PROVE  LeaveInv'
<1> USE DEF LeaveInv
<1>1. /\ UNCHANGED <<arg, met>>
      /\ \A u \in Threads \ {t} : pc'[u] = pc[u] /\ out'[u] = out[u]
      /\ pc[t] # "idle" /\ pc'[t] # "lock" /\ arg[t] \in Bars
      /\ pc'[t] = "return" => base'[arg[t]] \in Bars
      /\ pc'[t] = "idle" => out'[t] = Error \/ (pc[t] = "return" /\ out'[t] = base[arg[t]])
      /\ \/ late' = late
         \/ pc[t] = "lock" /\ base' = base /\ base[arg[t]] \in Bars /\ late' = late \cup {<<t, arg[t]>>}
  BY StepEffect
<1>2. \A b \in Bars : base[b] \in Bars => base'[b] \in Bars
  BY StaysMapped
<1>3. \A b \in Bars : base'[b] = Failed => Undoing(b)'
  BY FailedIsUndone
<1>4. \A u \in Threads : pc[u] # "idle" => arg[u] \in Bars
  BY DEF IInv, TypeOK
<1>5. MappedInv'
  <2>1. \A u \in Threads, b \in Bars : <<u, b>> \in late' => base'[b] \in Bars
    BY <1>1, <1>2 DEF MappedInv
  <2>2. \A u \in Threads : pc'[u] = "lock" => <<u, arg'[u]>> \notin late'
    BY <1>1 DEF MappedInv
  <2>3. \A u \in Threads : pc'[u] = "return" => base'[arg'[u]] \in Bars \/ u \in met'
    BY <1>1, <1>2, <1>4 DEF MappedInv
  <2> QED BY <1>3, <2>1, <2>2, <2>3 DEF MappedInv
<1>6. PointerValid'
  BY <1>1 DEF PointerValid, MappedInv
<1> QED BY <1>5, <1>6, StepLocks

\* The first test: whoever reads MAP_FAILED is noted.
LEMMA CallLeaves ==
  ASSUME IInv, LeaveInv, NEW t \in Threads, NEW b \in Bars, Call(t, b)
  PROVE  LeaveInv'
<1> USE DEF LeaveInv
<1>1. /\ UNCHANGED <<base, owner, depth, out, late>> /\ pc[t] = "idle"
      /\ arg' = [arg EXCEPT ![t] = b]
      /\ pc' = [pc EXCEPT ![t] = IF base[b] = Null THEN "lock" ELSE "return"]
      /\ met' = IF Undoing(b) THEN met \cup {t} ELSE met \ {t}
  BY DEF Call, Goto, lockVars
<1>2. /\ \A u \in Threads \ {t} : pc'[u] = pc[u] /\ arg'[u] = arg[u] /\ (u \in met' <=> u \in met)
      /\ arg'[t] = b /\ pc'[t] = IF base[b] = Null THEN "lock" ELSE "return"
      /\ base[b] \in Pointers
  BY <1>1 DEF IInv, TypeOK
<1>3. \A a \in Bars : Undoing(a) => Undoing(a)'
  BY <1>1, <1>2 DEF Undoing
<1>4. MappedInv'
  <2>1. \A a \in Bars : base'[a] = Failed => Undoing(a)'
    BY <1>1, <1>3 DEF MappedInv
  <2>2. \A u \in Threads, a \in Bars : <<u, a>> \in late' => base'[a] \in Bars
    BY <1>1 DEF MappedInv
  <2>3. \A u \in Threads : pc'[u] = "lock" => <<u, arg'[u]>> \notin late'
    BY <1>1, <1>2, PointerAssumption DEF MappedInv
  <2>4. base[b] = Failed => t \in met'
    BY <1>1 DEF MappedInv
  <2>5. \A u \in Threads : pc'[u] = "return" => base'[arg'[u]] \in Bars \/ u \in met'
    BY <1>1, <1>2, <2>4 DEF MappedInv, Pointers
  <2> QED BY <2>1, <2>2, <2>3, <2>5 DEF MappedInv
<1>5. PointerValid'
  BY <1>1, <1>2 DEF PointerValid
<1>6. LockCounted'
  <2>1. TypeOK /\ TypeOK'
    BY NextKeeps DEF Next, IInv
  <2>2. pc[t] \notin Locked /\ pc'[t] \notin Locked
    BY <1>1, <1>2 DEF Locked
  <2> QED BY <1>1, <1>2, <2>1, <2>2, LockSteps
<1> QED BY <1>4, <1>5, <1>6

LEMMA LeaveHolds == Spec => []LeaveInv
<1>1. Init => LeaveInv
  <2> SUFFICES ASSUME Init PROVE LeaveInv OBVIOUS
  <2>1. MappedInv
    BY PointerAssumption DEF Init, MappedInv
  <2>2. PointerValid
    BY DEF Init, PointerValid
  <2>3. \A t \in Threads : KeptBy(t) = {} /\ pc[t] \notin Locked /\ owner # t
    BY NoOneAssumption DEF Init, KeptBy, Locked
  <2> QED BY <2>1, <2>2, <2>3 DEF LeaveInv, LockCounted
<1>2. IInv /\ LeaveInv /\ [Next]_vars => LeaveInv'
  <2> SUFFICES ASSUME IInv, LeaveInv, [Next]_vars PROVE LeaveInv' OBVIOUS
  <2>1. CASE UNCHANGED <<base, pc, arg, out, owner, depth, met, late>>
    <3>1. \A t \in Threads : KeptBy(t)' = KeptBy(t)
      BY <2>1 DEF KeptBy
    <3>2. \A t \in Threads : Cardinality(KeptBy(t))' = Cardinality(KeptBy(t))
      BY <3>1
    <3>3. LockCounted'
      BY <2>1, <3>1, <3>2 DEF LeaveInv, LockCounted
    <3>4. \A b \in Bars : Undoing(b) => Undoing(b)'
      BY <2>1 DEF Undoing
    <3>5. MappedInv' /\ PointerValid'
      BY <2>1, <3>4 DEF LeaveInv, MappedInv, PointerValid
    <3> QED BY <3>3, <3>5 DEF LeaveInv
  <2>2. \/ UNCHANGED <<base, pc, arg, out, owner, depth, met, late>>
        \/ \E t \in Threads : Step(t) \/ \E b \in Bars : Call(t, b)
    BY DEF Next, ConfigAccess, Probe, ProbeStep, ProbeFails, Unbind, vars, others, histVars, lockVars
  <2> QED BY <2>1, <2>2, StepLeaves, CallLeaves
<1> QED BY <1>1, <1>2, Inductive, PTL DEF Spec

\* However many drivers race for the first call of a BAR and whatever fails in
\* it, a success comes with a pointer to the BAR, but for a first test that
\* falls between another thread's failed mmap() and its clearing of base[bar].
THEOREM ValidPointer == Spec => []PointerValid
<1>1. LeaveInv => PointerValid
  BY DEF LeaveInv
<1> QED BY <1>1, LeaveHolds, PTL

\* On every path of devPCIToLocalAddr() devLock is given back, except by the
\* loser of a race for the first call, who keeps it once for each race lost.
THEOREM LocksAddUp == Spec => []LockCounted
<1>1. LeaveInv => LockCounted
  BY DEF LeaveInv
<1> QED BY <1>1, LeaveHolds, PTL
=============================================================================
