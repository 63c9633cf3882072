---------------------------- MODULE LinuxBusProofs ----------------------------
(***************************************************************************)
(* For any number of threads, drivers, devices and calls: the library is   *)
(* initialised once and entered only when it is ready, the locks of the    *)
(* list and of its devices are held exactly where the code says, the list  *)
(* is in the order of the bus, and searches end with the device asked for. *)
(***************************************************************************)
EXTENDS LinuxBus, FiniteSetTheorems, TLAPS

\* What the checks in front of the driver table answer.
LEMMA RefusalKnown ==
  ASSUME NEW d, NEW r
  PROVE  Refusal(d, r) \in {"ok"} \cup Errors
BY DEF Refusal, CheckCfgAccess, CheckSwitch, Errors

\* The records a list may hold depend on the directory alone.
LEMMA SameRecords ==
  ASSUME UNCHANGED sysfs
  PROVE  ListRecords' = ListRecords
BY DEF ListRecords, ReadId, ReadSysfs, ReadBars, Region, NoRegion

\* A new record is one of a device directory.
LEMMA RecordType ==
  ASSUME NEW e \in DOMAIN sysfs
  PROVE  Record(e) \in ListRecords
<1>1. Record(e) \in [entry : {e}, addr : {sysfs[e].addr}, id : {ReadId(e)}, bar : {ReadBars(e)},
                     slot : {NoSlot} \cup {Slots[s].label : s \in DOMAIN Slots}]
  BY DEF Record
<1> QED BY <1>1 DEF ListRecords

\* It goes to one of the ends of the list.
LEMMA InsertType ==
  ASSUME NEW list \in Seq(ListRecords), NEW host, NEW r \in ListRecords
  PROVE  /\ Insert(list, host, r) \in Seq(ListRecords)
         /\ DOMAIN list \subseteq DOMAIN Insert(list, host, r)
<1>1. Append(list, r) \in Seq(ListRecords) /\ DOMAIN list \subseteq DOMAIN Append(list, r)
  OBVIOUS
<1>2. <<r>> \o list \in Seq(ListRecords) /\ DOMAIN list \subseteq DOMAIN (<<r>> \o list)
  <2>1. <<r>> \in Seq(ListRecords) /\ Len(<<r>>) = 1
    OBVIOUS
  <2>2. <<r>> \o list \in Seq(ListRecords) /\ Len(<<r>> \o list) = 1 + Len(list)
    BY <2>1
  <2> QED BY <2>2
<1> QED BY <1>1, <1>2 DEF Insert

\* A label keeps a record a record.
LEMMA LabelType ==
  ASSUME NEW r \in ListRecords, NEW s \in DOMAIN Slots
  PROVE  [r EXCEPT !.slot = Slots[s].label] \in ListRecords
<1>1. PICK e \in DOMAIN sysfs :
        r \in [entry : {e}, addr : {sysfs[e].addr}, id : {ReadId(e)}, bar : {ReadBars(e)},
               slot : {NoSlot} \cup {Slots[i].label : i \in DOMAIN Slots}]
  BY DEF ListRecords
<1>2. [r EXCEPT !.slot = Slots[s].label]
        \in [entry : {e}, addr : {sysfs[e].addr}, id : {ReadId(e)}, bar : {ReadBars(e)},
             slot : {NoSlot} \cup {Slots[i].label : i \in DOMAIN Slots}]
  BY <1>1
<1> QED BY <1>2 DEF ListRecords

-----------------------------------------------------------------------------
\* The first state: no driver, no list, nobody in a call.
LEMMA InitHolds == Init => LockInv
<1> SUFFICES ASSUME Init PROVE LockInv OBVIOUS
<1>1. TypeOK
  <2>1. host_is_first \in BOOLEAN
    BY DEF Init
  <2> QED BY <2>1, NoOneAssumption, MaxCallsAssumption DEF Init, LibInit, TypeOK, Points
<1>2. InitInv
  BY DEF Init, LibInit, InitInv, Initialising, Inside, Ready
<1>3. CallInv
  BY DEF Init, LibInit, CallInv, Walking, AtDevice, OnDevice
<1>4. LocksHeld
  BY NoOneAssumption DEF Init, LibInit, LocksHeld, HoldsItsLocks, WorksOn, KeptInv, Walking, AtDevice, OnDevice
<1> QED BY <1>1, <1>2, <1>3, <1>4 DEF LockInv

\* A thread that only moves between points at which it holds no lock.
LEMMA MovesOnly ==
  ASSUME LockInv, NEW t \in Threads, UNCHANGED <<sysfs, busVars>>,
         \A u \in Threads \ {t} : pc'[u] = pc[u],
         pc[t] \notin Walking \cup {"held", "stopped"},
         pc'[t] \notin Walking \cup {"held", "stopped"}
  PROVE  LocksHeld'
BY DEF LockInv, LocksHeld, HoldsItsLocks, WorksOn, KeptInv, TypeOK, busVars, lockVars, listVars, walkVars, Walking, AtDevice, OnDevice, Dev, Mine

\* A thread that moves on when the initialisation is over, or does not come past it.
LEMMA ReadyMoves ==
  ASSUME InitInv, NEW t \in Threads, UNCHANGED <<pdevLibPCI, once, devPCIInit_result, found>>,
         \A u \in Threads \ {t} : pc'[u] = pc[u],
         pc'[t] \notin Initialising,
         pc'[t] \in {"enter"} \cup Inside => Ready
  PROVE  InitInv'
BY DEF InitInv, Ready

\* A thread that moves on with its call.
LEMMA CallMoves ==
  ASSUME CallInv, NEW t \in Threads, UNCHANGED <<call, found, pos, devices>>,
         \A u \in Threads \ {t} : pc'[u] = pc[u],
         pc[t] # "idle",
         pc'[t] \in {"find"} \cup Walking => call[t].op = "find",
         pc'[t] \in AtDevice => pos[t] \in DOMAIN devices,
         pc'[t] \in OnDevice => found[t] # NoDevice
  PROVE  CallInv'
BY DEF CallInv

\* Labels may go to any of the devices on a list.
LEMMA LabelledType ==
  ASSUME NEW list \in Seq(ListRecords), NEW s \in DOMAIN Slots,
         NEW labelled,
         \/ labelled = list
         \/ labelled = [i \in DOMAIN list |->
              IF InSlot(list[i], Slots[s]) /\ list[i].slot = NoSlot
              THEN [list[i] EXCEPT !.slot = Slots[s].label] ELSE list[i]]
  PROVE  labelled \in Seq(ListRecords) /\ DOMAIN list \subseteq DOMAIN labelled
<1>1. CASE labelled = list
  BY <1>1
<1>2. CASE labelled = [i \in DOMAIN list |->
             IF InSlot(list[i], Slots[s]) /\ list[i].slot = NoSlot
             THEN [list[i] EXCEPT !.slot = Slots[s].label] ELSE list[i]]
  <2>1. DOMAIN list = 1 .. Len(list) /\ Len(list) \in Nat
    OBVIOUS
  <2>2. \A i \in DOMAIN list : list[i] \in ListRecords
    OBVIOUS
  <2>3. \A i \in DOMAIN list : [list[i] EXCEPT !.slot = Slots[s].label] \in ListRecords
    BY <2>2, LabelType
  <2>4. \A i \in DOMAIN list :
           (IF InSlot(list[i], Slots[s]) /\ list[i].slot = NoSlot
            THEN [list[i] EXCEPT !.slot = Slots[s].label] ELSE list[i]) \in ListRecords
    BY <2>2, <2>3, Zenon
  <2>5. labelled \in [DOMAIN list -> ListRecords]
    BY <1>2, <2>4, Zenon
  <2>6. labelled \in [1 .. Len(list) -> ListRecords]
    BY <2>1, <2>5
  <2> QED BY <2>1, <2>6
<1> QED BY <1>1, <1>2

\* The library's own steps.
LEMMA LibraryKeeps ==
  ASSUME LockInv, NEW t \in Threads, UNCHANGED <<sysfs, busVars>>,
         Select(t) \/ StartInit(t) \/ PastInit(t) \/ SelectDriver(t) \/ Return(t)
  PROVE  LockInv'
<1> USE SameRecords DEF LockInv, busVars, listVars, lockVars, walkVars
<1>1. CASE Select(t)
  <2> USE <1>1 DEF Select, RegisterDriver, Use, initVars, threadVars
  <2>1. TypeOK'
    BY DEF TypeOK
  <2>2. InitInv'
    BY NoDriverAssumption DEF TypeOK, InitInv, Ready
  <2>3. CallInv' /\ LocksHeld'
    BY DEF CallInv, LocksHeld, HoldsItsLocks, WorksOn, KeptInv, Dev, Mine
  <2> QED BY <2>1, <2>2, <2>3
<1>2. CASE StartInit(t)
  <2> USE <1>2 DEF StartInit, Goto, regVars
  <2>1. TypeOK'
    BY DEF TypeOK, Points, Initialising, Inside
  <2>2. InitInv'
    BY DEF TypeOK, InitInv, Ready, Initialising, Inside
  <2>3. CallInv'
    BY DEF TypeOK, CallInv, Walking, AtDevice, OnDevice
  <2>4. LocksHeld'
    BY MovesOnly DEF TypeOK, Walking, AtDevice, OnDevice
  <2> QED BY <2>1, <2>2, <2>3, <2>4
<1>3. CASE PastInit(t)
  <2> USE <1>3 DEF PastInit, Answer, Goto, regVars, initVars
  <2>1. TypeOK'
    BY DEF TypeOK, InitInv, Points, Initialising, Inside
  <2>2. /\ pc[t] \in {"once"} /\ pc'[t] \in {"enter", "return"}
        /\ pc'[t] = "enter" => once = "done" /\ devPCIInit_result = "ok"
        /\ \A u \in Threads \ {t} : pc'[u] = pc[u]
        /\ UNCHANGED <<pdevLibPCI, once, devPCIInit_result, found, call, pos, devices>>
    BY DEF TypeOK
  <2>5. InitInv'
    <3>1. pc'[t] \in {"enter"} \cup Inside => Ready
      BY <2>2 DEF InitInv, Ready, Inside
    <3>2. pc'[t] \notin Initialising
      BY <2>2 DEF Initialising
    <3> HIDE <1>3 DEF PastInit, Answer, Goto
    <3> QED BY <2>2, <3>1, <3>2, ReadyMoves
  <2>3. CallInv'
    <3>1. pc'[t] \notin Walking /\ (pc'[t] = "find" => call[t].op = "find")
      BY <2>2 DEF Walking, AtDevice
    <3>2. pc'[t] \in OnDevice => found[t] # NoDevice
      BY <2>2 DEF CallInv, OnDevice
    <3> HIDE <1>3 DEF PastInit, Answer, Goto
    <3> QED BY <2>2, <3>1, <3>2, CallMoves DEF Walking
  <2>4. LocksHeld'
    BY MovesOnly DEF TypeOK, Walking, AtDevice, OnDevice
  <2> QED BY <2>1, <2>3, <2>4, <2>5
<1>4. CASE SelectDriver(t)
  <2> USE <1>4 DEF SelectDriver, InitEnds, Goto, initVars
  <2>1. TypeOK'
    <3>1. pc' \in [Threads -> Points] /\ ret' = ret
      BY DEF TypeOK, Points, Initialising
    <3>2. /\ once' \in {"no", "running", "done"} /\ devPCIInit_result' \in {"unset", "ok"} \cup Errors
          /\ pciDrivers' \subseteq Drivers /\ pdevLibPCI' \in Drivers \cup {NoDriver}
      BY DEF TypeOK, Errors
    <3> QED BY <3>1, <3>2 DEF TypeOK
  <2>2. InitInv'
    <3>1. /\ once = "running" /\ found' = found
          /\ \A u \in Threads \ {t} : pc'[u] = pc[u] /\ pc[u] \notin Initialising
      BY DEF TypeOK, InitInv, Initialising
    <3>2. \A u \in Threads : pc[u] \notin {"enter"} \cup Inside /\ found[u] = NoDevice
      BY <3>1 DEF InitInv, Ready
    <3>3. CASE once' = "done" /\ devPCIInit_result' = "S_dev_internal" /\ pc'[t] = "once"
      BY <3>1, <3>2, <3>3 DEF InitInv, Initialising, Inside
    <3>4. CASE pc'[t] = "init" /\ UNCHANGED <<once, devPCIInit_result>> /\ pdevLibPCI' # NoDriver
      BY <3>1, <3>2, <3>4 DEF InitInv, Initialising, Inside
    <3>5. \/ once' = "done" /\ devPCIInit_result' = "S_dev_internal" /\ pc'[t] = "once"
          \/ pc'[t] = "init" /\ UNCHANGED <<once, devPCIInit_result>> /\ pdevLibPCI' # NoDriver
      BY NoDriverAssumption DEF TypeOK
    <3> QED BY <3>3, <3>4, <3>5
  <2>3. CallInv'
    BY DEF TypeOK, CallInv, Walking, AtDevice, OnDevice
  <2>4. LocksHeld'
    BY MovesOnly DEF TypeOK, Walking, AtDevice, OnDevice
  <2> QED BY <2>1, <2>2, <2>3, <2>4
<1>5. CASE Return(t)
  <2> USE <1>5 DEF Return, Goto, regVars, initVars
  <2>1. TypeOK'
    BY DEF TypeOK, Points, Initialising, Inside
  <2>2. InitInv'
    BY DEF TypeOK, InitInv, Ready, Initialising, Inside
  <2>3. CallInv'
    BY DEF TypeOK, CallInv, Walking, AtDevice, OnDevice
  <2>4. LocksHeld'
    BY MovesOnly DEF TypeOK, Walking, AtDevice, OnDevice
  <2> QED BY <2>1, <2>2, <2>3, <2>4
<1> QED BY <1>1, <1>2, <1>3, <1>4, <1>5

\* A thread calls: it has the device it asks for.
LEMMA RequestKeeps ==
  ASSUME LockInv, NEW t \in Threads, UNCHANGED sysfs, Request(t)
  PROVE  LockInv'
<1> USE SameRecords DEF LockInv
<1>1. PICK r \in Requests[t] : (r.op = "find" \/ found[t] # NoDevice) /\ Call(t, r) /\ UNCHANGED busVars
  BY DEF Request
<1> USE <1>1 DEF Call, Answer, Goto, regVars, initVars
<1>2. TypeOK'
  <2>1. pc' \in [Threads -> Points] /\ ret' \in [Threads -> {"ok"} \cup Errors]
    BY DEF TypeOK, Points, Errors
  <2>2. call' \in [Threads -> Asked \cup {NoCall}]
    <3>1. r \in Asked
      BY DEF Asked
    <3> QED BY <3>1 DEF TypeOK
  <2>3. left' \in [Threads -> Nat]
    BY DEF TypeOK
  <2> QED BY <2>1, <2>2, <2>3 DEF TypeOK, busVars, listVars, lockVars, walkVars
<1>3. InitInv'
  <2>1. pc \in [Threads -> Points]
    BY DEF TypeOK
  <2> QED BY <2>1 DEF InitInv, Ready, Initialising, Inside, busVars
<1>4. CallInv'
  <2>1. /\ pc'[t] \in {"return", "enter", "once"} /\ call'[t] = r
        /\ \A u \in Threads \ {t} : pc'[u] = pc[u] /\ call'[u] = call[u]
        /\ UNCHANGED <<found, pos, devices>>
    BY DEF TypeOK, busVars, walkVars, listVars
  <2>2. r.op = "find" \/ found[t] # NoDevice
    OBVIOUS
  <2>3. pc'[t] \notin {"find"} \cup Walking \cup OnDevice
    BY <2>1 DEF Walking, AtDevice, OnDevice
  <2> HIDE <1>1 DEF Call, Answer, Goto
  <2> QED BY <2>1, <2>2, <2>3 DEF CallInv, Walking
<1>5. LocksHeld'
  BY MovesOnly DEF TypeOK, Walking, AtDevice, OnDevice
<1> QED BY <1>2, <1>3, <1>4, <1>5

-----------------------------------------------------------------------------
\* While a thread initialises, nobody is in a driver or has found a device.
LEMMA NobodyInside ==
  ASSUME LockInv, NEW t \in Threads, pc[t] \in Initialising
  PROVE  /\ \A u \in Threads : pc[u] \notin {"enter"} \cup Inside /\ found[u] = NoDevice
         /\ once = "running"
         /\ \A u \in Threads \ {t} : pc[u] \notin Initialising
BY DEF LockInv, InitInv, Ready

\* So the locks are free, whatever happens to the list and to pciLock.
LEMMA InitLocks ==
  ASSUME LockInv, NEW t \in Threads, pc[t] \in Initialising, UNCHANGED <<sysfs, pciOwner, devOwner, mapped, kept>>,
         \A u \in Threads \ {t} : pc'[u] = pc[u],
         pc'[t] \in Initialising \cup {"once"}
  PROVE  LocksHeld'
BY NobodyInside DEF LockInv, LocksHeld, HoldsItsLocks, WorksOn, KeptInv, Initialising, Inside, Walking, AtDevice, OnDevice

\* linuxDevPCIInit(), step by step.
LEMMA DevInitKeeps ==
  ASSUME LockInv, NEW t \in Threads, UNCHANGED sysfs, DevInit(t)
  PROVE  LockInv'
<1> USE SameRecords, NobodyInside DEF LockInv, regVars, initVars, walkVars, Goto
<1>1. CASE InitOpen(t)
  <2> USE <1>1 DEF InitOpen, listVars
  <2>1. TypeOK'
    BY DEF TypeOK, Points, Initialising, Inside
  <2>2. InitInv'
    BY DEF TypeOK, InitInv, Ready, Initialising, Inside
  <2>3. CallInv'
    BY DEF TypeOK, CallInv, Initialising, Inside, Walking, AtDevice, OnDevice
  <2>4. LocksHeld'
    BY InitLocks DEF TypeOK, Initialising
  <2> QED BY <2>1, <2>2, <2>3, <2>4
<1>2. CASE InitOther(t)
  <2> USE <1>2 DEF InitOther, InitEnds, busVars, listVars, lockVars
  <2>1. TypeOK'
    BY DEF TypeOK, Points, Errors, Initialising, Inside
  <2>2. InitInv'
    BY DEF TypeOK, InitInv, Ready, Initialising, Inside
  <2>3. CallInv'
    BY DEF TypeOK, CallInv, Initialising, Inside, Walking, AtDevice, OnDevice
  <2>4. LocksHeld'
    BY InitLocks DEF TypeOK, Initialising
  <2> QED BY <2>1, <2>2, <2>3, <2>4
<1>6. CASE InitFail(t)
  <2> USE <1>6 DEF InitFail, InitEnds, listVars
  <2>1. TypeOK'
    BY DEF TypeOK, Points, Errors, Initialising, Inside
  <2>2. InitInv'
    BY DEF TypeOK, InitInv, Ready, Initialising, Inside
  <2>3. CallInv'
    BY DEF TypeOK, CallInv, Initialising, Inside, Walking, AtDevice, OnDevice
  <2>4. LocksHeld'
    BY InitLocks DEF TypeOK, Initialising
  <2> QED BY <2>1, <2>2, <2>3, <2>4
<1>7. CASE InitDone(t)
  <2> USE <1>7 DEF InitDone, InitEnds, busVars, listVars, lockVars
  <2>1. TypeOK'
    BY DEF TypeOK, Points, Errors, Initialising, Inside
  <2>2. InitInv'
    BY DEF TypeOK, InitInv, Ready, Initialising, Inside
  <2>3. CallInv'
    BY DEF TypeOK, CallInv, Initialising, Inside, Walking, AtDevice, OnDevice
  <2>4. LocksHeld'
    BY InitLocks DEF TypeOK, Initialising
  <2> QED BY <2>1, <2>2, <2>3, <2>4
<1>3. CASE ScanEntry(t)
  <2> USE <1>3 DEF ScanEntry, threadVars, lockVars
  <2>1. devices' \in Seq(ListRecords) /\ DOMAIN devices \subseteq DOMAIN devices'
    BY InsertType, RecordType DEF TypeOK
  <2>2. TypeOK'
    <3>1. host_is_first' \in BOOLEAN
      BY DEF TypeOK, IsHost
    <3>2. leaked' \subseteq DOMAIN sysfs
      BY DEF TypeOK
    <3> QED BY <2>1, <3>1, <3>2 DEF TypeOK
  <2>3. InitInv'
    BY DEF TypeOK, InitInv, Ready
  <2>4. CallInv'
    BY <2>1 DEF TypeOK, CallInv
  <2>5. LocksHeld'
    BY InitLocks DEF TypeOK, Initialising
  <2> QED BY <2>2, <2>3, <2>4, <2>5
<1>4. CASE ScanDone(t)
  <2> USE <1>4 DEF ScanDone, InitEnds, lockVars
  <2>1. TypeOK'
    <3>1. pc' \in [Threads -> Points] /\ ret' = ret
      BY DEF TypeOK, Points, Initialising
    <3>2. once' \in {"no", "running", "done"} /\ devPCIInit_result' \in {"unset", "ok"} \cup Errors
      BY DEF TypeOK
    <3> QED BY <3>1, <3>2 DEF TypeOK
  <2>2. InitInv'
    <3>1. pc \in [Threads -> Points]
      BY DEF TypeOK
    <3> QED BY <3>1 DEF InitInv, Ready, Initialising, Inside
  <2>3. CallInv'
    <3>1. /\ pc[t] = "scan" /\ pc'[t] \in {"slots", "once"}
          /\ \A u \in Threads \ {t} : pc'[u] = pc[u]
          /\ UNCHANGED <<found, call, pos, devices>>
      BY DEF TypeOK
    <3>2. pc'[t] \notin {"find"} \cup Walking \cup OnDevice
      BY <3>1 DEF Walking, AtDevice, OnDevice
    <3> HIDE <1>4 DEF ScanDone, InitEnds, Goto
    <3> QED BY <3>1, <3>2, CallMoves DEF Walking
  <2>4. LocksHeld'
    BY InitLocks DEF TypeOK, Initialising
  <2> QED BY <2>1, <2>2, <2>3, <2>4
<1>5. CASE ScanSlot(t)
  <2> USE <1>5 DEF ScanSlot, threadVars, lockVars
  <2>1. devices' \in Seq(ListRecords) /\ DOMAIN devices \subseteq DOMAIN devices'
    BY LabelledType DEF TypeOK
  <2>2. TypeOK'
    BY <2>1 DEF TypeOK, Points, Initialising, Inside
  <2>3. InitInv'
    BY DEF TypeOK, InitInv, Ready
  <2>4. CallInv'
    BY <2>1 DEF TypeOK, CallInv
  <2>5. LocksHeld'
    BY InitLocks DEF TypeOK, Initialising
  <2> QED BY <2>2, <2>3, <2>4, <2>5
<1> QED BY <1>1, <1>2, <1>3, <1>4, <1>5, <1>6, <1>7 DEF DevInit

-----------------------------------------------------------------------------
\* A device on the list has a directory, and thereby a devLock.
LEMMA EntryType ==
  ASSUME TypeOK, NEW i \in DOMAIN devices
  PROVE  devices[i].entry \in DOMAIN sysfs
<1>1. devices[i] \in ListRecords
  BY DEF TypeOK
<1> QED BY <1>1 DEF ListRecords

\* A step that takes free locks and releases those of its thread leaves the
\* locks of the other threads alone.
LEMMA OthersKeep ==
  ASSUME LockInv, NEW t \in Threads, UNCHANGED <<sysfs, devices, pciLock>>,
         \A u \in Threads \ {t} : pc'[u] = pc[u] /\ pos'[u] = pos[u] /\ found'[u] = found[u],
         pciOwner' = pciOwner \/ {pciOwner, pciOwner'} \subseteq {NoOne, t},
         \A e \in DOMAIN sysfs :
           devOwner'[e] = devOwner[e] \/ {devOwner[e], devOwner'[e]} \subseteq {NoOne, t},
         kept \subseteq kept', HoldsItsLocks(t)', KeptInv'
  PROVE  LocksHeld'
<1> SUFFICES ASSUME NEW u \in Threads, u # t PROVE HoldsItsLocks(u)'
  BY DEF LocksHeld
<1>1. HoldsItsLocks(u)
  BY DEF LockInv, LocksHeld
<1> QED BY <1>1, NoOneAssumption DEF HoldsItsLocks, WorksOn, Dev, Mine

\* A kept lock stays with its owner, whoever locks and unlocks.
LEMMA KeptStays ==
  ASSUME LockInv, NEW t \in Threads, UNCHANGED <<sysfs, mapped, kept>>,
         \/ UNCHANGED devOwner
         \/ \E e \in DOMAIN sysfs : Unlock(e) \/ devOwner' = [devOwner EXCEPT ![e] = t]
  PROVE  KeptInv'
<1>1. /\ KeptInv /\ devOwner \in [DOMAIN sysfs -> Threads \cup {NoOne}]
      /\ kept \subseteq DOMAIN sysfs
  BY DEF LockInv, LocksHeld, TypeOK
<1>2. SUFFICES ASSUME NEW d \in kept PROVE devOwner'[d] # NoOne
  BY <1>1 DEF KeptInv
<1>3. devOwner[d] # NoOne /\ d \in DOMAIN devOwner
  BY <1>1 DEF KeptInv
<1> QED BY <1>1, <1>3, NoOneAssumption DEF Unlock

\* Unlocking touches the lock of one device.
LEMMA UnlockType ==
  ASSUME LockInv, NEW t \in Threads, NEW e \in DOMAIN sysfs, devOwner[e] = t, Unlock(e)
  PROVE  /\ devOwner' \in [DOMAIN sysfs -> Threads \cup {NoOne}]
         /\ devOwner'[e] = IF e \in kept THEN t ELSE NoOne
         /\ \A d \in DOMAIN sysfs \ {e} : devOwner'[d] = devOwner[d]
         /\ \A d \in DOMAIN sysfs :
              devOwner'[d] = devOwner[d] \/ {devOwner[d], devOwner'[d]} \subseteq {NoOne, t}
BY DEF LockInv, TypeOK, Unlock

\* A thread that stops working on a device owns its lock no longer, unless a
\* call has kept it.
LEMMA Released ==
  ASSUME LockInv, NEW t \in Threads, NEW e \in DOMAIN sysfs, WorksOn(t, e), Unlock(e),
         UNCHANGED sysfs, kept \subseteq kept',
         \A d \in DOMAIN sysfs \ {e} : ~WorksOn(t, d),
         \A d \in DOMAIN sysfs : ~WorksOn(t, d)'
  PROVE  \A d \in DOMAIN sysfs : /\ WorksOn(t, d)' => devOwner'[d] = t
                                 /\ devOwner'[d] = t => WorksOn(t, d)' \/ d \in kept'
<1>1. \A d \in DOMAIN sysfs : /\ WorksOn(t, d) => devOwner[d] = t
                              /\ devOwner[d] = t => WorksOn(t, d) \/ d \in kept
  BY DEF LockInv, LocksHeld, HoldsItsLocks
<1>2. t # NoOne
  BY NoOneAssumption
<1> HIDE DEF WorksOn
<1> QED BY <1>1, <1>2, UnlockType

\* Into the driver, and the search of a driver without devices.
LEMMA EnterKeeps ==
  ASSUME LockInv, NEW t \in Threads, UNCHANGED sysfs, Enter(t) \/ OtherFind(t)
  PROVE  LockInv'
<1> USE SameRecords DEF LockInv, Answer, Goto, regVars, initVars
<1>1. CASE Enter(t)
  <2> USE <1>1 DEF Enter
  <2>1. TypeOK'
    <3>1. pc' \in [Threads -> Points]
      BY DEF TypeOK, Points, Inside
    <3>2. ret' \in [Threads -> {"ok"} \cup Errors]
      <4>1. Refusal(pdevLibPCI, call[t]) \in {"ok"} \cup Errors
        BY RefusalKnown
      <4> QED BY <4>1 DEF TypeOK
    <3> QED BY <3>1, <3>2 DEF TypeOK, busVars, listVars, lockVars, walkVars
  <2>2. /\ pc[t] \in {"enter"} /\ pc'[t] \in {"return", "other", "find", "base", "device"}
        /\ pc'[t] = "find" => call[t].op = "find"
        /\ pc'[t] \in {"base", "device"} => call[t].op # "find"
        /\ \A u \in Threads \ {t} : pc'[u] = pc[u]
        /\ UNCHANGED <<pdevLibPCI, once, devPCIInit_result, found, call, pos, devices>>
    BY DEF TypeOK, busVars, listVars, walkVars
  <2>5. InitInv'
    <3>1. pc'[t] \in {"enter"} \cup Inside => Ready
      BY <2>2 DEF InitInv, Ready, Inside
    <3>2. pc'[t] \notin Initialising
      BY <2>2 DEF Initialising
    <3> HIDE <1>1 DEF Enter, Answer, Goto
    <3> QED BY <2>2, <3>1, <3>2, ReadyMoves
  <2>3. CallInv'
    <3>1. pc'[t] \notin Walking /\ (pc'[t] = "find" => call[t].op = "find")
      BY <2>2 DEF Walking, AtDevice
    <3>2. pc'[t] \in OnDevice => found[t] # NoDevice
      BY <2>2 DEF CallInv, OnDevice
    <3> HIDE <1>1 DEF Enter, Answer, Goto
    <3> QED BY <2>2, <3>1, <3>2, CallMoves DEF Walking
  <2>4. LocksHeld'
    <3>1. /\ pc[t] \notin Walking \cup {"held", "stopped"}
          /\ pc'[t] \notin Walking \cup {"held", "stopped"}
      BY <2>2 DEF Walking, AtDevice
    <3>2. UNCHANGED busVars
      OBVIOUS
    <3> HIDE <1>1 DEF Enter, Answer, Goto
    <3> QED BY <2>2, <3>1, <3>2, MovesOnly DEF LockInv
  <2> QED BY <2>1, <2>3, <2>4, <2>5
<1>2. CASE OtherFind(t)
  <2> USE <1>2 DEF OtherFind
  <2>1. TypeOK'
    <3>1. pc' \in [Threads -> Points] /\ ret' \in [Threads -> {"ok"} \cup Errors]
      BY DEF TypeOK, Points, Errors
    <3> QED BY <3>1 DEF TypeOK, busVars, listVars, lockVars, walkVars
  <2>2. /\ pc[t] \in {"other"} /\ pc'[t] \in {"return"}
        /\ \A u \in Threads \ {t} : pc'[u] = pc[u]
        /\ UNCHANGED <<pdevLibPCI, once, devPCIInit_result, found, call, pos, devices>>
    BY DEF TypeOK, busVars, listVars, walkVars
  <2>5. InitInv'
    <3>1. pc'[t] \in {"enter"} \cup Inside => Ready
      BY <2>2 DEF InitInv, Ready, Inside
    <3>2. pc'[t] \notin Initialising
      BY <2>2 DEF Initialising
    <3> HIDE <1>2 DEF OtherFind, Answer, Goto
    <3> QED BY <2>2, <3>1, <3>2, ReadyMoves
  <2>3. CallInv'
    <3>1. pc'[t] \notin Walking /\ (pc'[t] = "find" => call[t].op = "find")
      BY <2>2 DEF Walking, AtDevice
    <3>2. pc'[t] \in OnDevice => found[t] # NoDevice
      BY <2>2 DEF CallInv, OnDevice
    <3> HIDE <1>2 DEF OtherFind, Answer, Goto
    <3> QED BY <2>2, <3>1, <3>2, CallMoves DEF Walking
  <2>4. LocksHeld'
    BY MovesOnly DEF TypeOK, Walking, AtDevice, OnDevice
  <2> QED BY <2>1, <2>3, <2>4, <2>5
<1> QED BY <1>1, <1>2

\* From taking pciLock to the next device.
LEMMA WalkKeeps ==
  ASSUME LockInv, NEW t \in Threads, UNCHANGED sysfs,
         FindStart(t) \/ Visit(t) \/ VisitDone(t) \/ MatchNot(t)
  PROVE  LockInv'
<1> USE SameRecords DEF LockInv, Answer, Goto, regVars, initVars, listVars, Free
<1>0. HoldsItsLocks(t)
  BY DEF LocksHeld
<1>1. CASE FindStart(t)
  <2> USE <1>1 DEF FindStart
  <2>1. TypeOK'
    BY DEF TypeOK, Points, Walking, Inside
  <2>2. InitInv'
    BY DEF TypeOK, InitInv, Ready, Initialising, Inside
  <2>3. CallInv'
    BY DEF TypeOK, CallInv, Walking, AtDevice, OnDevice
  <2>4. HoldsItsLocks(t)'
    BY <1>0, NoOneAssumption DEF TypeOK, HoldsItsLocks, WorksOn, Walking, AtDevice, OnDevice
  <2>5. LocksHeld'
    BY <2>4, OthersKeep, KeptStays DEF TypeOK
  <2> QED BY <2>1, <2>2, <2>3, <2>5
<1>2. CASE Visit(t)
  <2> USE <1>2 DEF Visit
  <2>0. Dev(t).entry \in DOMAIN sysfs
    BY EntryType DEF Dev
  <2>1. TypeOK'
    BY <2>0 DEF TypeOK, Points, Inside
  <2>2. InitInv'
    BY DEF TypeOK, InitInv, Ready, Initialising, Inside
  <2>3. CallInv'
    BY DEF TypeOK, CallInv, Walking, AtDevice, OnDevice
  <2>4. HoldsItsLocks(t)'
    BY <1>0, <2>0, NoOneAssumption DEF TypeOK, HoldsItsLocks, WorksOn, Walking, AtDevice, OnDevice, Dev
  <2>5. LocksHeld'
    BY <2>0, <2>4, OthersKeep, KeptStays DEF TypeOK
  <2> QED BY <2>1, <2>2, <2>3, <2>5
<1>3. CASE VisitDone(t)
  <2> USE <1>3 DEF VisitDone, Forget
  <2>1. TypeOK'
    BY DEF TypeOK, Points, Errors
  <2>2. InitInv'
    BY DEF TypeOK, InitInv, Ready, Initialising, Inside
  <2>3. CallInv'
    BY DEF TypeOK, CallInv, Walking, AtDevice, OnDevice
  <2>4. HoldsItsLocks(t)'
    BY <1>0, NoOneAssumption DEF TypeOK, HoldsItsLocks, WorksOn, Walking, AtDevice, OnDevice
  <2>5. pciOwner = t /\ pciLock = "live"
    BY <1>0 DEF HoldsItsLocks, WorksOn, Walking
  <2>6. LocksHeld'
    BY <2>4, <2>5, OthersKeep, KeptStays DEF TypeOK
  <2> QED BY <2>1, <2>2, <2>3, <2>6
<1>4. CASE MatchNot(t)
  <2> USE <1>4 DEF MatchNot
  <2>0. Dev(t).entry \in DOMAIN sysfs /\ devOwner[Dev(t).entry] = t
    BY <1>0, EntryType DEF Dev, HoldsItsLocks, WorksOn, CallInv, AtDevice
  <2>1. CASE item[t] \in DOMAIN call[t].ids
    <3> USE <2>1
    <3>0. item' \in [Threads -> Nat]
      <4>1. item \in [Threads -> Nat]
        BY DEF TypeOK
      <4> QED BY <4>1
    <3>4. TypeOK'
      BY <3>0 DEF TypeOK
    <3>1. TypeOK' /\ InitInv' /\ CallInv'
      BY <3>4 DEF InitInv, Ready, CallInv
    <3>2. HoldsItsLocks(t)'
      BY <1>0 DEF HoldsItsLocks, WorksOn, Dev, Mine
    <3>3. LocksHeld'
      BY <3>2, OthersKeep, KeptStays
    <3> QED BY <3>1, <3>3
  <2>2. CASE item[t] \notin DOMAIN call[t].ids
    <3> USE <2>2
    <3>1. TypeOK'
      <4>1. pc' = [pc EXCEPT ![t] = "visit"] /\ pos' = [pos EXCEPT ![t] = @ + 1]
        OBVIOUS
      <4>2. pc \in [Threads -> Points] /\ pos \in [Threads -> Nat] /\ "visit" \in Points
        BY DEF TypeOK, Points, Inside
      <4>3. pc' \in [Threads -> Points] /\ pos' \in [Threads -> Nat]
        BY <4>1, <4>2
      <4>4. devOwner' \in [DOMAIN sysfs -> Threads \cup {NoOne}]
        BY <2>0, UnlockType
      <4> QED BY <4>3, <4>4 DEF TypeOK
    <3>2. InitInv'
      <4>1. pc'[t] = "visit" /\ \A u \in Threads \ {t} : pc'[u] = pc[u]
        BY DEF TypeOK
      <4>2. pc'[t] \notin Initialising /\ Ready
        BY <4>1 DEF InitInv, Initialising, Inside
      <4> QED BY <4>1, <4>2, ReadyMoves
    <3>3. CallInv'
      BY DEF TypeOK, CallInv, Walking, AtDevice, OnDevice
    <3>4. HoldsItsLocks(t)'
      <4>1. pc'[t] = "visit" /\ pc[t] = "match"
        BY DEF TypeOK
      <4>2. /\ WorksOn(t, Dev(t).entry) /\ \A d \in DOMAIN sysfs \ {Dev(t).entry} : ~WorksOn(t, d)
            /\ \A d \in DOMAIN sysfs : ~WorksOn(t, d)'
        BY <4>1 DEF WorksOn, AtDevice
      <4>3. \A d \in DOMAIN sysfs : /\ WorksOn(t, d)' => devOwner'[d] = t
                                    /\ devOwner'[d] = t => WorksOn(t, d)' \/ d \in kept'
        BY <2>0, <4>2, Released
      <4>4. pciOwner = t /\ pciLock = "live"
        BY <1>0, <4>1 DEF HoldsItsLocks, Walking, AtDevice
      <4> QED BY <4>1, <4>3, <4>4 DEF HoldsItsLocks, Walking
    <3>5. LocksHeld'
      <4>1. \A u \in Threads \ {t} : pc'[u] = pc[u] /\ pos'[u] = pos[u] /\ found'[u] = found[u]
        BY DEF TypeOK
      <4> QED BY <2>0, <3>4, <4>1, UnlockType, OthersKeep, KeptStays
    <3> QED BY <3>1, <3>2, <3>3, <3>5
  <2> QED BY <2>1, <2>2
<1> QED BY <1>1, <1>2, <1>3, <1>4

\* The callback has ended the search: both locks are released.
LEMMA StopKeeps ==
  ASSUME LockInv, NEW t \in Threads, UNCHANGED <<sysfs, regVars, initVars, call, left, listVars, pciLock, inner>>,
         pc[t] \in AtDevice,
         NEW r \in {"ok"} \cup Errors, Stop(t, r),
         \/ found' = found
         \/ found' = [found EXCEPT ![t] = pos[t]]
  PROVE  LockInv'
<1> USE SameRecords DEF LockInv, Stop, Forget, Answer, Goto, regVars, initVars, listVars
<1>0. HoldsItsLocks(t)
  BY DEF LocksHeld
<1>1. /\ Dev(t).entry \in DOMAIN sysfs /\ devOwner[Dev(t).entry] = t
      /\ pos[t] \in DOMAIN devices
  BY <1>0, EntryType DEF Dev, HoldsItsLocks, WorksOn, CallInv
<1>2. TypeOK'
  <2>1. pc' \in [Threads -> Points] /\ pos' \in [Threads -> Nat] /\ ret' \in [Threads -> {"ok"} \cup Errors]
    BY DEF TypeOK, Points
  <2>2. devOwner' \in [DOMAIN sysfs -> Threads \cup {NoOne}] /\ pciOwner' \in Threads \cup {NoOne}
    BY <1>1, UnlockType DEF TypeOK
  <2>3. found' \in [Threads -> DOMAIN devices' \cup {NoDevice}]
    BY <1>1 DEF TypeOK
  <2>4. item' \in [Threads -> Nat] /\ sofar' \in [Threads -> Nat]
    BY DEF TypeOK
  <2> QED BY <2>1, <2>2, <2>3, <2>4 DEF TypeOK
<1>3. InitInv'
  BY DEF TypeOK, InitInv, Ready, Initialising, Inside, AtDevice
<1>4. CallInv'
  BY DEF TypeOK, CallInv, Walking, AtDevice, OnDevice
<1>5. HoldsItsLocks(t)'
  <2>1. pc'[t] = "return" /\ pciOwner' = NoOne /\ t # NoOne
    BY NoOneAssumption DEF TypeOK
  <2>2. /\ WorksOn(t, Dev(t).entry) /\ \A d \in DOMAIN sysfs \ {Dev(t).entry} : ~WorksOn(t, d)
        /\ \A d \in DOMAIN sysfs : ~WorksOn(t, d)'
    BY <2>1 DEF WorksOn, AtDevice
  <2>3. \A d \in DOMAIN sysfs : /\ WorksOn(t, d)' => devOwner'[d] = t
                                /\ devOwner'[d] = t => WorksOn(t, d)' \/ d \in kept'
    BY <1>1, <2>2, Released
  <2> QED BY <2>1, <2>3 DEF HoldsItsLocks, Walking, AtDevice
<1>6. LocksHeld'
  <2>1. pciOwner = t
    BY <1>0 DEF HoldsItsLocks, WorksOn, Walking
  <2>2. \A u \in Threads \ {t} : pc'[u] = pc[u] /\ pos'[u] = pos[u] /\ found'[u] = found[u]
    BY DEF TypeOK
  <2>3. \A e \in DOMAIN sysfs :
          devOwner'[e] = devOwner[e] \/ {devOwner[e], devOwner'[e]} \subseteq {NoOne, t}
    BY <1>1, UnlockType
  <2> QED BY <1>1, <1>5, <2>1, <2>2, <2>3, OthersKeep, KeptStays
<1> QED BY <1>2, <1>3, <1>4, <1>6

\* A step of a search that stays at its device, whatever it counts.
LEMMA StaysKeeps ==
  ASSUME LockInv, NEW t \in Threads,
         UNCHANGED <<sysfs, regVars, initVars, call, ret, left, listVars, lockVars, pos, found>>,
         pc[t] \in AtDevice,
         {item', sofar', inner'} \subseteq [Threads -> Nat],
         \/ pc' = pc
         \/ \E point \in AtDevice : pc' = [pc EXCEPT ![t] = point]
  PROVE  LockInv'
<1> USE SameRecords DEF LockInv, regVars, initVars, listVars, lockVars
<1>0. /\ pc \in [Threads -> Points] /\ AtDevice \subseteq Points
      /\ \A u \in Threads \ {t} : pc'[u] = pc[u]
      /\ pc'[t] \in AtDevice
  BY DEF TypeOK, Points, Inside, AtDevice
<1>1. TypeOK'
  <2>1. pc' \in [Threads -> Points]
    BY <1>0
  <2> QED BY <2>1 DEF TypeOK
<1>2. InitInv'
  <2>1. pc'[t] \notin Initialising /\ Ready
    BY <1>0 DEF InitInv, Initialising, Inside, AtDevice
  <2> QED BY <1>0, <2>1, ReadyMoves
<1>3. CallInv'
  <2>1. pc[t] # "idle" /\ pc'[t] \notin OnDevice
    BY <1>0 DEF AtDevice, OnDevice
  <2>2. call[t].op = "find" /\ pos[t] \in DOMAIN devices
    BY DEF CallInv, Walking
  <2> QED BY <1>0, <2>1, <2>2, CallMoves
<1>4. HoldsItsLocks(t)'
  <2>1. pc'[t] \in AtDevice /\ UNCHANGED <<sysfs, devices, pciLock, pciOwner, devOwner, pos, found>>
    BY DEF TypeOK
  <2>2. HoldsItsLocks(t)
    BY DEF LocksHeld
  <2> QED BY <2>1, <2>2 DEF HoldsItsLocks, WorksOn, Walking, AtDevice, OnDevice, Dev, Mine
<1>5. LocksHeld'
  BY <1>4, OthersKeep, KeptStays DEF TypeOK
<1> QED BY <1>1, <1>2, <1>3, <1>5

\* devmatch(), the callbacks, and the searches they make.
LEMMA CallbacksKeep ==
  ASSUME LockInv, NEW t \in Threads, UNCHANGED sysfs,
         MatchWish(t) \/ MatchCall(t) \/ Callback(t) \/ CallbackSearch(t) \/ InnerVisit(t)
  PROVE  LockInv'
<1> USE DEF busVars, lockVars, walkVars, Goto, AtDevice
<1>0. {item, sofar, inner} \subseteq [Threads -> Nat]
  BY DEF LockInv, TypeOK
<1>1. CASE MatchWish(t)
  <2>1. CASE IsIt(t)
    BY <1>1, <2>1, StopKeeps DEF MatchWish
  <2>2. CASE ~IsIt(t)
    <3>1. {item', sofar', inner'} \subseteq [Threads -> Nat]
      BY <1>1, <2>2, <1>0 DEF MatchWish
    <3> QED BY <1>1, <2>2, <3>1, StaysKeeps DEF MatchWish
  <2> QED BY <2>1, <2>2
<1>2. CASE MatchCall(t)
  BY <1>0, <1>2, StaysKeeps DEF MatchCall
<1>3. CASE Callback(t)
  <2>1. CASE Goto(t, "match") /\ item' = [item EXCEPT ![t] = @ + 1] /\ UNCHANGED <<ret, pos, sofar, found, devOwner, pciOwner>>
    <3>1. {item', sofar', inner'} \subseteq [Threads -> Nat]
      <4>1. item' = [item EXCEPT ![t] = @ + 1] /\ UNCHANGED <<sofar, inner>>
        BY <1>3, <2>1 DEF Callback
      <4> QED BY <1>0, <4>1
    <3> QED BY <1>3, <2>1, <3>1, StaysKeeps DEF Callback
  <2>2. CASE Stop(t, "ok") /\ found' = [found EXCEPT ![t] = pos[t]]
    BY <1>3, <2>2, StopKeeps DEF Callback
  <2>3. CASE Stop(t, "callback_error") /\ UNCHANGED found
    BY <1>3, <2>3, StopKeeps DEF Callback, Errors
  <2> QED BY <1>3, <2>1, <2>2, <2>3 DEF Callback
<1>4. CASE CallbackSearch(t)
  <2>1. {item', sofar', inner'} \subseteq [Threads -> Nat]
    BY <1>0, <1>4 DEF CallbackSearch
  <2> QED BY <1>4, <2>1, StaysKeeps DEF CallbackSearch
<1>5. CASE InnerVisit(t)
  <2>1. {item', sofar', inner'} \subseteq [Threads -> Nat]
    BY <1>0, <1>5 DEF InnerVisit
  <2> QED BY <1>5, <2>1, StaysKeeps DEF InnerVisit
<1> QED BY <1>1, <1>2, <1>3, <1>4, <1>5

\* Calls for a device: they hold its devLock except while they wait for the
\* interrupt thread.
LEMMA DeviceKeeps ==
  ASSUME LockInv, NEW t \in Threads, UNCHANGED sysfs,
         \/ FirstTest(t) \/ DeviceLock(t) \/ MapBar(t) \/ KeepLock(t) \/ DeviceDone(t)
         \/ DisconnectWait(t) \/ DisconnectResume(t)
  PROVE  LockInv'
<1> USE SameRecords DEF LockInv, Answer, Goto, regVars, initVars, listVars, walkVars, Free
<1>0. HoldsItsLocks(t) /\ KeptInv
  BY DEF LocksHeld
<1>1. Mine(t) \in DOMAIN sysfs
  <2>1. found[t] \in DOMAIN devices
    BY DEF TypeOK, CallInv, OnDevice, FirstTest, DeviceLock, MapBar, KeepLock, DeviceDone, DisconnectWait,
           DisconnectResume
  <2> QED BY <2>1, EntryType DEF Mine
<1>2. CASE FirstTest(t)
  <2> USE <1>2 DEF FirstTest, busVars, lockVars
  <2>1. TypeOK'
    <3>1. pc' \in [Threads -> Points] /\ ret' \in [Threads -> {"ok"} \cup Errors]
      BY DEF TypeOK, Points, Inside
    <3> QED BY <3>1 DEF TypeOK
  <2>2. /\ pc[t] \in {"base"} /\ pc'[t] \in {"return", "device"}
        /\ \A u \in Threads \ {t} : pc'[u] = pc[u]
        /\ UNCHANGED <<pdevLibPCI, once, devPCIInit_result, found, call, pos, devices>>
    BY DEF TypeOK
  <2>5. InitInv'
    <3>1. pc'[t] \in {"enter"} \cup Inside => Ready
      BY <2>2 DEF InitInv, Ready, Inside
    <3>2. pc'[t] \notin Initialising
      BY <2>2 DEF Initialising
    <3> HIDE <1>2 DEF FirstTest, Answer, Goto
    <3> QED BY <2>2, <3>1, <3>2, ReadyMoves
  <2>3. CallInv'
    <3>1. pc'[t] \notin Walking /\ (pc'[t] = "find" => call[t].op = "find")
      BY <2>2 DEF Walking, AtDevice
    <3>2. pc'[t] \in OnDevice => found[t] # NoDevice
      BY <2>2 DEF CallInv, OnDevice
    <3> HIDE <1>2 DEF FirstTest, Answer, Goto
    <3> QED BY <2>2, <3>1, <3>2, CallMoves DEF Walking
  <2>4. LocksHeld'
    BY MovesOnly DEF TypeOK, Walking, AtDevice, OnDevice
  <2> QED BY <2>1, <2>3, <2>4, <2>5
<1>3. CASE DeviceLock(t) \/ DisconnectResume(t)
  <2> USE <1>3 DEF DeviceLock, DisconnectResume
  <2>1. TypeOK'
    <3>1. pc' \in [Threads -> Points]
      <4>1. pc \in [Threads -> Points] /\ {"held", "stopped"} \subseteq Points
        BY DEF TypeOK, Points, Inside
      <4>2. \E p \in Points : pc' = [pc EXCEPT ![t] = p]
        BY <4>1
      <4> QED BY <4>1, <4>2
    <3>2. devOwner' \in [DOMAIN sysfs -> Threads \cup {NoOne}]
      BY <1>1 DEF TypeOK
    <3> QED BY <3>1, <3>2 DEF TypeOK
  <2>6. /\ pc[t] \in {"device", "waiting"} /\ pc'[t] \in {"held", "stopped"}
        /\ \A u \in Threads \ {t} : pc'[u] = pc[u]
        /\ UNCHANGED <<pdevLibPCI, once, devPCIInit_result, found, call, pos, devices>>
    BY DEF TypeOK
  <2>2. InitInv'
    <3>1. pc'[t] \in {"enter"} \cup Inside => Ready
      BY <2>6 DEF InitInv, Ready, Inside
    <3>2. pc'[t] \notin Initialising
      BY <2>6 DEF Initialising
    <3> HIDE <1>3 DEF DeviceLock, DisconnectResume, Goto
    <3> QED BY <2>6, <3>1, <3>2, ReadyMoves
  <2>3. CallInv'
    <3>1. pc'[t] \notin Walking \cup {"find"}
      BY <2>6 DEF Walking, AtDevice
    <3>2. pc'[t] \in OnDevice => found[t] # NoDevice
      BY <2>6 DEF CallInv, OnDevice
    <3> HIDE <1>3 DEF DeviceLock, DisconnectResume, Goto
    <3> QED BY <2>6, <3>1, <3>2, CallMoves DEF Walking
  <2>4. HoldsItsLocks(t)'
    BY <1>0, <1>1, NoOneAssumption DEF TypeOK, HoldsItsLocks, WorksOn, Walking, AtDevice, OnDevice, Mine
  <2>5. LocksHeld'
    BY <1>1, <2>4, OthersKeep, KeptStays DEF TypeOK
  <2> QED BY <2>1, <2>2, <2>3, <2>5
<1>4. CASE DisconnectWait(t) \/ DeviceDone(t)
  <2> USE <1>4 DEF DisconnectWait, DeviceDone
  <2>0. /\ devOwner[Mine(t)] = t /\ Unlock(Mine(t))
        /\ pc[t] \in {"held", "stopped"}
    BY <1>0, <1>1 DEF HoldsItsLocks, WorksOn
  <2>1. TypeOK'
    <3>1. pc' \in [Threads -> Points] /\ ret' \in [Threads -> {"ok"} \cup Errors]
      BY DEF TypeOK, Points, Inside, Errors
    <3>2. devOwner' \in [DOMAIN sysfs -> Threads \cup {NoOne}]
      BY <1>1, <2>0, UnlockType
    <3> QED BY <3>1, <3>2 DEF TypeOK
  <2>6. /\ pc[t] \in {"held", "stopped"} /\ pc'[t] \in {"waiting", "stranded", "return"}
        /\ \A u \in Threads \ {t} : pc'[u] = pc[u]
        /\ UNCHANGED <<pdevLibPCI, once, devPCIInit_result, found, call, pos, devices>>
    BY DEF TypeOK
  <2>2. InitInv'
    <3>1. pc'[t] \in {"enter"} \cup Inside => Ready
      BY <2>6 DEF InitInv, Ready, Inside
    <3>2. pc'[t] \notin Initialising
      BY <2>6 DEF Initialising
    <3> HIDE <1>4 DEF DisconnectWait, DeviceDone, Answer, Goto
    <3> QED BY <2>6, <3>1, <3>2, ReadyMoves
  <2>3. CallInv'
    <3>1. pc'[t] \notin Walking \cup {"find"}
      BY <2>6 DEF Walking, AtDevice
    <3>2. pc'[t] \in OnDevice => found[t] # NoDevice
      BY <2>6 DEF CallInv, OnDevice
    <3> HIDE <1>4 DEF DisconnectWait, DeviceDone, Answer, Goto
    <3> QED BY <2>6, <3>1, <3>2, CallMoves DEF Walking
  <2>4. HoldsItsLocks(t)'
    <3>1. pc'[t] \in {"waiting", "stranded", "return"} /\ pciOwner' = pciOwner
      BY DEF TypeOK
    <3>2. /\ WorksOn(t, Mine(t)) /\ \A d \in DOMAIN sysfs \ {Mine(t)} : ~WorksOn(t, d)
          /\ \A d \in DOMAIN sysfs : ~WorksOn(t, d)'
      BY <2>0, <3>1 DEF WorksOn, AtDevice
    <3>3. \A d \in DOMAIN sysfs : /\ WorksOn(t, d)' => devOwner'[d] = t
                                  /\ devOwner'[d] = t => WorksOn(t, d)' \/ d \in kept'
      BY <1>1, <2>0, <3>2, Released
    <3>4. pciOwner # t
      BY <1>0, <2>0 DEF HoldsItsLocks, Walking, AtDevice
    <3> QED BY <3>1, <3>3, <3>4 DEF HoldsItsLocks, Walking, AtDevice
  <2>5. LocksHeld'
    <3>1. \A u \in Threads \ {t} : pc'[u] = pc[u]
      BY DEF TypeOK
    <3> QED BY <1>1, <2>0, <2>4, <3>1, UnlockType, OthersKeep, KeptStays
  <2> QED BY <2>1, <2>2, <2>3, <2>5
<1>5. CASE MapBar(t) \/ KeepLock(t)
  <2> USE <1>5 DEF MapBar, KeepLock, lockVars
  <2>0. /\ devOwner[Mine(t)] = t /\ (Unlock(Mine(t)) \/ UNCHANGED devOwner)
        /\ pc[t] = "held" /\ kept \subseteq kept' /\ mapped \subseteq mapped'
        /\ pc' = [pc EXCEPT ![t] = "return"]
    BY <1>0, <1>1 DEF HoldsItsLocks, WorksOn
  <2>1. TypeOK'
    <3>1. pc' \in [Threads -> Points] /\ ret' \in [Threads -> {"ok"} \cup Errors]
      BY DEF TypeOK, Points, Errors
    <3>2. devOwner' \in [DOMAIN sysfs -> Threads \cup {NoOne}]
      BY <1>1, <2>0, UnlockType DEF TypeOK
    <3>3. call[t] \in Asked /\ call[t].op = "bar"
      BY DEF TypeOK, NoCall
    <3>4. Bar(t) \in [entry : DOMAIN sysfs, bar : {r.bar : r \in {q \in Asked : q.op = "bar"}}]
      BY <1>1, <3>3 DEF Bar
    <3>5. /\ mapped' \subseteq [entry : DOMAIN sysfs, bar : {r.bar : r \in {q \in Asked : q.op = "bar"}}]
          /\ kept' \subseteq DOMAIN sysfs
      BY <1>1, <3>4 DEF TypeOK
    <3> QED BY <3>1, <3>2, <3>5 DEF TypeOK
  <2>6. /\ pc[t] \in {"held"} /\ pc'[t] \in {"return"}
        /\ \A u \in Threads \ {t} : pc'[u] = pc[u]
        /\ UNCHANGED <<pdevLibPCI, once, devPCIInit_result, found, call, pos, devices>>
    BY DEF TypeOK
  <2>2. InitInv'
    <3>1. pc'[t] \in {"enter"} \cup Inside => Ready
      BY <2>6 DEF InitInv, Ready, Inside
    <3>2. pc'[t] \notin Initialising
      BY <2>6 DEF Initialising
    <3> HIDE <1>5 DEF MapBar, KeepLock, Answer, Goto
    <3> QED BY <2>6, <3>1, <3>2, ReadyMoves
  <2>3. CallInv'
    <3>1. pc'[t] \notin Walking \cup {"find"}
      BY <2>6 DEF Walking, AtDevice
    <3>2. pc'[t] \in OnDevice => found[t] # NoDevice
      BY <2>6 DEF CallInv, OnDevice
    <3> HIDE <1>5 DEF MapBar, KeepLock, Answer, Goto
    <3> QED BY <2>6, <3>1, <3>2, CallMoves DEF Walking
  <2>4. HoldsItsLocks(t)'
    <3>1. pc'[t] = "return" /\ pciOwner' = pciOwner
      BY <2>0 DEF TypeOK
    <3>2. /\ WorksOn(t, Mine(t)) /\ \A d \in DOMAIN sysfs \ {Mine(t)} : ~WorksOn(t, d)
          /\ \A d \in DOMAIN sysfs : ~WorksOn(t, d)'
      BY <2>0, <3>1 DEF WorksOn, AtDevice
    <3>3. \A d \in DOMAIN sysfs : /\ WorksOn(t, d)' => devOwner'[d] = t
                                  /\ devOwner'[d] = t => WorksOn(t, d)' \/ d \in kept'
      <4>1. CASE MapBar(t)
        <5>1. Unlock(Mine(t))
          BY <4>1
        <5> QED BY <1>1, <2>0, <3>2, <5>1, Released
      <4>2. CASE KeepLock(t)
        <5>1. kept' = kept \cup {Mine(t)} /\ devOwner' = devOwner
          BY <4>2
        <5>2. \A d \in DOMAIN sysfs : devOwner[d] = t => WorksOn(t, d) \/ d \in kept
          BY <1>0 DEF HoldsItsLocks
        <5> HIDE DEF Mine
        <5> QED BY <3>2, <5>1, <5>2
      <4> QED BY <1>5, <4>1, <4>2
    <3>4. pciOwner # t
      BY <1>0, <2>0 DEF HoldsItsLocks, Walking, AtDevice
    <3> QED BY <3>1, <3>3, <3>4 DEF HoldsItsLocks, Walking, AtDevice
  <2>5. KeptInv'
    <3>1. CASE MapBar(t)
      <4>1. kept' = kept /\ Unlock(Mine(t)) /\ devOwner \in [DOMAIN sysfs -> Threads \cup {NoOne}]
        BY <3>1 DEF TypeOK
      <4> QED BY <1>0, <2>0, <4>1, NoOneAssumption DEF KeptInv, Unlock
    <3>2. CASE KeepLock(t)
      <4>1. kept' = kept \cup {Mine(t)} /\ UNCHANGED <<devOwner, mapped>> /\ Bar(t) \in mapped
        BY <3>2
      <4>2. Bar(t).entry = Mine(t)
        BY DEF Bar
      <4>3. t # NoOne /\ devOwner[Mine(t)] = t
        BY <2>0, NoOneAssumption
      <4> HIDE DEF Bar, Mine
      <4> QED BY <1>0, <4>1, <4>2, <4>3 DEF KeptInv
    <3> QED BY <1>5, <3>1, <3>2
  <2>7. LocksHeld'
    <3>1. \A u \in Threads \ {t} : pc'[u] = pc[u]
      BY <2>0 DEF TypeOK
    <3> QED BY <1>1, <2>0, <2>4, <2>5, <3>1, UnlockType, OthersKeep
  <2> QED BY <2>1, <2>2, <2>3, <2>7
<1> QED BY <1>2, <1>3, <1>4, <1>5

-----------------------------------------------------------------------------
\* No step of any thread disturbs the invariant.
LEMMA NextKeeps == LockInv /\ [Next]_vars => LockInv'
<1> SUFFICES ASSUME LockInv, [Next]_vars PROVE LockInv'
  OBVIOUS
<1>1. CASE UNCHANGED vars
  <2> USE <1>1, SameRecords DEF vars, regVars, initVars, threadVars, busVars, listVars, lockVars, walkVars
  <2>1. TypeOK' /\ InitInv' /\ CallInv'
    BY DEF LockInv, TypeOK, InitInv, CallInv, Ready
  <2>2. LocksHeld'
    BY DEF LockInv, LocksHeld, HoldsItsLocks, WorksOn, KeptInv, Dev, Mine
  <2> QED BY <2>1, <2>2 DEF LockInv
<1>2. CASE Next
  <2>1. PICK t \in Threads : (Select(t) \/ Request(t) \/ Step(t)) /\ UNCHANGED sysfs
    BY <1>2 DEF Next
  <2>2. CASE Select(t)
    BY <2>1, <2>2, LibraryKeeps DEF Select
  <2>3. CASE Request(t)
    BY <2>1, <2>3, RequestKeeps
  <2>4. CASE Step(t)
    BY <2>1, <2>4, LibraryKeeps, DevInitKeeps, EnterKeeps, WalkKeeps, CallbacksKeep, DeviceKeeps DEF Step
  <2> QED BY <2>1, <2>2, <2>3, <2>4
<1> QED BY <1>1, <1>2

\* The locks, and who is where, in every reachable state.
LEMMA LocksAlways == Spec => []LockInv
<1>1. Init => LockInv
  BY InitHolds
<1>2. LockInv /\ [Next]_vars => LockInv'
  BY NextKeeps
<1> QED BY <1>1, <1>2, PTL DEF Spec

-----------------------------------------------------------------------------
\* How far the library is, as its users see it.
Progress == IF once # "done" THEN "new" ELSE IF devPCIInit_result = "ok" THEN "ready" ELSE "broken"
Entered == {t \in Threads : pc[t] \in Inside}

\* A step that moves one thread between the inside and the outside of the
\* driver, with the library ready, is one of the service.
LEMMA MoveIsServed ==
  ASSUME LockInv, NEW t \in Threads, UNCHANGED <<pdevLibPCI, once, devPCIInit_result>>,
         NEW p, pc' = [pc EXCEPT ![t] = p],
         p \in Inside => pc[t] \in {"enter"} \cup Inside
  PROVE  [Service!Next]_(Service!vars)
<1> USE DEF LockInv
<1>0. pc'[t] = p /\ \A u \in Threads \ {t} : pc'[u] = pc[u]
  BY DEF TypeOK
<1>1. CASE p \in Inside /\ pc[t] = "enter"
  <2>1. Progress = "ready"
    BY <1>1 DEF InitInv, Ready, Progress
  <2>2. Entered' = Entered \cup {t}
    BY <1>0, <1>1 DEF Entered
  <2>3. Service!Enter(t)
    BY <2>1, <2>2 DEF Service!Enter, Entered, Progress
  <2> QED BY <2>3 DEF Service!Next
<1>2. CASE p \in Inside /\ pc[t] \in Inside
  <2>1. Entered' = Entered
    BY <1>0, <1>2 DEF Entered
  <2> QED BY <2>1 DEF Service!vars, Entered
<1>3. CASE p \notin Inside /\ pc[t] \in Inside
  <2>1. Entered' = Entered \ {t} /\ t \in Entered
    BY <1>0, <1>3 DEF Entered
  <2>2. Service!Leave(t)
    BY <2>1 DEF Service!Leave, Entered
  <2> QED BY <2>2 DEF Service!Next
<1>4. CASE p \notin Inside /\ pc[t] \notin Inside
  <2>1. Entered' = Entered
    BY <1>0, <1>4 DEF Entered
  <2> QED BY <2>1 DEF Service!vars, Entered
<1> QED BY <1>1, <1>2, <1>3, <1>4

\* A step inside the driver that moves no thread in or out is a stutter.
LEMMA InsideIsServed ==
  ASSUME UNCHANGED <<pdevLibPCI, once, devPCIInit_result, pc>>
  PROVE  [Service!Next]_(Service!vars)
BY DEF Service!vars

\* The end of devInit() settles how far the library is, for good.
LEMMA EndIsServed ==
  ASSUME LockInv, NEW t \in Threads, pc[t] \in Initialising, UNCHANGED pdevLibPCI,
         NEW r, InitEnds(t, r), r = "ok" => pdevLibPCI # NoDriver
  PROVE  [Service!Next]_(Service!vars)
<1>1. Progress = "new"
  BY DEF LockInv, InitInv, Progress
<1>2. Progress' = IF r = "ok" THEN "ready" ELSE "broken"
  BY DEF InitEnds, Progress
<1>3. Entered' = Entered
  BY DEF LockInv, TypeOK, InitEnds, Goto, Entered, Inside, Initialising
<1>4. Service!Settle
  BY <1>1, <1>2, <1>3 DEF Service!Settle, Progress, Entered
<1> QED BY <1>4 DEF Service!Next

\* A selection, by the application or by devInit(), is the first.
LEMMA SelectIsServed ==
  ASSUME LockInv, NEW t \in Threads, Select(t) \/ SelectDriver(t)
  PROVE  [Service!Next]_(Service!vars)
<1>1. CASE Select(t)
  <2>1. PICK d \in Drivers : RegisterDriver(t, d) \/ Use(t, d)
    BY <1>1 DEF Select
  <2>2. CASE RegisterDriver(t, d)
    BY <2>2 DEF RegisterDriver, initVars, threadVars, Service!vars
  <2>3. CASE Use(t, d)
    <3>1. Service!Select(d)
      BY <2>3 DEF Use, initVars, threadVars, Service!Select
    <3> QED BY <3>1 DEF Service!Next
  <2> QED BY <2>1, <2>2, <2>3
<1>2. CASE SelectDriver(t)
  <2>0. pc[t] = "select" /\ pc[t] \in Initialising
    BY <1>2 DEF SelectDriver, Initialising
  <2>1. CASE InitEnds(t, "S_dev_internal") /\ UNCHANGED pdevLibPCI
    BY <2>0, <2>1, EndIsServed
  <2>2. CASE Goto(t, "init") /\ UNCHANGED <<pdevLibPCI, initVars>>
    BY <2>0, <2>2, MoveIsServed DEF Goto, initVars, Inside
  <2>3. CASE /\ Goto(t, "init") /\ UNCHANGED initVars /\ pdevLibPCI = NoDriver
             /\ pdevLibPCI' \in {d \in pciDrivers : NameOf[d] = Native}
    <3>1. pdevLibPCI' \in Drivers
      BY <2>3 DEF LockInv, TypeOK
    <3>2. Entered' = Entered
      BY <2>0, <2>3 DEF LockInv, TypeOK, Goto, Entered, Inside
    <3>3. Service!Select(pdevLibPCI')
      BY <2>3, <3>2 DEF Service!Select, Entered, initVars
    <3> QED BY <3>1, <3>3 DEF Service!Next
  <2> QED BY <1>2, <2>1, <2>2, <2>3 DEF SelectDriver
<1> QED BY <1>1, <1>2

\* epicsThreadOnce() and the returns of calls.
LEMMA OnceIsServed ==
  ASSUME LockInv, NEW t \in Threads, StartInit(t) \/ PastInit(t) \/ Return(t) \/ Request(t)
  PROVE  [Service!Next]_(Service!vars)
<1>1. CASE StartInit(t)
  <2>1. Entered' = Entered
    BY <1>1 DEF LockInv, TypeOK, StartInit, Goto, Entered, Inside
  <2>2. Progress' = Progress
    BY <1>1 DEF StartInit, Progress
  <2> QED BY <1>1, <2>1, <2>2 DEF StartInit, regVars, Entered, Progress, Service!vars
<1>2. CASE PastInit(t)
  <2>1. \E p \in {"enter", "return"} : pc' = [pc EXCEPT ![t] = p]
    BY <1>2 DEF PastInit, Answer, Goto
  <2> QED BY <1>2, <2>1, MoveIsServed DEF PastInit, regVars, initVars, Inside
<1>3. CASE Return(t)
  BY <1>3, MoveIsServed DEF Return, Goto, regVars, initVars, Inside
<1>4. CASE Request(t)
  <2>1. PICK r \in Requests[t] : Call(t, r)
    BY <1>4 DEF Request
  <2>2. \E p \in {"enter", "once", "return"} : pc' = [pc EXCEPT ![t] = p]
    BY <2>1 DEF Call, Answer, Goto
  <2> QED BY <2>1, <2>2, MoveIsServed DEF Call, regVars, initVars, Inside
<1> QED BY <1>1, <1>2, <1>3, <1>4

\* linuxDevPCIInit()
LEMMA DevInitIsServed ==
  ASSUME LockInv, NEW t \in Threads, DevInit(t)
  PROVE  [Service!Next]_(Service!vars)
<1> USE DEF regVars, initVars, threadVars, Goto
<1>1. CASE InitOpen(t)
  BY <1>1, MoveIsServed DEF InitOpen, Inside
<1>2. CASE InitOther(t)
  BY <1>2, EndIsServed DEF InitOther, Initialising, LockInv, InitInv
<1>3. CASE InitFail(t)
  BY <1>3, EndIsServed DEF InitFail, Initialising
<1>4. CASE ScanEntry(t)
  BY <1>4, InsideIsServed DEF ScanEntry
<1>5. CASE ScanDone(t)
  <2>1. CASE pc' = [pc EXCEPT ![t] = "slots"] /\ UNCHANGED initVars
    BY <1>5, <2>1, MoveIsServed DEF ScanDone, Inside
  <2>2. CASE InitEnds(t, "ok")
    BY <1>5, <2>2, EndIsServed DEF ScanDone, Initialising, LockInv, InitInv
  <2> QED BY <1>5, <2>1, <2>2 DEF ScanDone
<1>6. CASE ScanSlot(t)
  BY <1>6, InsideIsServed DEF ScanSlot
<1>7. CASE InitDone(t)
  BY <1>7, EndIsServed DEF InitDone, Initialising, LockInv, InitInv
<1> QED BY <1>1, <1>2, <1>3, <1>4, <1>5, <1>6, <1>7 DEF DevInit

\* The calls inside the driver.
LEMMA DriverIsServed ==
  ASSUME LockInv, NEW t \in Threads,
         \/ Enter(t) \/ OtherFind(t) \/ FindStart(t) \/ Visit(t) \/ VisitDone(t) \/ MatchNot(t)
         \/ MatchWish(t) \/ MatchCall(t) \/ Callback(t) \/ CallbackSearch(t) \/ InnerVisit(t)
         \/ FirstTest(t) \/ DeviceLock(t) \/ MapBar(t) \/ KeepLock(t) \/ DeviceDone(t) \/ DisconnectWait(t) \/ DisconnectResume(t)
  PROVE  [Service!Next]_(Service!vars)
<1> USE DEF regVars, initVars, Answer, Goto
<1>1. CASE Enter(t)
  <2>1. \E p \in {"return", "other", "find", "base", "device"} : pc' = [pc EXCEPT ![t] = p]
    BY <1>1 DEF Enter
  <2> QED BY <1>1, <2>1, MoveIsServed DEF Enter
<1>2. CASE OtherFind(t) \/ FindStart(t) \/ Visit(t) \/ VisitDone(t)
  BY <1>2, MoveIsServed DEF OtherFind, FindStart, Visit, VisitDone, Inside
<1>3. CASE MatchNot(t) \/ InnerVisit(t)
  <2>1. pc' = pc \/ \E p \in {"visit", "match"} : pc' = [pc EXCEPT ![t] = p]
    BY <1>3 DEF MatchNot, InnerVisit
  <2>2. pc[t] \in Inside /\ UNCHANGED <<pdevLibPCI, once, devPCIInit_result>>
    BY <1>3 DEF MatchNot, InnerVisit, Inside
  <2> QED BY <2>1, <2>2, MoveIsServed, InsideIsServed
<1>4. CASE MatchWish(t) \/ Callback(t)
  <2>1. pc' = pc \/ \E p \in {"return", "match"} : pc' = [pc EXCEPT ![t] = p]
    BY <1>4 DEF MatchWish, Callback, Stop
  <2>2. pc[t] \in Inside /\ UNCHANGED <<pdevLibPCI, once, devPCIInit_result>>
    BY <1>4 DEF MatchWish, Callback, Inside
  <2> QED BY <2>1, <2>2, MoveIsServed, InsideIsServed
<1>5. CASE MatchCall(t) \/ CallbackSearch(t)
  BY <1>5, MoveIsServed DEF MatchCall, CallbackSearch, Inside
<1>6. CASE FirstTest(t) \/ DeviceLock(t) \/ MapBar(t) \/ KeepLock(t) \/ DeviceDone(t) \/ DisconnectWait(t) \/ DisconnectResume(t)
  BY <1>6, MoveIsServed DEF FirstTest, DeviceLock, MapBar, KeepLock, DeviceDone, DisconnectWait, DisconnectResume, Inside
<1> QED BY <1>1, <1>2, <1>3, <1>4, <1>5, <1>6

\* devLibPCI.c with the Linux driver implements the service: whatever threads
\* register, select, search and call, one driver is selected for good, the
\* initialisation ends once, and a thread is in a driver only when it is ready.
THEOREM Serves == Spec => ServiceSpec
<1>1. Init => Service!Init
  BY DEF Init, LibInit, Service!Init, Inside
<1>2. LockInv /\ [Next]_vars => [Service!Next]_(Service!vars)
  <2> SUFFICES ASSUME LockInv, [Next]_vars PROVE [Service!Next]_(Service!vars)
    OBVIOUS
  <2>1. CASE UNCHANGED vars
    BY <2>1, InsideIsServed DEF vars, regVars, initVars, threadVars
  <2>2. CASE Next
    <3>1. PICK t \in Threads : Select(t) \/ Request(t) \/ Step(t)
      BY <2>2 DEF Next
    <3> QED BY <3>1, SelectIsServed, OnceIsServed, DevInitIsServed, DriverIsServed DEF Step
  <2> QED BY <2>1, <2>2
<1> QED BY <1>1, <1>2, LocksAlways, PTL DEF Spec, ServiceSpec, Service!Spec

-----------------------------------------------------------------------------
(* The list                                                                *)

\* A directory is a sequence of entries.
LEMMA Directory ==
  ASSUME TypeOK
  PROVE  Len(sysfs) \in Nat /\ DOMAIN sysfs = 1 .. Len(sysfs)
BY ListingsAssumption DEF TypeOK

\* A record of the list shows the address of its directory entry.
LEMMA Shown ==
  ASSUME TypeOK, NEW i \in DOMAIN devices
  PROVE  devices[i].entry \in DOMAIN sysfs /\ devices[i].addr = sysfs[devices[i].entry].addr
<1>1. devices[i] \in ListRecords
  BY DEF TypeOK
<1> QED BY <1>1 DEF ListRecords

\* Where Insert() puts a record, and where the others are.
InsertedAt(new, list, host, r) ==
  LET n == Len(list) IN
  /\ n \in Nat /\ DOMAIN list = 1 .. n /\ DOMAIN new = 1 .. n + 1
  /\ host => new[n + 1] = r /\ \A i \in 1 .. n : new[i] = list[i]
  /\ ~host => new[1] = r /\ \A i \in 1 .. n : new[i + 1] = list[i]

LEMMA InsertPlaces ==
  ASSUME NEW S, NEW list \in Seq(S), NEW host, NEW r \in S
  PROVE  InsertedAt(Insert(list, host, r), list, host, r)
<1> USE DEF InsertedAt
<1>1. CASE host
  BY <1>1 DEF Insert
<1>2. CASE ~host
  <2>1. <<r>> \in Seq(S) /\ Len(<<r>>) = 1 /\ <<r>>[1] = r
    OBVIOUS
  <2>2. /\ Len(<<r>> \o list) = Len(list) + 1
        /\ \A i \in 1 .. Len(list) + 1 :
             (<<r>> \o list)[i] = IF i <= 1 THEN <<r>>[i] ELSE list[i - 1]
    BY <2>1
  <2>3. <<r>> \o list \in Seq(S)
    BY <2>1
  <2> QED BY <1>2, <2>1, <2>2, <2>3 DEF Insert
<1> QED BY <1>1, <1>2

\* What the entries of the list are after one more.
EntriesOf(list) == {list[i].entry : i \in DOMAIN list}

LEMMA ListedMore ==
  ASSUME NEW S, NEW list \in Seq(S), NEW host, NEW r \in S
  PROVE  EntriesOf(Insert(list, host, r)) = EntriesOf(list) \cup {r.entry}
<1> DEFINE new == Insert(list, host, r)
           n == Len(list)
<1>1. /\ n \in Nat /\ DOMAIN list = 1 .. n /\ DOMAIN new = 1 .. n + 1
      /\ host => new[n + 1] = r /\ \A i \in 1 .. n : new[i] = list[i]
      /\ ~host => new[1] = r /\ \A i \in 1 .. n : new[i + 1] = list[i]
  <2>1. InsertedAt(new, list, host, r)
    BY InsertPlaces, Zenon
  <2> QED BY <2>1 DEF InsertedAt
<1> HIDE DEF new, n
<1>2. ASSUME NEW i \in DOMAIN new
      PROVE  new[i].entry \in {list[j].entry : j \in DOMAIN list} \cup {r.entry}
  <2>1. CASE host
    BY <1>1, <2>1
  <2>2. CASE ~host
    <3>1. CASE i = 1
      BY <1>1, <2>2, <3>1
    <3>2. CASE i # 1
      <4>1. i - 1 \in 1 .. n /\ i = (i - 1) + 1
        BY <1>1, <3>2
      <4>2. new[i] = list[i - 1]
        BY <1>1, <2>2, <4>1
      <4> QED BY <1>1, <4>1, <4>2
    <3> QED BY <3>1, <3>2
  <2> QED BY <2>1, <2>2
<1>3. ASSUME NEW j \in DOMAIN list
      PROVE  list[j].entry \in {new[i].entry : i \in DOMAIN new}
  <2>1. CASE host
    BY <1>1, <2>1
  <2>2. CASE ~host
    <3>1. j + 1 \in DOMAIN new /\ new[j + 1] = list[j]
      BY <1>1, <2>2
    <3> QED BY <3>1
  <2> QED BY <2>1, <2>2
<1>4. r.entry \in {new[i].entry : i \in DOMAIN new}
  <2>1. CASE host
    <3>1. n + 1 \in DOMAIN new /\ new[n + 1] = r
      BY <1>1, <2>1
    <3> QED BY <3>1
  <2>2. CASE ~host
    <3>1. 1 \in DOMAIN new /\ new[1] = r
      BY <1>1, <2>2
    <3> QED BY <3>1
  <2> QED BY <2>1, <2>2
<1>5. EntriesOf(new) = EntriesOf(list) \cup {r.entry}
  BY <1>2, <1>3, <1>4 DEF EntriesOf
<1> QED BY <1>5 DEF new

\* The entries stay ascending or descending when the next number is inserted.
Sorted(list, host) ==
  \A i, j \in DOMAIN list : i < j =>
    IF host THEN list[i].entry < list[j].entry ELSE list[j].entry < list[i].entry

LEMMA SortedMore ==
  ASSUME NEW S, NEW list \in Seq(S), NEW host, NEW r \in S,
         r.entry \in Nat, \A i \in DOMAIN list : list[i].entry \in Nat /\ list[i].entry < r.entry,
         Sorted(list, host)
  PROVE  Sorted(Insert(list, host, r), host)
<1> DEFINE new == Insert(list, host, r)
           n == Len(list)
<1>1. /\ n \in Nat /\ DOMAIN list = 1 .. n /\ DOMAIN new = 1 .. n + 1
      /\ host => new[n + 1] = r /\ \A i \in 1 .. n : new[i] = list[i]
      /\ ~host => new[1] = r /\ \A i \in 1 .. n : new[i + 1] = list[i]
  <2>1. InsertedAt(new, list, host, r)
    BY InsertPlaces, Zenon
  <2> QED BY <2>1 DEF InsertedAt
<1> HIDE DEF new, n
<1>2. ASSUME NEW i \in DOMAIN new, NEW j \in DOMAIN new, i < j
      PROVE  IF host THEN new[i].entry < new[j].entry ELSE new[j].entry < new[i].entry
  <2>1. CASE host
    <3>1. i \in DOMAIN list /\ new[i] = list[i]
      BY <1>1, <1>2, <2>1
    <3>2. CASE j = n + 1
      BY <1>1, <2>1, <3>1, <3>2
    <3>3. CASE j # n + 1
      <4>1. j \in DOMAIN list /\ new[j] = list[j]
        BY <1>1, <2>1, <3>3
      <4> QED BY <1>2, <2>1, <3>1, <4>1 DEF Sorted
    <3> QED BY <3>2, <3>3
  <2>2. CASE ~host
    <3>1. j - 1 \in DOMAIN list /\ new[j] = list[j - 1]
      <4>1. j - 1 \in 1 .. n /\ j = (j - 1) + 1
        BY <1>1, <1>2
      <4> QED BY <1>1, <2>2, <4>1
    <3>2. CASE i = 1
      BY <1>1, <2>2, <3>1, <3>2
    <3>3. CASE i # 1
      <4>1. i - 1 \in 1 .. n /\ i = (i - 1) + 1
        BY <1>1, <3>3
      <4>2. i - 1 \in DOMAIN list /\ new[i] = list[i - 1]
        BY <1>1, <2>2, <4>1
      <4>3. i - 1 < j - 1
        BY <1>1, <1>2
      <4> QED BY <2>2, <3>1, <4>2, <4>3 DEF Sorted
    <3> QED BY <3>2, <3>3
  <2> QED BY <2>1, <2>2
<1>3. Sorted(new, host)
  BY <1>2, Zenon DEF Sorted
<1> QED BY <1>3 DEF new

LEMMA ListInit == Init => ListInv
<1> SUFFICES ASSUME Init PROVE ListInv
  OBVIOUS
<1>1. DOMAIN devices = {}
  BY DEF Init
<1> QED BY <1>1 DEF Init, LibInit, ListInv, ListEmpty

Scanning == {"scan", "slots"}

\* A step that scans nothing, and neither begins to scan nor ends devInit().
LEMMA OrderStays ==
  ASSUME ListInv, UNCHANGED <<sysfs, devices, leaked, next, host_is_first, devPCIInit_result>>,
         once' = "done" <=> once = "done",
         pdevLibPCI' = pdevLibPCI \/ (pdevLibPCI = NoDriver /\ pdevLibPCI' # NoDriver),
         \A u \in Threads : {pc[u], pc'[u]} \cap Scanning # {} => pc'[u] = pc[u]
  PROVE  ListInv'
<1> USE DEF Scanning
<1>1. Listed' = Listed /\ ListEmpty' = ListEmpty
  BY DEF Listed, ListEmpty
<1>2. \A u \in Threads : pc'[u] \in {"scan", "slots"} <=> pc[u] \in {"scan", "slots"}
  OBVIOUS
<1>3. (once' # "done" /\ (\A t \in Threads : pc'[t] \notin {"scan", "slots"})) => ListEmpty'
  BY <1>1, <1>2 DEF ListInv
<1>4. \A u \in Threads :
        /\ pc'[u] \in {"scan", "slots"} => pdevLibPCI' = Linux
        /\ pc'[u] = "scan" =>
            /\ next' <= Len(sysfs') + 1
            /\ leaked' \subseteq 1 .. next' - 1
            /\ Listed' = (1 .. next' - 1) \ leaked'
        /\ pc'[u] = "slots" => Listed' = DOMAIN sysfs' \ leaked'
  BY <1>1, <1>2, LinuxAssumption, NoDriverAssumption DEF ListInv
<1>5. /\ devPCIInit_result' = "ok" => pdevLibPCI' # NoDriver
      /\ devPCIInit_result' = "ok" /\ pdevLibPCI' = Linux => Listed' = DOMAIN sysfs' \ leaked'
  BY <1>1 DEF ListInv
<1>6. IsHost(sysfs[1])' = IsHost(sysfs[1])
  BY DEF IsHost
<1> QED BY <1>3, <1>4, <1>5, <1>6 DEF ListInv

\* The same, with the state of the mappings.
LEMMA ListStays ==
  ASSUME ListInv, UNCHANGED <<sysfs, listVars, devPCIInit_result>>,
         once' = "done" <=> once = "done",
         pdevLibPCI' = pdevLibPCI \/ (pdevLibPCI = NoDriver /\ pdevLibPCI' # NoDriver),
         \A u \in Threads : {pc[u], pc'[u]} \cap Scanning # {} => pc'[u] = pc[u]
  PROVE  ListInv'
BY OrderStays DEF listVars

\* devInit() ends, and the list stays what it is.
LEMMA ListEnds ==
  ASSUME LockInv, ListInv, NEW t \in Threads, pc[t] \in Initialising,
         NEW r, InitEnds(t, r), r \notin {"unset", "S_dev_noDevice"},
         r = "ok" => pdevLibPCI # NoDriver,
         r = "ok" /\ pdevLibPCI = Linux => Listed = DOMAIN sysfs \ leaked,
         UNCHANGED <<sysfs, pdevLibPCI, devices, leaked, host_is_first>>, next' \in Nat \ {0}
  PROVE  ListInv'
<1>1. \A u \in Threads : pc'[u] \notin {"scan", "slots"}
  BY NobodyInside DEF LockInv, TypeOK, InitEnds, Goto, Initialising
<1>2. Listed' = Listed /\ IsHost(sysfs[1])' = IsHost(sysfs[1])
  BY DEF Listed, IsHost
<1>3. once' = "done" /\ devPCIInit_result' = r
  BY DEF InitEnds
<1>4. /\ \A i, j \in DOMAIN devices : i # j => devices[i].entry # devices[j].entry
      /\ 1 \notin leaked /\ devices # <<>> =>
           /\ host_is_first <=> IsHost(sysfs[1])
           /\ \A i, j \in DOMAIN devices : i < j =>
                IF host_is_first THEN devices[i].entry < devices[j].entry
                                 ELSE devices[j].entry < devices[i].entry
  BY DEF ListInv
<1> QED BY <1>1, <1>2, <1>3, <1>4 DEF ListInv

\* One entry is read: it goes behind the others, or before them.
LEMMA ListGrows ==
  ASSUME LockInv, ListInv, NEW t \in Threads, UNCHANGED sysfs, ScanEntry(t)
  PROVE  ListInv'
<1>0. /\ pc[t] = "scan" /\ pc' = pc /\ once' = once /\ devPCIInit_result' = devPCIInit_result
      /\ pdevLibPCI' = pdevLibPCI /\ next \in DOMAIN sysfs /\ next' = next + 1
  BY DEF ScanEntry, threadVars, regVars, initVars
<1>1. /\ Listed = (1 .. next - 1) \ leaked /\ leaked \subseteq 1 .. next - 1
      /\ pdevLibPCI = Linux /\ next \in Nat \ {0}
  BY <1>0 DEF ListInv
<1>2. once = "running" /\ \A u \in Threads \ {t} : pc[u] \notin {"scan", "slots"}
  BY <1>0, NobodyInside DEF Initialising
<1>3. Len(sysfs) \in Nat /\ next <= Len(sysfs)
  BY <1>0, Directory DEF LockInv
<1>4. devPCIInit_result = "unset"
  BY <1>2 DEF ListInv
<1>5. devices \in Seq(ListRecords)
  BY DEF LockInv, TypeOK
<1>6. \A i \in DOMAIN devices : devices[i].entry \in Listed
  BY DEF Listed
<1>7. SUFFICES
        /\ leaked' \subseteq 1 .. next
        /\ Listed' = (1 .. next) \ leaked'
        /\ \A i, j \in DOMAIN devices' : i # j => devices'[i].entry # devices'[j].entry
        /\ 1 \notin leaked' /\ devices' # <<>> =>
             /\ host_is_first' <=> IsHost(sysfs'[1])
             /\ \A i, j \in DOMAIN devices' : i < j =>
                  IF host_is_first' THEN devices'[i].entry < devices'[j].entry
                                    ELSE devices'[j].entry < devices'[i].entry
  <2>1. next' \in Nat \ {0} /\ next' - 1 = next /\ next' <= Len(sysfs') + 1
    BY <1>0, <1>1, <1>3
  <2> QED BY <1>0, <1>1, <1>2, <1>4, <2>1 DEF ListInv
<1>8. CASE /\ host_is_first' = IF devices = <<>> THEN IsHost(Record(next)) ELSE host_is_first
           /\ devices' = Insert(devices, host_is_first', Record(next))
           /\ UNCHANGED leaked
  <2> DEFINE r == Record(next)
             h == host_is_first'
  <2>1. r \in ListRecords /\ r.entry = next /\ r.addr = sysfs[next].addr
    BY <1>0, RecordType DEF Record
  <2>2. InsertedAt(devices', devices, h, r)
    BY <1>5, <1>8, <2>1, InsertPlaces
  <2>3. Listed' = Listed \cup {next}
    <3>1. EntriesOf(Insert(devices, h, r)) = EntriesOf(devices) \cup {r.entry}
      BY <1>5, <2>1, ListedMore
    <3>2. Listed = EntriesOf(devices) /\ Listed' = EntriesOf(devices')
      BY DEF Listed, EntriesOf
    <3>3. EntriesOf(devices') = EntriesOf(devices) \cup {r.entry}
      BY <1>8, <3>1
    <3> QED BY <2>1, <3>2, <3>3
  <2>4. Listed' = (1 .. next) \ leaked' /\ leaked' \subseteq 1 .. next
    BY <1>1, <1>8, <2>3
  <2>5. \A i \in DOMAIN devices : devices[i].entry \in Nat /\ devices[i].entry < r.entry
    BY <1>1, <1>6, <2>1
  <2>6. ASSUME 1 \notin leaked
        PROVE  (h <=> IsHost(sysfs[1])) /\ Sorted(devices', h)
    <3>1. CASE devices = <<>>
      <4>1. next = 1
        <5>1. Listed = {}
          BY <3>1 DEF Listed
        <5>2. next # 1 => 1 \in 1 .. next - 1
          BY <1>1
        <5> QED BY <1>1, <2>6, <5>1, <5>2
      <4>2. h <=> IsHost(sysfs[1])
        BY <1>8, <2>1, <3>1, <4>1 DEF IsHost
      <4>3. Sorted(devices, h)
        BY <3>1 DEF Sorted
      <4>4. Sorted(Insert(devices, h, r), h)
        BY <1>1, <1>5, <2>1, <2>5, <4>3, SortedMore
      <4> QED BY <1>8, <4>2, <4>4
    <3>2. CASE devices # <<>>
      <4>1. h = host_is_first
        BY <1>8, <3>2
      <4>2. (host_is_first <=> IsHost(sysfs[1])) /\ Sorted(devices, host_is_first)
        BY <2>6, <3>2 DEF ListInv, Sorted
      <4>3. Sorted(Insert(devices, h, r), h)
        BY <1>1, <1>5, <2>1, <2>5, <4>1, <4>2, SortedMore
      <4> QED BY <1>8, <4>1, <4>2, <4>3
    <3> QED BY <3>1, <3>2
  <2>7. IsHost(sysfs'[1]) <=> IsHost(sysfs[1])
    BY DEF IsHost
  <2>8. ASSUME NEW i \in DOMAIN devices', NEW j \in DOMAIN devices', i # j
        PROVE  devices'[i].entry # devices'[j].entry
    <3> HIDE DEF r, h
    <3>1. \A a, b \in DOMAIN devices : a # b => devices[a].entry # devices[b].entry
      BY DEF ListInv
    <3>2. CASE h
      BY <2>1, <2>2, <2>5, <2>8, <3>1, <3>2 DEF InsertedAt
    <3>3. CASE ~h
      <4>1. \A k \in DOMAIN devices' \ {1} : k - 1 \in DOMAIN devices /\ devices'[k] = devices[k - 1]
        <5> SUFFICES ASSUME NEW k \in DOMAIN devices' \ {1}
                     PROVE  k - 1 \in DOMAIN devices /\ devices'[k] = devices[k - 1]
          OBVIOUS
        <5>1. k - 1 \in 1 .. Len(devices) /\ k = (k - 1) + 1
          BY <2>2 DEF InsertedAt
        <5> QED BY <2>2, <3>3, <5>1 DEF InsertedAt
      <4>2. devices'[1] = r /\ \A k \in DOMAIN devices' : k \in Int
        BY <2>2, <3>3 DEF InsertedAt
      <4>3. \A k \in DOMAIN devices' \ {1} : devices'[k].entry # r.entry
        BY <2>5, <4>1, <2>1, <1>1
      <4>4. CASE i = 1 \/ j = 1
        BY <2>8, <4>2, <4>3, <4>4
      <4>5. CASE i # 1 /\ j # 1
        <5>1. i - 1 # j - 1
          BY <2>8, <4>2
        <5> QED BY <3>1, <4>1, <4>5, <5>1
      <4> QED BY <4>4, <4>5
    <3> QED BY <3>2, <3>3
  <2> QED BY <1>8, <2>4, <2>6, <2>7, <2>8 DEF Sorted
<1>9. CASE leaked' = leaked \cup {next} /\ UNCHANGED <<devices, host_is_first>>
  <2>1. Listed' = Listed /\ Listed' = (1 .. next) \ leaked' /\ leaked' \subseteq 1 .. next
    BY <1>1, <1>9 DEF Listed
  <2>2. 1 \notin leaked' => 1 \notin leaked
    BY <1>9
  <2>3. IsHost(sysfs'[1]) <=> IsHost(sysfs[1])
    BY DEF IsHost
  <2> QED BY <1>9, <2>1, <2>2, <2>3 DEF ListInv
<1> QED BY <1>8, <1>9 DEF ScanEntry

\* Labels change no entry.
LEMMA ListLabelled ==
  ASSUME LockInv, ListInv, NEW t \in Threads, UNCHANGED sysfs, ScanSlot(t)
  PROVE  ListInv'
<1>0. /\ pc[t] = "slots" /\ pc' = pc /\ once' = once /\ devPCIInit_result' = devPCIInit_result
      /\ pdevLibPCI' = pdevLibPCI /\ next' = next + 1
      /\ leaked' = leaked /\ host_is_first' = host_is_first
  BY DEF ScanSlot, threadVars, regVars, initVars
<1>1. \A i \in DOMAIN devices : devices[i] \in ListRecords
  BY DEF LockInv, TypeOK
<1>2. ASSUME NEW i \in DOMAIN devices, NEW l
      PROVE  [devices[i] EXCEPT !.slot = l].entry = devices[i].entry
  <2>1. devices[i] \in ListRecords
    BY <1>1
  <2> QED BY <2>1 DEF ListRecords
<1>3. DOMAIN devices' = DOMAIN devices /\ \A i \in DOMAIN devices : devices'[i].entry = devices[i].entry
  <2>1. CASE UNCHANGED devices
    BY <2>1
  <2>2. CASE devices' = [i \in DOMAIN devices |->
              IF InSlot(devices[i], Slots[next]) /\ devices[i].slot = NoSlot
              THEN [devices[i] EXCEPT !.slot = Slots[next].label] ELSE devices[i]]
    <3>1. DOMAIN devices' = DOMAIN devices
      BY <2>2
    <3>2. ASSUME NEW i \in DOMAIN devices PROVE devices'[i].entry = devices[i].entry
      <4>1. \/ devices'[i] = devices[i]
            \/ devices'[i] = [devices[i] EXCEPT !.slot = Slots[next].label]
        BY <2>2
      <4> QED BY <4>1, <1>2
    <3> QED BY <3>1, <3>2
  <2> QED BY <2>1, <2>2 DEF ScanSlot
<1>4. Listed' = Listed
  BY <1>3 DEF Listed
<1>5. devices' # <<>> => devices # <<>>
  <2>1. devices' \in Seq(ListRecords)
    BY DevInitKeeps, SameRecords DEF DevInit, LockInv, TypeOK
  <2>2. devices = <<>> => DOMAIN devices' = {}
    BY <1>3
  <2>3. DOMAIN devices' = {} => devices' = <<>>
    BY <2>1
  <2> QED BY <2>2, <2>3
<1>6. IsHost(sysfs'[1]) <=> IsHost(sysfs[1])
  BY DEF IsHost
<1>7. next' \in Nat \ {0}
  BY <1>0 DEF ListInv
<1>8. \A u \in Threads : pc[u] \notin {"scan"}
  BY <1>0, NobodyInside DEF Initialising
<1> QED BY <1>0, <1>3, <1>4, <1>5, <1>6, <1>7, <1>8 DEF ListInv

\* The library's own steps leave the list alone, and start or end devInit().
LEMMA ListKeeps == LockInv /\ ListInv /\ [Next]_vars => ListInv'
<1> SUFFICES ASSUME LockInv, ListInv, [Next]_vars PROVE ListInv'
  OBVIOUS
<1> USE DEF regVars, initVars, threadVars, busVars, listVars, Goto, Answer, Scanning
<1>1. CASE UNCHANGED vars
  BY <1>1, ListStays DEF vars
<1>2. CASE Next
  <2>0. PICK t \in Threads : (Select(t) \/ Request(t) \/ Step(t)) /\ UNCHANGED sysfs
    BY <1>2 DEF Next
  <2>1. pc \in [Threads -> Points]
    BY DEF LockInv, TypeOK
  <2>2. CASE Select(t)
    <3>1. NoDriver \notin Drivers
      BY NoDriverAssumption
    <3> QED BY <2>0, <2>2, <3>1, ListStays DEF Select, RegisterDriver, Use
  <2>3. CASE Request(t)
    BY <2>0, <2>1, <2>3, ListStays DEF Request, Call
  <2>4. CASE (StartInit(t) \/ PastInit(t) \/ Return(t)) /\ UNCHANGED busVars
    BY <2>0, <2>1, <2>4, ListStays DEF StartInit, PastInit, Return
  <2>5. CASE SelectDriver(t) /\ UNCHANGED busVars
    <3>1. CASE InitEnds(t, "S_dev_internal") /\ UNCHANGED pdevLibPCI
      <4>1. next' \in Nat \ {0} /\ pc[t] \in Initialising
        BY <2>5 DEF ListInv, SelectDriver, Initialising
      <4> QED BY <2>0, <2>5, <3>1, <4>1, ListEnds
    <3>2. CASE /\ pc' = [pc EXCEPT ![t] = "init"] /\ UNCHANGED <<once, devPCIInit_result>>
               /\ \/ pdevLibPCI # NoDriver /\ UNCHANGED pdevLibPCI
                  \/ pdevLibPCI = NoDriver /\ pdevLibPCI' \in pciDrivers
      <4>1. pdevLibPCI' = pdevLibPCI \/ (pdevLibPCI = NoDriver /\ pdevLibPCI' # NoDriver)
        BY <3>2, NoDriverAssumption DEF LockInv, TypeOK
      <4>2. \A u \in Threads : {pc[u], pc'[u]} \cap Scanning # {} => pc'[u] = pc[u]
        BY <2>1, <2>5, <3>2 DEF SelectDriver
      <4> QED BY <2>0, <2>5, <3>2, <4>1, <4>2, ListStays
    <3> QED BY <2>5, <3>1, <3>2 DEF SelectDriver
  <2>6. CASE DevInit(t)
    <3>1. CASE InitOpen(t)
      <4>0. /\ pc[t] = "init" /\ pc' = [pc EXCEPT ![t] = "scan"] /\ pdevLibPCI = Linux
            /\ UNCHANGED <<pdevLibPCI, once, devPCIInit_result, devices, leaked, next, host_is_first>>
        BY <3>1 DEF InitOpen
      <4>1. once = "running" /\ \A u \in Threads \ {t} : pc[u] \notin {"scan", "slots"}
        BY <4>0, NobodyInside DEF Initialising
      <4>2. devPCIInit_result = "unset" /\ ListEmpty
        BY <4>0, <4>1 DEF ListInv
      <4>3. Listed' = {}
        BY <4>0, <4>2 DEF Listed, ListEmpty
      <4>4. \A u \in Threads : pc'[u] # "slots"
        BY <2>1, <4>0, <4>1
      <4>5. DOMAIN devices' = {} /\ next' = 1 /\ leaked' = {} /\ devices' = <<>> /\ Len(sysfs') \in Nat
        BY <2>0, <4>0, <4>2, Directory DEF ListEmpty, LockInv
      <4>6. pc'[t] = "scan"
        BY <2>1, <4>0
      <4> QED BY <4>0, <4>1, <4>2, <4>3, <4>4, <4>5, <4>6 DEF ListInv
    <3>2. CASE InitOther(t)
      <4>1. next' \in Nat \ {0} /\ pc[t] \in Initialising /\ pdevLibPCI # NoDriver
        BY <3>2 DEF InitOther, ListInv, Initialising, LockInv, InitInv
      <4> QED BY <2>0, <3>2, <4>1, ListEnds DEF InitOther
    <3>3. CASE InitFail(t)
      <4>1. next' \in Nat \ {0} /\ pc[t] \in Initialising
        BY <3>3 DEF InitFail, ListInv, Initialising
      <4> QED BY <2>0, <3>3, <4>1, ListEnds DEF InitFail
    <3>4. CASE ScanEntry(t)
      BY <2>0, <3>4, ListGrows
    <3>5. CASE ScanDone(t)
      <4>0. /\ pc[t] = "scan" /\ next' = 1 /\ next \notin DOMAIN sysfs
            /\ UNCHANGED <<pdevLibPCI, devices, leaked, host_is_first>>
        BY <3>5 DEF ScanDone
      <4>1. once = "running" /\ \A u \in Threads \ {t} : pc[u] \notin {"scan", "slots"}
        BY <4>0, NobodyInside DEF Initialising
      <4>2. Listed = DOMAIN sysfs \ leaked
        <5>1. next \in Nat \ {0} /\ next <= Len(sysfs) + 1 /\ Listed = (1 .. next - 1) \ leaked
          BY <4>0 DEF ListInv
        <5>2. Len(sysfs) \in Nat /\ DOMAIN sysfs = 1 .. Len(sysfs)
          BY Directory DEF LockInv
        <5>3. next - 1 = Len(sysfs)
          BY <4>0, <5>1, <5>2
        <5> QED BY <5>1, <5>2, <5>3
      <4>3. CASE InitEnds(t, "ok")
        <5>1. pc[t] \in Initialising /\ pdevLibPCI # NoDriver
          BY <4>0 DEF Initialising, LockInv, InitInv
        <5> QED BY <2>0, <4>0, <4>2, <4>3, <5>1, ListEnds
      <4>4. CASE pc' = [pc EXCEPT ![t] = "slots"] /\ UNCHANGED <<once, devPCIInit_result>>
        <5>1. \A u \in Threads : pc'[u] # "scan"
          BY <2>1, <4>1, <4>4
        <5>2. Listed' = DOMAIN sysfs' \ leaked' /\ (IsHost(sysfs'[1]) <=> IsHost(sysfs[1]))
          BY <2>0, <4>0, <4>2 DEF Listed, IsHost
        <5>3. devPCIInit_result' = "unset" /\ once' # "done" /\ pc'[t] = "slots" /\ pdevLibPCI' = Linux
          BY <2>1, <4>0, <4>1, <4>4 DEF ListInv
        <5>4. /\ \A i, j \in DOMAIN devices : i # j => devices[i].entry # devices[j].entry
              /\ 1 \notin leaked /\ devices # <<>> =>
                   /\ host_is_first <=> IsHost(sysfs[1])
                   /\ \A i, j \in DOMAIN devices : i < j =>
                        IF host_is_first THEN devices[i].entry < devices[j].entry
                                         ELSE devices[j].entry < devices[i].entry
          BY DEF ListInv
        <5> QED BY <2>0, <4>0, <5>1, <5>2, <5>3, <5>4 DEF ListInv
      <4> QED BY <3>5, <4>3, <4>4 DEF ScanDone
    <3>6. CASE ScanSlot(t)
      BY <2>0, <3>6, ListLabelled
    <3>7. CASE InitDone(t)
      <4>1. /\ next' \in Nat \ {0} /\ pc[t] \in Initialising /\ pdevLibPCI # NoDriver
            /\ Listed = DOMAIN sysfs \ leaked
        BY <3>7 DEF InitDone, ListInv, Initialising, LockInv, InitInv
      <4> QED BY <2>0, <3>7, <4>1, ListEnds DEF InitDone
    <3> QED BY <2>6, <3>1, <3>2, <3>3, <3>4, <3>5, <3>6, <3>7 DEF DevInit
  <2>7. CASE Enter(t) \/ OtherFind(t)
    BY <2>0, <2>1, <2>7, ListStays DEF Enter, OtherFind
  <2>8. CASE FindStart(t) \/ Visit(t) \/ VisitDone(t) \/ MatchNot(t)
    BY <2>0, <2>1, <2>8, ListStays DEF FindStart, Visit, VisitDone, MatchNot
  <2>9. CASE MatchWish(t) \/ MatchCall(t) \/ Callback(t) \/ CallbackSearch(t) \/ InnerVisit(t)
    BY <2>0, <2>1, <2>9, ListStays DEF MatchWish, MatchCall, Callback, CallbackSearch, InnerVisit, Stop
  <2>10. CASE FirstTest(t) \/ DeviceLock(t) \/ MapBar(t) \/ KeepLock(t) \/ DeviceDone(t) \/ DisconnectWait(t) \/ DisconnectResume(t)
    BY <2>0, <2>1, <2>10, OrderStays DEF listVars, FirstTest, DeviceLock, MapBar, KeepLock, DeviceDone, DisconnectWait, DisconnectResume
  <2> QED BY <2>0, <2>2, <2>3, <2>4, <2>5, <2>6, <2>7, <2>8, <2>9, <2>10 DEF Step
<1> QED BY <1>1, <1>2

LEMMA ListAlways == Spec => [](LockInv /\ ListInv)
<1>1. Init => ListInv
  BY ListInit
<1>2. LockInv /\ ListInv /\ [Next]_vars => ListInv'
  BY ListKeeps
<1> QED BY <1>1, <1>2, LocksAlways, PTL DEF Spec

\* linuxDevPCIInit(): whatever devices fail to open behind the first one, and
\* whichever way readdir() goes along the bus, the list that searches walk holds
\* the others once each, in the order of the bus.
THEOREM InOrder ==
  ASSUME InBusOrder
  PROVE  Spec => []ListMatchesBus
<1>1. LockInv /\ ListInv => ListMatchesBus
  <2> SUFFICES ASSUME LockInv, ListInv, devPCIInit_result = "ok", pdevLibPCI = Linux
               PROVE  /\ Listed = DOMAIN sysfs \ leaked
                      /\ \A i, j \in DOMAIN devices : i # j => devices[i].entry # devices[j].entry
                      /\ 1 \notin leaked => \A i, j \in DOMAIN devices :
                           i < j => Before(devices[i].addr, devices[j].addr)
    BY DEF ListMatchesBus, Listed
  <2>1. ASSUME 1 \notin leaked, NEW i \in DOMAIN devices, NEW j \in DOMAIN devices, i < j
        PROVE  Before(devices[i].addr, devices[j].addr)
    <3>1. devices # <<>>
      OBVIOUS
    <3>2. /\ host_is_first <=> IsHost(sysfs[1])
          /\ IF host_is_first THEN devices[i].entry < devices[j].entry
                              ELSE devices[j].entry < devices[i].entry
      BY <2>1, <3>1 DEF ListInv
    <3>3. /\ devices[i].entry \in DOMAIN sysfs /\ devices[i].addr = sysfs[devices[i].entry].addr
          /\ devices[j].entry \in DOMAIN sysfs /\ devices[j].addr = sysfs[devices[j].entry].addr
      BY <2>1, Shown DEF LockInv
    <3>4. \A m, n \in DOMAIN sysfs : m < n =>
            IF IsHost(sysfs[1]) THEN Before(sysfs[m].addr, sysfs[n].addr)
                                ELSE Before(sysfs[n].addr, sysfs[m].addr)
      BY DEF LockInv, TypeOK, InBusOrder
    <3> QED BY <3>2, <3>3, <3>4
  <2> QED BY <2>1 DEF ListInv
<1> QED BY <1>1, ListAlways, PTL

-----------------------------------------------------------------------------
(* The search                                                              *)

\* What is known of a thread's search, and of its answer.
FoundInv(t) ==
  (pc[t] = "return" /\ call[t].op = "find" /\ call[t].fn = "devmatch" /\ pdevLibPCI = Linux)
    => RightInstance(t)

Sought(t) == SearchInv(t) /\ FoundInv(t)

BothInv == LockInv /\ ListInv

\* A search has a list of identifiers and a number of matches to skip.
LEMMA FindCall ==
  ASSUME TypeOK, NEW t \in Threads, call[t].op = "find"
  PROVE  /\ call[t].wish.stopat \in Nat
         /\ Len(call[t].ids) \in Nat /\ DOMAIN call[t].ids = 1 .. Len(call[t].ids)
<1>1. call[t] \in Asked
  BY DEF TypeOK, NoCall
<1>2. call[t].wish.stopat \in Nat /\ call[t].ids \in Seq({call[t].ids[i] : i \in DOMAIN call[t].ids})
  BY <1>1, RequestAssumption
<1> QED BY <1>2

\* Its matches can be counted.
LEMMA HitsFinite ==
  ASSUME TypeOK, NEW t \in Threads, call[t].op = "find"
  PROVE  IsFiniteSet(Hits(t))
<1>1. Len(devices) \in Nat /\ DOMAIN devices = 1 .. Len(devices)
  BY DEF TypeOK
<1>2. IsFiniteSet(DOMAIN devices)
  BY <1>1, FS_Interval
<1>3. IsFiniteSet(DOMAIN call[t].ids)
  <2>1. Len(call[t].ids) \in Nat /\ DOMAIN call[t].ids = 1 .. Len(call[t].ids)
    BY FindCall
  <2> QED BY <2>1, FS_Interval
<1>4. IsFiniteSet((DOMAIN devices) \X (DOMAIN call[t].ids))
  BY <1>2, <1>3, FS_Product
<1>5. Hits(t) \in SUBSET ((DOMAIN devices) \X (DOMAIN call[t].ids))
  BY DEF Hits
<1> QED BY <1>4, <1>5, FS_Subset

\* Each is a place on the list of devices and one on the list of identifiers.
LEMMA HitPlaces ==
  ASSUME TypeOK, NEW t \in Threads, call[t].op = "find", NEW p \in Hits(t)
  PROVE  p[1] \in 1 .. Len(devices) /\ p[2] \in 1 .. Len(call[t].ids) /\ p = <<p[1], p[2]>>
<1>1. DOMAIN devices = 1 .. Len(devices)
  BY DEF TypeOK
<1> QED BY <1>1, FindCall DEF Hits

\* In front of a device, those up to the one before it are counted.
LEMMA HitsBefore ==
  ASSUME TypeOK, NEW t \in Threads, call[t].op = "find", NEW i \in Nat
  PROVE  /\ IsFiniteSet(HitsUpto(t, i)) /\ Cardinality(HitsUpto(t, i)) \in Nat
         /\ IsFiniteSet(Counted(t)) /\ Cardinality(Counted(t)) \in Nat
<1>1. HitsUpto(t, i) \in SUBSET Hits(t) /\ Counted(t) \in SUBSET Hits(t)
  BY DEF HitsUpto, Counted
<1>2. IsFiniteSet(HitsUpto(t, i)) /\ IsFiniteSet(Counted(t))
  BY <1>1, HitsFinite, FS_Subset
<1> QED BY <1>2, FS_CardinalityType

\* The matches with the next identifier of the device, and behind the last one.
LEMMA CountNext ==
  ASSUME TypeOK, NEW t \in Threads, call[t].op = "find", pos[t] \in DOMAIN devices,
         item[t] \in 1 .. Len(call[t].ids),
         NEW more, more = {p \in Hits(t) : p[1] < pos[t] \/ (p[1] = pos[t] /\ p[2] < item[t] + 1)}
  PROVE  /\ <<pos[t], item[t]>> \in Hits(t) => Cardinality(more) = Cardinality(Counted(t)) + 1
         /\ <<pos[t], item[t]>> \notin Hits(t) => more = Counted(t)
<1> DEFINE here == <<pos[t], item[t]>>
<1>1. pos[t] \in Nat /\ item[t] \in Nat
  BY DEF TypeOK
<1>2. \A p \in Hits(t) : p[1] \in Nat /\ p[2] \in Nat /\ p = <<p[1], p[2]>>
  BY HitPlaces
<1>3. here \notin Counted(t)
  BY <1>1 DEF Counted
<1>4. ASSUME here \in Hits(t) PROVE more = Counted(t) \cup {here}
  <2>1. \A p \in more : p \in Counted(t) \/ p = here
    BY <1>1, <1>2 DEF Counted
  <2>2. \A p \in Counted(t) : p \in more
    BY <1>1, <1>2 DEF Counted
  <2>3. here \in more
    BY <1>1, <1>4
  <2> QED BY <2>1, <2>2, <2>3
<1>5. ASSUME here \notin Hits(t) PROVE more = Counted(t)
  <2>1. \A p \in more : p \in Counted(t)
    BY <1>1, <1>2, <1>5 DEF Counted
  <2>2. \A p \in Counted(t) : p \in more
    BY <1>1, <1>2 DEF Counted
  <2>3. more \subseteq Hits(t) /\ Counted(t) \subseteq Hits(t)
    BY DEF Counted
  <2> QED BY <2>1, <2>2
<1>6. IsFiniteSet(Counted(t)) /\ Cardinality(Counted(t)) \in Nat
  BY HitsBefore
<1>7. Cardinality(Counted(t) \cup {here}) = Cardinality(Counted(t)) + 1
  BY <1>3, <1>6, FS_AddElement
<1> QED BY <1>4, <1>5, <1>7

\* At the first identifier, and behind the last one.
LEMMA CountEnds ==
  ASSUME TypeOK, NEW t \in Threads, call[t].op = "find", pos[t] \in DOMAIN devices
  PROVE  /\ {p \in Hits(t) : p[1] < pos[t] \/ (p[1] = pos[t] /\ p[2] < 1)} = HitsUpto(t, pos[t] - 1)
         /\ item[t] = Len(call[t].ids) + 1 => Counted(t) = HitsUpto(t, pos[t])
<1>1. pos[t] \in Nat /\ Len(call[t].ids) \in Nat
  BY FindCall DEF TypeOK
<1>2. \A p \in Hits(t) : p[1] \in Nat /\ p[2] \in 1 .. Len(call[t].ids)
  BY HitPlaces
<1>3. \A p \in Hits(t) : (p[1] < pos[t] \/ (p[1] = pos[t] /\ p[2] < 1)) <=> p[1] <= pos[t] - 1
  BY <1>1, <1>2
<1>4. ASSUME item[t] = Len(call[t].ids) + 1
      PROVE  \A p \in Hits(t) : (p[1] < pos[t] \/ (p[1] = pos[t] /\ p[2] < item[t])) <=> p[1] <= pos[t]
  BY <1>1, <1>2, <1>4
<1> QED BY <1>3, <1>4 DEF HitsUpto, Counted

\* Once the library is ready nobody scans and the selection stands.
LEMMA ReadyStays ==
  ASSUME BothInv, [Next]_vars, Ready
  PROVE  UNCHANGED <<sysfs, devices, pdevLibPCI, once, devPCIInit_result>>
<1> USE DEF BothInv, regVars, initVars, threadVars, busVars, listVars
<1>0. /\ once = "done" /\ pdevLibPCI # NoDriver
      /\ \A u \in Threads : pc[u] \notin Initialising
  BY DEF Ready, ListInv, LockInv, InitInv
<1>1. CASE UNCHANGED vars
  BY <1>1 DEF vars
<1>2. CASE Next
  <2>0. PICK t \in Threads : (Select(t) \/ Request(t) \/ Step(t)) /\ UNCHANGED sysfs
    BY <1>2 DEF Next
  <2>1. CASE Select(t)
    BY <1>0, <2>0, <2>1 DEF Select, RegisterDriver, Use
  <2>2. CASE Request(t)
    BY <2>0, <2>2 DEF Request, Call
  <2>3. CASE (StartInit(t) \/ PastInit(t) \/ SelectDriver(t) \/ Return(t)) /\ UNCHANGED busVars
    BY <1>0, <2>0, <2>3 DEF StartInit, PastInit, SelectDriver, Return, Initialising
  <2>4. CASE DevInit(t)
    BY <1>0, <2>4 DEF DevInit, InitOpen, InitOther, InitFail, ScanEntry, ScanDone, ScanSlot, InitDone, Initialising
  <2>5. CASE Enter(t) \/ OtherFind(t) \/ FindStart(t) \/ Visit(t) \/ VisitDone(t) \/ MatchNot(t)
    BY <2>0, <2>5 DEF Enter, OtherFind, FindStart, Visit, VisitDone, MatchNot
  <2>6. CASE MatchWish(t) \/ MatchCall(t) \/ Callback(t) \/ CallbackSearch(t) \/ InnerVisit(t)
    BY <2>0, <2>6 DEF MatchWish, MatchCall, Callback, CallbackSearch, InnerVisit
  <2>7. CASE FirstTest(t) \/ DeviceLock(t) \/ MapBar(t) \/ KeepLock(t) \/ DeviceDone(t) \/ DisconnectWait(t) \/ DisconnectResume(t)
    BY <2>0, <2>7 DEF FirstTest, DeviceLock, MapBar, KeepLock, DeviceDone, DisconnectWait, DisconnectResume
  <2> QED BY <2>0, <2>1, <2>2, <2>3, <2>4, <2>5, <2>6, <2>7 DEF Step
<1> QED BY <1>1, <1>2

\* A step changes nothing of the other threads.
LEMMA OneMoves ==
  ASSUME TypeOK, NEW t \in Threads, Select(t) \/ Request(t) \/ Step(t), NEW u \in Threads \ {t}
  PROVE  /\ pc'[u] = pc[u] /\ call'[u] = call[u] /\ ret'[u] = ret[u] /\ found'[u] = found[u]
         /\ pos'[u] = pos[u] /\ item'[u] = item[u] /\ sofar'[u] = sofar[u]
<1> USE DEF TypeOK, regVars, initVars, threadVars, busVars, listVars, walkVars, Goto, Answer
<1>2. CASE Select(t)
  BY <1>2 DEF Select, RegisterDriver, Use
<1>3. CASE Request(t)
  BY <1>3 DEF Request, Call
<1>4. CASE (StartInit(t) \/ PastInit(t) \/ SelectDriver(t) \/ Return(t)) /\ UNCHANGED busVars
  BY <1>4 DEF StartInit, PastInit, SelectDriver, Return, InitEnds
<1>5. CASE DevInit(t)
  BY <1>5 DEF DevInit, InitOpen, InitOther, InitFail, ScanEntry, ScanDone, ScanSlot, InitDone, InitEnds
<1>6. CASE Enter(t) \/ OtherFind(t) \/ FindStart(t) \/ Visit(t)
  BY <1>6 DEF Enter, OtherFind, FindStart, Visit
<1>7. CASE VisitDone(t) \/ MatchNot(t)
  BY <1>7 DEF VisitDone, MatchNot, Forget
<1>8. CASE MatchWish(t) \/ MatchCall(t) \/ Callback(t)
  BY <1>8 DEF MatchWish, MatchCall, Callback, Stop, Forget
<1>9. CASE CallbackSearch(t) \/ InnerVisit(t)
  BY <1>9 DEF CallbackSearch, InnerVisit
<1>10. CASE FirstTest(t) \/ DeviceLock(t) \/ MapBar(t) \/ KeepLock(t) \/ DeviceDone(t) \/ DisconnectWait(t) \/ DisconnectResume(t)
  BY <1>10 DEF FirstTest, DeviceLock, MapBar, KeepLock, DeviceDone, DisconnectWait, DisconnectResume
<1> QED BY <1>2, <1>3, <1>4, <1>5, <1>6, <1>7, <1>8, <1>9, <1>10 DEF Step

\* What is known of a thread that does not move stays known.
LEMMA SoughtStays ==
  ASSUME BothInv, NEW u \in Threads, Sought(u),
         /\ pc'[u] = pc[u] /\ call'[u] = call[u] /\ ret'[u] = ret[u] /\ found'[u] = found[u]
         /\ pos'[u] = pos[u] /\ item'[u] = item[u] /\ sofar'[u] = sofar[u],
         Ready => UNCHANGED <<sysfs, devices, pdevLibPCI, once, devPCIInit_result>>
  PROVE  Sought(u)'
<1>1. CASE Ready
  <2>1. UNCHANGED <<sysfs, devices, pdevLibPCI, once, devPCIInit_result>> /\ Ready'
    BY <1>1 DEF Ready
  <2>2. Hits(u)' = Hits(u)
    BY <2>1 DEF Hits, Match, Wanted
  <2>3. Counted(u)' = Counted(u) /\ \A i : HitsUpto(u, i)' = HitsUpto(u, i)
    BY <2>2 DEF Counted, HitsUpto
  <2>4. HitsUpto(u, pos[u] - 1)' = HitsUpto(u, pos[u] - 1)
    BY <2>2 DEF HitsUpto
  <2>5. SearchInv(u)'
    BY <2>1, <2>3, <2>4 DEF SearchInv, Sought
  <2>6. /\ HitsUpto(u, found[u] - 1)' = HitsUpto(u, found[u] - 1)
        /\ HitsUpto(u, found[u])' = HitsUpto(u, found[u])
        /\ HitsUpto(u, Len(devices))' = HitsUpto(u, Len(devices))
    BY <2>1, <2>2 DEF HitsUpto
  <2>7. FoundInv(u)'
    BY <2>1, <2>6 DEF FoundInv, RightInstance, Sought
  <2> QED BY <2>5, <2>7 DEF Sought
<1>2. CASE ~Ready
  <2>1. pc[u] \notin Inside
    BY <1>2 DEF BothInv, LockInv, InitInv
  <2>2. ~(pc[u] = "return" /\ call[u].op = "find" /\ ret[u] \in {"ok", "S_dev_noDevice"})
    BY <1>2 DEF Sought, SearchInv
  <2> QED BY <2>1, <2>2 DEF Sought, SearchInv, FoundInv, RightInstance, Inside, Walking, AtDevice, OnDevice
<1> QED BY <1>1, <1>2

\* Nothing is asked of a thread outside the driver that does not return from
\* a search.
LEMMA Elsewhere ==
  ASSUME NEW t \in Threads, pc'[t] \notin Inside,
         pc'[t] = "return" => call'[t].op # "find" \/ ret'[t] \notin {"ok", "S_dev_noDevice"}
  PROVE  Sought(t)'
BY DEF Sought, SearchInv, FoundInv, RightInstance, Inside, Walking, AtDevice, OnDevice

\* The library's own steps, and devInit().
LEMMA LibrarySeeks ==
  ASSUME BothInv, NEW t \in Threads, Sought(t),
         \/ Select(t) \/ Request(t) \/ StartInit(t) \/ PastInit(t) \/ SelectDriver(t) \/ Return(t)
         \/ DevInit(t)
  PROVE  Sought(t)'
<1>0. pc \in [Threads -> Points] /\ ret \in [Threads -> {"ok"} \cup Errors] /\ call \in [Threads -> Asked \cup {NoCall}]
  BY DEF BothInv, LockInv, TypeOK
<1> USE <1>0 DEF Goto, Answer, regVars, initVars, threadVars, busVars, listVars
<1>1. CASE Select(t)
  BY <1>1, Elsewhere DEF Select, RegisterDriver, Use, Inside
<1>2. CASE Request(t)
  BY <1>2, Elsewhere DEF Request, Call, Inside
<1>3. CASE StartInit(t) \/ SelectDriver(t) \/ Return(t)
  BY <1>3, Elsewhere DEF StartInit, SelectDriver, InitEnds, Return, Inside
<1>4. CASE PastInit(t)
  <2>1. devPCIInit_result \notin {"ok", "S_dev_noDevice"} \/ devPCIInit_result = "ok"
    BY DEF BothInv, ListInv
  <2> QED BY <1>4, <2>1, Elsewhere DEF PastInit, Inside
<1>5. CASE DevInit(t)
  <2>1. pc'[t] \in {"scan", "slots", "once"}
    BY <1>5 DEF DevInit, InitOpen, InitOther, InitFail, ScanEntry, ScanDone, ScanSlot, InitDone, InitEnds
  <2> QED BY <2>1, Elsewhere DEF Inside
<1> QED BY <1>1, <1>2, <1>3, <1>4, <1>5

\* Into the driver, and the search of another one.
LEMMA EnterSeeks ==
  ASSUME BothInv, NEW t \in Threads, Sought(t), Enter(t) \/ OtherFind(t)
  PROVE  Sought(t)'
<1>0. pc \in [Threads -> Points] /\ ret \in [Threads -> {"ok"} \cup Errors]
  BY DEF BothInv, LockInv, TypeOK
<1> USE <1>0 DEF Goto, Answer, regVars, initVars, busVars, listVars
<1>1. CASE Enter(t)
  <2>1. call[t].op = "find" => Refusal(pdevLibPCI, call[t]) = "ok"
    BY DEF Refusal
  <2>2. CASE Refusal(pdevLibPCI, call[t]) # "ok"
    BY <1>1, <2>1, <2>2, Elsewhere DEF Enter, Inside
  <2>3. CASE Refusal(pdevLibPCI, call[t]) = "ok"
    <3>1. /\ pc'[t] = IF pdevLibPCI # Linux THEN "other"
                      ELSE IF call[t].op = "find" THEN "find"
                      ELSE IF call[t].op = "bar" THEN "base" ELSE "device"
          /\ pdevLibPCI' = pdevLibPCI /\ call' = call
      BY <1>1, <2>3 DEF Enter
    <3>2. pc'[t] \in {"other", "find", "base", "device"}
      BY <3>1
    <3> QED BY <3>1, <3>2 DEF Sought, SearchInv, FoundInv, RightInstance, Walking, AtDevice, OnDevice
  <2> QED BY <2>2, <2>3
<1>2. CASE OtherFind(t)
  <2>1. Ready
    BY <1>2 DEF OtherFind, BothInv, LockInv, InitInv, Inside
  <2>2. pdevLibPCI # Linux /\ pc'[t] = "return" /\ pdevLibPCI' = pdevLibPCI /\ Ready'
    BY <1>2, <2>1 DEF OtherFind, Sought, SearchInv, Ready
  <2> QED BY <2>2 DEF Sought, SearchInv, FoundInv, RightInstance, Walking, AtDevice, OnDevice
<1> QED BY <1>1, <1>2

\* The calls for a device are no searches.
LEMMA DeviceSeeks ==
  ASSUME BothInv, NEW t \in Threads, Sought(t),
         FirstTest(t) \/ DeviceLock(t) \/ MapBar(t) \/ KeepLock(t) \/ DeviceDone(t) \/ DisconnectWait(t) \/ DisconnectResume(t)
  PROVE  Sought(t)'
<1>0. pc \in [Threads -> Points]
  BY DEF BothInv, LockInv, TypeOK
<1>1. /\ pc'[t] \in {"device", "held", "waiting", "stranded", "stopped", "return"} /\ call'[t] = call[t]
      /\ pc[t] \in OnDevice
  BY <1>0 DEF OnDevice, busVars, FirstTest, DeviceLock, MapBar, KeepLock, DeviceDone, DisconnectWait, DisconnectResume, Goto, Answer
<1>2. call'[t].op # "find"
  BY <1>1 DEF Sought, SearchInv
<1> QED BY <1>1, <1>2 DEF Sought, SearchInv, FoundInv, RightInstance, Walking, AtDevice, OnDevice

\* A search made by a callback, and callbacks, are not devmatch().
LEMMA CallbackSeeks ==
  ASSUME BothInv, NEW t \in Threads, Sought(t),
         MatchCall(t) \/ Callback(t) \/ CallbackSearch(t) \/ InnerVisit(t)
  PROVE  Sought(t)'
<1>0. /\ pc \in [Threads -> Points] /\ pos \in [Threads -> Nat]
      /\ pc[t] \in AtDevice /\ Ready
  BY DEF BothInv, LockInv, TypeOK, InitInv, MatchCall, Callback, CallbackSearch, InnerVisit, AtDevice, Inside
<1>1. call[t].fn = "user" /\ call'[t] = call[t] /\ Ready'
  BY <1>0 DEF MatchCall, Callback, CallbackSearch, InnerVisit, Sought, SearchInv, initVars, Ready
<1>2. \/ pc'[t] = "return"
      \/ pc'[t] \in AtDevice /\ pos'[t] = pos[t]
  BY <1>0 DEF MatchCall, Callback, CallbackSearch, InnerVisit, Goto, Answer, Stop, busVars, walkVars, AtDevice
<1>3. pos[t] >= 1
  BY <1>0 DEF Sought, SearchInv, Walking
<1> QED BY <1>1, <1>2, <1>3 DEF Sought, SearchInv, FoundInv, RightInstance, Walking, AtDevice, OnDevice

\* What a step of a search leaves alone, so that its matches stay the same.
LEMMA SameHits ==
  ASSUME NEW t \in Threads, UNCHANGED <<devices, call>>
  PROVE  /\ Hits(t)' = Hits(t)
         /\ \A i : {p \in Hits(t)' : p[1] <= i} = HitsUpto(t, i)
BY DEF Hits, HitsUpto, Match, Wanted

\* devmatch() begins to count in front of the first device.
LEMMA StartSeeks ==
  ASSUME BothInv, NEW t \in Threads, Sought(t), FindStart(t)
  PROVE  Sought(t)'
<1>1. /\ pc[t] = "find" /\ pc'[t] = "visit" /\ pos'[t] = 1 /\ sofar'[t] = 0
      /\ UNCHANGED <<devices, call>> /\ call[t].op = "find"
  BY DEF FindStart, Goto, BothInv, LockInv, TypeOK, CallInv, listVars
<1>2. call[t].wish.stopat \in Nat
  BY <1>1, FindCall DEF BothInv, LockInv
<1>3. HitsUpto(t, pos[t] - 1)' = {}
  <2>1. HitsUpto(t, pos[t] - 1)' = {p \in Hits(t)' : p[1] <= 0}
    BY <1>1 DEF HitsUpto
  <2>2. \A p \in Hits(t) : ~(p[1] <= 0)
    BY <1>1, HitPlaces DEF BothInv, LockInv
  <2> QED BY <1>1, <2>1, <2>2, SameHits
<1>4. Cardinality(HitsUpto(t, pos[t] - 1)') = 0
  BY <1>3, FS_EmptySet
<1>5. SearchInv(t)'
  BY <1>1, <1>2, <1>4 DEF SearchInv, Walking, AtDevice, OnDevice
<1>6. FoundInv(t)'
  BY <1>1 DEF FoundInv
<1> QED BY <1>5, <1>6 DEF Sought

\* It goes on to the next device, or is at the end of the list.
LEMMA VisitSeeks ==
  ASSUME BothInv, NEW t \in Threads, Sought(t), Visit(t) \/ VisitDone(t)
  PROVE  Sought(t)'
<1>0. /\ pc[t] = "visit" /\ UNCHANGED <<devices, call, pdevLibPCI>> /\ call[t].op = "find"
      /\ pc \in [Threads -> Points] /\ pos[t] \in Nat /\ pos[t] >= 1
  BY DEF Visit, VisitDone, BothInv, LockInv, TypeOK, CallInv, listVars, regVars, Walking, AtDevice, OnDevice, Sought, SearchInv
<1>1. call[t].fn = "devmatch" => sofar[t] <= call[t].wish.stopat /\ sofar[t] = Cardinality(HitsUpto(t, pos[t] - 1))
  BY <1>0 DEF Sought, SearchInv, Walking
<1>2. CASE Visit(t)
  <2>1. /\ pc'[t] = "match" /\ pos' = pos /\ item'[t] = 1 /\ sofar' = sofar /\ pos[t] \in DOMAIN devices
    BY <1>0, <1>2 DEF Visit, Goto, BothInv, LockInv, TypeOK
  <2>2. Counted(t)' = {p \in Hits(t) : p[1] < pos[t] \/ (p[1] = pos[t] /\ p[2] < 1)}
    BY <1>0, <2>1, SameHits DEF Counted
  <2>3. Counted(t)' = HitsUpto(t, pos[t] - 1)
    BY <1>0, <2>1, <2>2, CountEnds DEF BothInv, LockInv
  <2>4. item'[t] \in 1 .. Len(call'[t].ids) + 1
    BY <1>0, <2>1, FindCall DEF BothInv, LockInv
  <2>5. SearchInv(t)'
    BY <1>0, <1>1, <2>1, <2>3, <2>4 DEF SearchInv, Walking, AtDevice, OnDevice
  <2>6. FoundInv(t)'
    BY <2>1 DEF FoundInv
  <2> QED BY <2>5, <2>6 DEF Sought
<1>3. CASE VisitDone(t)
  <2>1. /\ pc'[t] = "return" /\ pos[t] \notin DOMAIN devices /\ UNCHANGED initVars
        /\ ret'[t] = IF call[t].fn = "devmatch" THEN "S_dev_noDevice" ELSE "ok"
    BY <1>0, <1>3 DEF VisitDone, Answer, Goto, BothInv, LockInv, TypeOK
  <2>2. Ready'
    BY <1>0, <2>1 DEF BothInv, LockInv, InitInv, Ready, Inside, initVars
  <2>3. SearchInv(t)'
    BY <1>0, <2>1, <2>2 DEF SearchInv, Walking, AtDevice, OnDevice
  <2>4. ASSUME call[t].fn = "devmatch" PROVE RightInstance(t)'
    <3>1. Len(devices) \in Nat /\ pos[t] - 1 >= Len(devices)
      BY <1>0, <2>1 DEF BothInv, LockInv, TypeOK
    <3>2. HitsUpto(t, Len(devices))' = HitsUpto(t, Len(devices))
      BY <1>0, SameHits DEF HitsUpto
    <3>3. \A p \in Hits(t) : p[1] \in 1 .. Len(devices)
      BY <1>0, HitPlaces DEF BothInv, LockInv
    <3>4. HitsUpto(t, Len(devices)) = HitsUpto(t, pos[t] - 1)
      BY <1>0, <3>1, <3>3 DEF HitsUpto
    <3> QED BY <1>0, <1>1, <2>1, <2>4, <3>2, <3>4 DEF RightInstance
  <2>5. FoundInv(t)'
    BY <1>0, <2>4 DEF FoundInv
  <2> QED BY <2>3, <2>5 DEF Sought
<1> QED BY <1>2, <1>3

\* An identifier that does not match, or the last one behind it.
LEMMA NotSeeks ==
  ASSUME BothInv, NEW t \in Threads, Sought(t), MatchNot(t)
  PROVE  Sought(t)'
<1>0. /\ pc[t] = "match" /\ UNCHANGED <<devices, call, sofar>> /\ call[t].op = "find"
      /\ pc \in [Threads -> Points] /\ pos \in [Threads -> Nat] /\ pos[t] >= 1 /\ pos[t] \in DOMAIN devices
      /\ item \in [Threads -> Nat]
  BY DEF MatchNot, BothInv, LockInv, TypeOK, CallInv, listVars, Walking, AtDevice, OnDevice, Sought, SearchInv
<1>1. call[t].fn = "devmatch" =>
        /\ sofar[t] <= call[t].wish.stopat /\ sofar[t] = Cardinality(Counted(t))
        /\ item[t] \in 1 .. Len(call[t].ids) + 1
  BY <1>0 DEF Sought, SearchInv, Walking, AtDevice, OnDevice
<1>2. TypeOK /\ Len(call[t].ids) \in Nat /\ DOMAIN call[t].ids = 1 .. Len(call[t].ids)
  BY <1>0, FindCall DEF BothInv, LockInv
<1>3. CASE item[t] \in DOMAIN call[t].ids
  <2>1. pc' = pc /\ pos' = pos /\ item'[t] = item[t] + 1 /\ ~Matches(t)
    BY <1>0, <1>3 DEF MatchNot
  <2>2. Counted(t)' = {p \in Hits(t) : p[1] < pos[t] \/ (p[1] = pos[t] /\ p[2] < item[t] + 1)}
    BY <1>0, <2>1, SameHits DEF Counted
  <2>3. <<pos[t], item[t]>> \notin Hits(t)
    BY <2>1 DEF Hits, Matches, Dev
  <2>4. Counted(t)' = Counted(t)
    BY <1>0, <1>2, <1>3, <2>2, <2>3, CountNext
  <2>5. item'[t] \in 1 .. Len(call[t].ids) + 1
    BY <1>2, <1>3, <2>1
  <2>6. SearchInv(t)'
    BY <1>0, <1>1, <2>1, <2>4, <2>5 DEF SearchInv, Walking, AtDevice, OnDevice
  <2>7. FoundInv(t)'
    BY <1>0, <2>1 DEF FoundInv
  <2> QED BY <2>6, <2>7 DEF Sought
<1>4. CASE item[t] \notin DOMAIN call[t].ids
  <2>1. pc'[t] = "visit" /\ pos'[t] = pos[t] + 1
    BY <1>0, <1>4 DEF MatchNot, Goto
  <2>2. HitsUpto(t, pos[t] - 1)' = HitsUpto(t, pos[t])
    <3>1. pos'[t] - 1 = pos[t]
      BY <1>0, <2>1
    <3>2. HitsUpto(t, pos[t] - 1)' = {p \in Hits(t)' : p[1] <= pos[t]}
      BY <3>1 DEF HitsUpto
    <3> QED BY <1>0, <3>2, SameHits
  <2>3. call[t].fn = "devmatch" => Counted(t) = HitsUpto(t, pos[t])
    <3>1. call[t].fn = "devmatch" => item[t] = Len(call[t].ids) + 1
      <4>1. item[t] \notin 1 .. Len(call[t].ids) /\ Len(call[t].ids) \in Nat
        BY <1>2, <1>4
      <4>2. \A n \in Nat : \A i \in 1 .. n + 1 : i \notin 1 .. n => i = n + 1
        OBVIOUS
      <4> QED BY <1>1, <4>1, <4>2
    <3> QED BY <1>0, <1>2, <3>1, CountEnds
  <2>4. pos'[t] >= 1
    BY <1>0, <2>1
  <2>5. SearchInv(t)'
    BY <1>0, <1>1, <2>1, <2>2, <2>3, <2>4 DEF SearchInv, Walking, AtDevice, OnDevice
  <2>6. FoundInv(t)'
    BY <2>1 DEF FoundInv
  <2> QED BY <2>5, <2>6 DEF Sought
<1> QED BY <1>3, <1>4

\* A match is counted, or is the instance asked for.
LEMMA WishSeeks ==
  ASSUME BothInv, NEW t \in Threads, Sought(t), MatchWish(t)
  PROVE  Sought(t)'
<1>0. /\ pc[t] = "match" /\ UNCHANGED <<devices, call, pdevLibPCI, once, devPCIInit_result>>
      /\ call[t].op = "find" /\ call[t].fn = "devmatch" /\ Ready
      /\ pc \in [Threads -> Points] /\ pos \in [Threads -> Nat] /\ pos[t] >= 1 /\ pos[t] \in DOMAIN devices
      /\ item \in [Threads -> Nat] /\ sofar \in [Threads -> Nat] /\ found \in [Threads -> DOMAIN devices \cup {NoDevice}]
      /\ ret \in [Threads -> {"ok"} \cup Errors]
      /\ item[t] \in DOMAIN call[t].ids /\ Matches(t)
  BY DEF MatchWish, BothInv, LockInv, TypeOK, InitInv, CallInv, listVars, regVars, initVars, Inside, Walking, AtDevice, OnDevice, Sought, SearchInv
<1>1. sofar[t] <= call[t].wish.stopat /\ sofar[t] = Cardinality(Counted(t))
  BY <1>0 DEF Sought, SearchInv, Walking, AtDevice, OnDevice
<1>2. /\ TypeOK /\ Len(call[t].ids) \in Nat /\ DOMAIN call[t].ids = 1 .. Len(call[t].ids)
      /\ call[t].wish.stopat \in Nat
  BY <1>0, FindCall DEF BothInv, LockInv
<1>3. <<pos[t], item[t]>> \in Hits(t) <=> Wanted(call[t].wish, Dev(t))
  BY <1>0 DEF Hits, Matches, Dev
<1> DEFINE more == {p \in Hits(t) : p[1] < pos[t] \/ (p[1] = pos[t] /\ p[2] < item[t] + 1)}
<1>4. /\ <<pos[t], item[t]>> \in Hits(t) => Cardinality(more) = Cardinality(Counted(t)) + 1
      /\ <<pos[t], item[t]>> \notin Hits(t) => more = Counted(t)
  BY <1>0, <1>2, CountNext
<1>5. CASE IsIt(t)
  <2>1. /\ pc'[t] = "return" /\ ret'[t] = "ok" /\ found'[t] = pos[t]
    BY <1>0, <1>5 DEF MatchWish, Stop, Answer, Goto
  <2>2. Wanted(call[t].wish, Dev(t)) /\ sofar[t] = call[t].wish.stopat
    BY <1>5 DEF IsIt
  <2>3. Cardinality(HitsUpto(t, pos[t] - 1)) <= call[t].wish.stopat
    <3>1. HitsUpto(t, pos[t] - 1) \in SUBSET Counted(t)
      <4>1. \A p \in Hits(t) : p[1] \in Nat
        BY <1>0, <1>2, HitPlaces
      <4> QED BY <1>0, <4>1 DEF HitsUpto, Counted
    <3>2. IsFiniteSet(Counted(t))
      BY <1>0, <1>2, HitsBefore
    <3>3. Cardinality(HitsUpto(t, pos[t] - 1)) <= Cardinality(Counted(t))
      BY <3>1, <3>2, FS_Subset
    <3> QED BY <1>1, <2>2, <3>3
  <2>4. call[t].wish.stopat < Cardinality(HitsUpto(t, pos[t]))
    <3>1. more \in SUBSET HitsUpto(t, pos[t])
      <4>1. \A p \in Hits(t) : p[1] \in Nat
        BY <1>0, <1>2, HitPlaces
      <4> QED BY <1>0, <4>1 DEF HitsUpto
    <3>2. IsFiniteSet(HitsUpto(t, pos[t])) /\ Cardinality(HitsUpto(t, pos[t])) \in Nat
      BY <1>0, <1>2, HitsBefore
    <3>3. Cardinality(more) <= Cardinality(HitsUpto(t, pos[t]))
      BY <3>1, <3>2, FS_Subset
    <3>4. Cardinality(more) = call[t].wish.stopat + 1
      BY <1>1, <1>3, <1>4, <2>2
    <3> HIDE DEF more
    <3> QED BY <1>2, <3>2, <3>3, <3>4
  <2>5. /\ HitsUpto(t, found[t] - 1)' = HitsUpto(t, pos[t] - 1)
        /\ HitsUpto(t, found[t])' = HitsUpto(t, pos[t])
    BY <1>0, <2>1, SameHits DEF HitsUpto
  <2>6. RightInstance(t)'
    BY <1>0, <2>1, <2>3, <2>4, <2>5 DEF RightInstance
  <2>7. SearchInv(t)'
    BY <1>0, <2>1 DEF SearchInv, Walking, AtDevice, OnDevice, Ready
  <2> QED BY <2>6, <2>7 DEF Sought, FoundInv
<1>6. CASE ~IsIt(t)
  <2>1. /\ pc' = pc /\ pos' = pos /\ item'[t] = item[t] + 1
        /\ sofar'[t] = IF Wanted(call[t].wish, Dev(t)) THEN sofar[t] + 1 ELSE sofar[t]
    BY <1>0, <1>6 DEF MatchWish
  <2>2. Counted(t)' = more
    BY <1>0, <2>1, SameHits DEF Counted
  <2>3. sofar'[t] = Cardinality(Counted(t)')
    BY <1>1, <1>3, <1>4, <2>1, <2>2
  <2>4. sofar'[t] <= call'[t].wish.stopat
    <3>1. sofar[t] \in Nat
      BY <1>0
    <3> QED BY <1>0, <1>1, <1>2, <1>6, <2>1, <3>1 DEF IsIt
  <2>5. item'[t] \in 1 .. Len(call'[t].ids) + 1
    BY <1>0, <1>2, <2>1
  <2>6. SearchInv(t)'
    BY <1>0, <2>1, <2>3, <2>4, <2>5 DEF SearchInv, Walking, AtDevice, OnDevice
  <2>7. FoundInv(t)'
    BY <1>0, <2>1 DEF FoundInv
  <2> QED BY <2>6, <2>7 DEF Sought
<1> QED BY <1>5, <1>6

\* No step disturbs what is known of any search.
LEMMA SearchKeeps ==
  ASSUME BothInv, \A t \in Threads : Sought(t), [Next]_vars
  PROVE  \A t \in Threads : Sought(t)'
<1>1. CASE UNCHANGED vars
  <2>1. Ready => UNCHANGED <<sysfs, devices, pdevLibPCI, once, devPCIInit_result>>
    BY ReadyStays
  <2> QED BY <1>1, <2>1, SoughtStays DEF vars, regVars, initVars, threadVars, busVars, listVars, walkVars
<1>2. CASE Next
  <2>0. PICK t \in Threads : (Select(t) \/ Request(t) \/ Step(t)) /\ UNCHANGED sysfs
    BY <1>2 DEF Next
  <2>1. Sought(t)'
    BY <2>0, LibrarySeeks, EnterSeeks, StartSeeks, VisitSeeks, NotSeeks, WishSeeks, CallbackSeeks, DeviceSeeks
    DEF Step
  <2>2. ASSUME NEW u \in Threads \ {t} PROVE Sought(u)'
    <3>1. Ready => UNCHANGED <<sysfs, devices, pdevLibPCI, once, devPCIInit_result>>
      BY ReadyStays
    <3>2. /\ pc'[u] = pc[u] /\ call'[u] = call[u] /\ ret'[u] = ret[u] /\ found'[u] = found[u]
          /\ pos'[u] = pos[u] /\ item'[u] = item[u] /\ sofar'[u] = sofar[u]
      BY <2>0, <2>2, OneMoves DEF BothInv, LockInv
    <3> QED BY <2>2, <3>1, <3>2, SoughtStays
  <2> QED BY <2>1, <2>2
<1> QED BY <1>1, <1>2

\* All of it in every reachable state.
LEMMA SearchAlways == Spec => [](IInv /\ FoundIsInstance)
<1>1. Init => \A t \in Threads : Sought(t)
  BY DEF Init, LibInit, Sought, SearchInv, FoundInv, RightInstance, Walking, AtDevice, OnDevice
<1>2. BothInv /\ (\A t \in Threads : Sought(t)) /\ [Next]_vars => (\A t \in Threads : Sought(t))'
  BY SearchKeeps
<1>3. LockInv /\ ListInv <=> BothInv
  BY DEF BothInv
<1>4. BothInv /\ (\A t \in Threads : Sought(t)) => IInv /\ FoundIsInstance
  BY DEF BothInv, Sought, FoundInv, IInv, FoundIsInstance
<1> QED BY <1>1, <1>2, <1>3, <1>4, ListAlways, PTL DEF Spec

\* linuxDevPCIFindCB() and the calls for a device: in every reachable state the
\* locks are held exactly where the code says, by one thread each, the library
\* was initialised by one thread before anybody entered a driver, the list holds
\* the entries read, and devmatch() has counted the matches it was called for.
THEOREM Inductive == Spec => []IInv
BY SearchAlways, PTL

\* devPCIFindSpec() and devPCIFindDBDF(): whatever the other threads search, map
\* and connect meanwhile, a search that ends with a device ends with the match
\* of the number asked for, and one that ends without has passed fewer.
THEOREM RightDevice == Spec => []FoundIsInstance
BY SearchAlways, PTL
=============================================================================
