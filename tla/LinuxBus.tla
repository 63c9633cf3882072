------------------------------- MODULE LinuxBus -------------------------------
(***************************************************************************)
(* The Linux driver behind the PCI library: the list of devices that       *)
(* linuxDevPCIInit() reads from sysfs, linuxDevPCIFindCB() that walks it   *)
(* under pciLock and one devLock after the other, and the calls that take  *)
(* the devLock of the device they are made for                             *)
(* (pciApp/os/Linux/devLibPCIOSD.c).                                       *)
(*                                                                         *)
(* What the calls do to a device with its devLock is PciMap and UioIsr;    *)
(* here it is who holds which lock and waits for which.                    *)
(***************************************************************************)
EXTENDS DevLibPCI, FiniteSets

CONSTANTS
  Linux,     \* the driver plinuxPCI
  Listings,  \* what readdir() of /sys/bus/pci/devices may return: sequences
             \* of device directories [addr, id, attrs, lines]
  MayFail,   \* addresses of devices whose resource file may be missing
  Slots,     \* slot directories: [label, addr], addr without the function
  NoOne,     \* a lock that is free
  PageSize,  \* of the mapped resources
  LenMod     \* 2^32: lengths are epicsUInt32

ASSUME LinuxAssumption == Linux \in Drivers
ASSUME NoOneAssumption == NoOne \notin Threads
ASSUME WidthAssumption == PageSize \in Nat \ {0} /\ LenMod \in Nat \ {0}
ASSUME ListingsAssumption == \A l \in Listings : l \in Seq({l[i] : i \in DOMAIN l})
ASSUME RequestAssumption ==
  \A r \in Asked : r.op = "find" =>
    r.wish.stopat \in Nat /\ r.ids \in Seq({r.ids[i] : i \in DOMAIN r.ids})

VARIABLES
  sysfs,      \* the device directories, in the order readdir() returns them
  devices,    \* the list, of [entry, addr, id, slot, bar]
  leaked,     \* entries whose osdPCIDevice was allocated and dropped
  next,       \* the next directory entry to read
  host_is_first, \* the device that was listed first is the host bridge
  mapped,     \* the BARs whose base is set, of [entry, bar]
  kept,       \* entries whose devLock a call took with it when it returned
  pciLock,    \* "none", "live", "destroyed"
  pciOwner,   \* who holds pciLock
  devOwner,   \* who holds the devLock of each entry
  pos,        \* where each search is in the list
  item,       \* where it is in its list of identifiers
  sofar,      \* bdfmatch.sofar
  inner,      \* where a search made by a callback is in the list
  found       \* the device each thread has found, an index of the list

listVars == <<devices, leaked, next, host_is_first, mapped, kept>>
lockVars == <<pciLock, pciOwner, devOwner>>
walkVars == <<pos, item, sofar, inner>>
busVars == <<listVars, lockVars, walkVars, found>>
vars == <<sysfs, regVars, initVars, threadVars, busVars>>

Init ==
  /\ LibInit
  /\ sysfs \in Listings
  /\ devices = <<>> /\ leaked = {} /\ next = 1 /\ host_is_first = FALSE
  /\ mapped = {} /\ kept = {}
  /\ pciLock = "none" /\ pciOwner = NoOne
  /\ devOwner = [e \in DOMAIN sysfs |-> NoOne]
  /\ pos = [t \in Threads |-> 0]
  /\ item = [t \in Threads |-> 0]
  /\ sofar = [t \in Threads |-> 0]
  /\ inner = [t \in Threads |-> 0]
  /\ found = [t \in Threads |-> NoDevice]

\* The locks are recursive.
Free(owner, t) == owner \in {NoOne, t}

\* Unlock the devLock of e, which its owner may have locked once more than it
\* will unlock it.
Unlock(e) == devOwner' = [devOwner EXCEPT ![e] = IF e \in kept THEN @ ELSE NoOne]

-----------------------------------------------------------------------------
(* linuxDevPCIInit                                                         *)

\* The attributes, in the order in which they are read.
Attributes == <<"vendor", "device", "sub_vendor", "sub_device", "pci_class", "irq">>

\* The identifiers a driver compares and the attribute each is read from; no
\* file holds the revision, which is set to 0.
Place(f) == CHOOSE i \in DOMAIN Attributes : Attributes[i] = f
Readable(f) == \E i \in DOMAIN Attributes : Attributes[i] = f

\* vread_sysfs(): after the first attribute that cannot be read the others are
\* not read either, and 0 too.
ReadSysfs(e, f) ==
  IF /\ Readable(f)
     /\ \A i \in 1 .. Place(f) : Attributes[i] \in sysfs[e].attrs
  THEN sysfs[e].id[f]
  ELSE 0

ReadId(e) == [f \in Fields |-> ReadSysfs(e, f)]

\* One line of the resource file.  The length is truncated to 32 bits.
Region(line) ==
  [ioport |-> line.io, addr64 |-> line.wide, offset |-> line.start % PageSize,
   len |-> IF line.start = 0 /\ line.stop = 0 THEN 0
           ELSE (line.stop - line.start + 1) % LenMod]

NoRegion == [ioport |-> FALSE, addr64 |-> FALSE, offset |-> 0, len |-> 0]

\* A line that cannot be parsed is not skipped: the ones behind it fail too.
ReadBars(e) ==
  [b \in 1 .. BarCount |->
     IF b <= Len(sysfs[e].lines) THEN Region(sysfs[e].lines[b]) ELSE NoRegion]

Record(e) ==
  [entry |-> e, addr |-> sysfs[e].addr, id |-> ReadId(e), slot |-> NoSlot,
   bar |-> ReadBars(e)]

\* Device 0 of bus 0.
IsHost(dev) == dev.addr[2] = 0 /\ dev.addr[3] = 0

\* Mutant: new devices always go to the end.
AppendAlways(list, host, r) == Append(list, r)

\* Behind a list that was begun with the host bridge, otherwise before it.
Insert(list, host, r) == IF host THEN Append(list, r) ELSE <<r>> \o list

\* pciLock is made; then the page size and the directory may be unavailable.
InitOpen(t) ==
  /\ pc[t] = "init"
  /\ pdevLibPCI = Linux
  /\ pciLock' = "live"
  /\ Goto(t, "scan")
  /\ UNCHANGED <<regVars, initVars, call, ret, left, listVars, pciOwner, devOwner,
                 walkVars, found>>

\* Another driver initialises itself, or has no pDevInit.
InitOther(t) ==
  /\ pc[t] = "init"
  /\ pdevLibPCI # Linux
  /\ InitEnds(t, "ok")
  /\ UNCHANGED <<regVars, call, left, busVars>>

\* Mutant: the error path forgets its return value.
InitFailOk(t) ==
  /\ pc[t] = "scan"
  /\ pciLock' = "destroyed"
  /\ InitEnds(t, "ok")
  /\ UNCHANGED <<regVars, call, left, listVars, pciOwner, devOwner, walkVars, found>>

\* No directory or no memory: pciLock is destroyed, the list stays as it is.
InitFail(t) ==
  /\ pc[t] = "scan"
  /\ pciLock' = "destroyed"
  /\ InitEnds(t, "S_dev_badInit")
  /\ UNCHANGED <<regVars, call, left, listVars, pciOwner, devOwner, walkVars, found>>

ScanEntry(t) ==
  /\ pc[t] = "scan"
  /\ next \in DOMAIN sysfs
  /\ next' = next + 1
  /\ \/ /\ host_is_first' = IF devices = <<>> THEN IsHost(Record(next)) ELSE host_is_first
        /\ devices' = Insert(devices, host_is_first', Record(next))
        /\ UNCHANGED leaked
     \* The resource file cannot be opened.
     \/ /\ sysfs[next].addr \in MayFail
        /\ leaked' = leaked \cup {next}
        /\ UNCHANGED <<devices, host_is_first>>
  /\ UNCHANGED <<regVars, initVars, threadVars, lockVars, walkVars, found, mapped, kept>>

\* All entries are read; a kernel may have no directory of slots.
ScanDone(t) ==
  /\ pc[t] = "scan"
  /\ next \notin DOMAIN sysfs
  /\ next' = 1
  /\ \/ Goto(t, "slots") /\ UNCHANGED <<initVars, ret>>
     \/ InitEnds(t, "ok")
  /\ UNCHANGED <<regVars, call, left, devices, leaked, host_is_first, mapped, kept,
                 lockVars, walkVars, found>>

InSlot(dev, s) == dev.addr[1] = s.addr[1] /\ dev.addr[2] = s.addr[2] /\ dev.addr[3] = s.addr[3]

\* The first slot that names the address of a device labels it, unless its
\* files cannot be read.
ScanSlot(t) ==
  /\ pc[t] = "slots"
  /\ next \in DOMAIN Slots
  /\ next' = next + 1
  /\ \/ devices' = [i \in DOMAIN devices |->
          IF InSlot(devices[i], Slots[next]) /\ devices[i].slot = NoSlot
          THEN [devices[i] EXCEPT !.slot = Slots[next].label] ELSE devices[i]]
     \/ UNCHANGED devices
  /\ UNCHANGED <<regVars, initVars, threadVars, leaked, host_is_first, mapped, kept,
                 lockVars, walkVars, found>>

InitDone(t) ==
  /\ pc[t] = "slots"
  /\ next \notin DOMAIN Slots
  /\ InitEnds(t, "ok")
  /\ UNCHANGED <<regVars, call, left, busVars>>

\* linuxDevPCIInit(), behind a failure that may come at any entry.
DevInit(t) ==
  InitOpen(t) \/ InitOther(t) \/ InitFail(t) \/ ScanEntry(t) \/ ScanDone(t)
  \/ ScanSlot(t) \/ InitDone(t)

-----------------------------------------------------------------------------
(* Into the driver                                                         *)

\* The library refuses the call or enters the driver.
Enter(t) ==
  LET refusal == Refusal(pdevLibPCI, call[t]) IN
  /\ pc[t] = "enter"
  /\ IF refusal # "ok" THEN Answer(t, refusal)
     ELSE /\ Goto(t, IF pdevLibPCI # Linux THEN "other"
                     ELSE IF call[t].op = "find" THEN "find"
                     ELSE IF call[t].op = "bar" THEN "base" ELSE "device")
          /\ UNCHANGED ret
  /\ UNCHANGED <<regVars, initVars, call, left, busVars>>

\* External: another driver, on a bus without devices.
OtherFind(t) ==
  /\ pc[t] = "other"
  /\ Answer(t, IF call[t].fn = "devmatch" THEN "S_dev_noDevice" ELSE "ok")
  /\ UNCHANGED <<regVars, initVars, call, left, busVars>>

-----------------------------------------------------------------------------
(* linuxDevPCIFindCB                                                       *)

Dev(t) == devices[pos[t]]

\* The lock must exist: one that is destroyed lets nobody in.
FindStart(t) ==
  /\ pc[t] = "find"
  /\ pciLock = "live"
  /\ Free(pciOwner, t)
  /\ pciOwner' = t
  /\ pos' = [pos EXCEPT ![t] = 1]
  /\ sofar' = [sofar EXCEPT ![t] = 0]
  /\ Goto(t, "visit")
  /\ UNCHANGED <<regVars, initVars, call, ret, left, listVars, pciLock, devOwner,
                 item, inner, found>>

\* Take the devLock of the next device.
Visit(t) ==
  /\ pc[t] = "visit"
  /\ pos[t] \in DOMAIN devices
  /\ Free(devOwner[Dev(t).entry], t)
  /\ devOwner' = [devOwner EXCEPT ![Dev(t).entry] = t]
  /\ item' = [item EXCEPT ![t] = 1]
  /\ Goto(t, "match")
  /\ UNCHANGED <<regVars, initVars, call, ret, left, listVars, pciLock, pciOwner,
                 pos, sofar, inner, found>>

\* The locals of a search are gone when it returns.
Forget(t) ==
  /\ pos' = [pos EXCEPT ![t] = 0]
  /\ item' = [item EXCEPT ![t] = 0]
  /\ sofar' = [sofar EXCEPT ![t] = 0]

\* The search is over: what a devmatch() search has not found is an error.
VisitDone(t) ==
  /\ pc[t] = "visit"
  /\ pos[t] \notin DOMAIN devices
  /\ pciOwner' = NoOne
  /\ Answer(t, IF call[t].fn = "devmatch" THEN "S_dev_noDevice" ELSE "ok")
  /\ Forget(t)
  /\ UNCHANGED <<regVars, initVars, call, left, listVars, pciLock, devOwner,
                 inner, found>>

\* Mutant: the search is left without releasing devLock.
StopHoldsDevice(t, r) ==
  /\ pciOwner' = NoOne
  /\ Forget(t)
  /\ Answer(t, r)
  /\ UNCHANGED devOwner

\* The callback ended the search with r.
Stop(t, r) ==
  /\ Unlock(Dev(t).entry)
  /\ pciOwner' = NoOne
  /\ Forget(t)
  /\ Answer(t, r)

Matches(t) == Match(call[t].ids[item[t]], Dev(t).id)

\* The next entry of the list does not match, or the list is at its end.
MatchNot(t) ==
  /\ pc[t] = "match"
  /\ IF item[t] \in DOMAIN call[t].ids
     THEN /\ ~Matches(t)
          /\ item' = [item EXCEPT ![t] = @ + 1]
          /\ UNCHANGED <<pc, devOwner, pos>>
     ELSE /\ Unlock(Dev(t).entry)
          /\ pos' = [pos EXCEPT ![t] = @ + 1]
          /\ Goto(t, "visit")
          /\ UNCHANGED item
  /\ UNCHANGED <<regVars, initVars, call, ret, left, listVars, pciLock, pciOwner,
                 sofar, inner, found>>

\* Mutant: the instance is compared after it was counted.
CountsFrom1(t) == Wanted(call[t].wish, Dev(t)) /\ sofar[t] + 1 = call[t].wish.stopat

\* devmatch() stops at the wanted instance.
IsIt(t) == Wanted(call[t].wish, Dev(t)) /\ sofar[t] = call[t].wish.stopat

\* The callback is devmatch(): count the matches, stop at the wanted one.
MatchWish(t) ==
  /\ pc[t] = "match"
  /\ call[t].fn = "devmatch"
  /\ item[t] \in DOMAIN call[t].ids
  /\ Matches(t)
  /\ IF IsIt(t)
     THEN Stop(t, "ok") /\ found' = [found EXCEPT ![t] = pos[t]]
     ELSE /\ sofar' = [sofar EXCEPT ![t] = IF Wanted(call[t].wish, Dev(t)) THEN @ + 1 ELSE @]
          /\ item' = [item EXCEPT ![t] = @ + 1]
          /\ UNCHANGED <<pc, ret, found, devOwner, pciOwner, pos>>
  /\ UNCHANGED <<regVars, initVars, call, left, listVars, pciLock, inner>>

\* The callback is one of the device support, and runs with both locks.
MatchCall(t) ==
  /\ pc[t] = "match"
  /\ call[t].fn = "user"
  /\ item[t] \in DOMAIN call[t].ids
  /\ Matches(t)
  /\ Goto(t, "callback")
  /\ UNCHANGED <<regVars, initVars, call, ret, left, busVars>>

\* External: it lets the search go on (0), ends it with a device it keeps (1),
\* or ends it with an error.
Callback(t) ==
  /\ pc[t] = "callback"
  /\ \/ /\ Goto(t, "match")
        /\ item' = [item EXCEPT ![t] = @ + 1]
        /\ UNCHANGED <<ret, pos, sofar, found, devOwner, pciOwner>>
     \/ Stop(t, "ok") /\ found' = [found EXCEPT ![t] = pos[t]]
     \/ Stop(t, "callback_error") /\ UNCHANGED found
  /\ UNCHANGED <<regVars, initVars, call, left, listVars, pciLock, inner>>

\* External: it searches in turn.  pciLock is taken again by its owner, the
\* devLocks are taken one by one while the outer search holds one.
CallbackSearch(t) ==
  /\ pc[t] = "callback"
  /\ inner' = [inner EXCEPT ![t] = 1]
  /\ Goto(t, "inner")
  /\ UNCHANGED <<regVars, initVars, call, ret, left, listVars, lockVars, pos, item,
                 sofar, found>>

\* The inner search takes and releases the devLock of the next device.
InnerVisit(t) ==
  /\ pc[t] = "inner"
  /\ IF inner[t] \in DOMAIN devices
     THEN /\ Free(devOwner[devices[inner[t]].entry], t)
          /\ inner' = [inner EXCEPT ![t] = @ + 1]
          /\ UNCHANGED <<pc, item>>
     ELSE /\ inner' = [inner EXCEPT ![t] = 0]
          /\ item' = [item EXCEPT ![t] = @ + 1]
          /\ Goto(t, "match")
  /\ UNCHANGED <<regVars, initVars, call, ret, left, listVars, lockVars, pos, sofar, found>>

-----------------------------------------------------------------------------
(* Calls for a device: map a BAR, connect or disconnect an interrupt,      *)
(* access the configuration space, switch the interrupt                    *)

Mine(t) == devices[found[t]].entry

Bar(t) == [entry |-> Mine(t), bar |-> call[t].bar]

\* devPCIToLocalAddr() looks at the base without the lock.  While another
\* thread maps the BAR its mmap() may have set it already.
BaseSet(t) ==
  \/ Bar(t) \in mapped
  \/ \E u \in Threads \ {t} : pc[u] = "held" /\ call[u].op = "bar" /\ Bar(u) = Bar(t)

FirstTest(t) ==
  /\ pc[t] = "base"
  /\ \/ BaseSet(t) /\ Answer(t, "ok")
     \/ Bar(t) \notin mapped /\ Goto(t, "device") /\ UNCHANGED ret
  /\ UNCHANGED <<regVars, initVars, call, left, busVars>>

DeviceLock(t) ==
  /\ pc[t] = "device"
  /\ Free(devOwner[Mine(t)], t)
  /\ devOwner' = [devOwner EXCEPT ![Mine(t)] = t]
  /\ Goto(t, "held")
  /\ UNCHANGED <<regVars, initVars, call, ret, left, listVars, pciLock, pciOwner,
                 walkVars, found>>

\* A call that ends in the function that locked.
DeviceDone(t) ==
  /\ (pc[t] = "held" /\ call[t].op # "bar") \/ pc[t] = "stopped"
  /\ Unlock(Mine(t))
  /\ \E r \in {"ok", "S_dev_badInit"} : Answer(t, r)
  /\ UNCHANGED <<regVars, initVars, call, left, listVars, pciLock, pciOwner,
                 walkVars, found>>

\* The second test found no base: the BAR is mapped, or cannot be.
MapBar(t) ==
  /\ pc[t] = "held"
  /\ call[t].op = "bar"
  /\ Bar(t) \notin mapped
  /\ Unlock(Mine(t))
  /\ \/ mapped' = mapped \cup {Bar(t)} /\ Answer(t, "ok")
     \/ Answer(t, "S_dev_addrMapFail") /\ UNCHANGED mapped
  /\ UNCHANGED <<regVars, initVars, call, left, devices, leaked, next, host_is_first, kept,
                 pciLock, pciOwner, walkVars, found>>

\* Another thread has mapped it since the first test: this one returns with
\* the lock.
KeepLock(t) ==
  /\ pc[t] = "held"
  /\ call[t].op = "bar"
  /\ Bar(t) \in mapped
  /\ kept' = kept \cup {Mine(t)}
  /\ Answer(t, "ok")
  /\ UNCHANGED <<regVars, initVars, call, left, devices, leaked, next, host_is_first, mapped,
                 lockVars, walkVars, found>>

\* stopIsrThread() releases devLock until the thread of the handler has
\* answered.  One that had not begun when it was told to stop leaves without an
\* answer, and one that needs a devLock which its waiter has kept never gets
\* to it.
DisconnectWait(t) ==
  /\ pc[t] = "held"
  /\ call[t].op = "isr"
  /\ Unlock(Mine(t))
  /\ \/ Mine(t) \notin kept /\ Goto(t, "waiting")
     \/ Goto(t, "stranded")
  /\ UNCHANGED <<regVars, initVars, call, ret, left, listVars, pciLock, pciOwner,
                 walkVars, found>>

DisconnectResume(t) ==
  /\ pc[t] = "waiting"
  /\ Free(devOwner[Mine(t)], t)
  /\ devOwner' = [devOwner EXCEPT ![Mine(t)] = t]
  /\ Goto(t, "stopped")
  /\ UNCHANGED <<regVars, initVars, call, ret, left, listVars, pciLock, pciOwner,
                 walkVars, found>>

-----------------------------------------------------------------------------
\* Where a thread is in the functions of a driver.
Inside == {"other", "find", "visit", "match", "callback", "inner", "base", "device", "held",
           "waiting", "stranded", "stopped"}

\* A call that is made for a device.
OnDevice == {"base", "device", "held", "waiting", "stranded", "stopped"}

\* Every step a thread makes once it has called.
Step(t) ==
  \/ (StartInit(t) \/ PastInit(t) \/ SelectDriver(t) \/ Return(t)) /\ UNCHANGED busVars
  \/ DevInit(t)
  \/ Enter(t) \/ OtherFind(t)
  \/ FindStart(t) \/ Visit(t) \/ VisitDone(t) \/ MatchNot(t) \/ MatchWish(t) \/ MatchCall(t)
  \/ Callback(t) \/ CallbackSearch(t) \/ InnerVisit(t)
  \/ FirstTest(t) \/ DeviceLock(t) \/ MapBar(t) \/ KeepLock(t) \/ DeviceDone(t)
  \/ DisconnectWait(t) \/ DisconnectResume(t)

\* A thread that asks for a device has found it.
Request(t) ==
  \E r \in Requests[t] :
    /\ r.op = "find" \/ found[t] # NoDevice
    /\ Call(t, r)
    /\ UNCHANGED busVars

Select(t) == \E d \in Drivers : (RegisterDriver(t, d) \/ Use(t, d)) /\ UNCHANGED busVars

Next == (\E t \in Threads : Select(t) \/ Request(t) \/ Step(t)) /\ UNCHANGED sysfs

Spec == Init /\ [][Next]_vars

\* The threads of the IOC are scheduled, and callbacks return.
FairSpec == Spec /\ \A t \in Threads : WF_vars(Step(t) /\ UNCHANGED sysfs)

-----------------------------------------------------------------------------
\* Where a thread is in devInit(), and where it is on the list.
Initialising == {"select", "init", "scan", "slots"}
AtDevice == {"match", "callback", "inner"}
Walking == {"visit"} \cup AtDevice

Points == {"idle", "once", "enter", "return"} \cup Initialising \cup Inside

ListRecords == UNION {[entry : {e}, addr : {sysfs[e].addr}, id : {ReadId(e)},
                       bar : {ReadBars(e)}, slot : {NoSlot} \cup {Slots[s].label : s \in DOMAIN Slots}]
                      : e \in DOMAIN sysfs}

\* The values of the variables.
TypeOK ==
  /\ sysfs \in Listings
  /\ pciDrivers \subseteq Drivers /\ pdevLibPCI \in Drivers \cup {NoDriver}
  /\ once \in {"no", "running", "done"}
  /\ devPCIInit_result \in {"unset", "ok"} \cup Errors
  /\ pc \in [Threads -> Points]
  /\ call \in [Threads -> Asked \cup {NoCall}]
  /\ ret \in [Threads -> {"ok"} \cup Errors]
  /\ left \in [Threads -> Nat]
  /\ devices \in Seq(ListRecords)
  /\ leaked \subseteq DOMAIN sysfs /\ host_is_first \in BOOLEAN
  /\ mapped \subseteq [entry : DOMAIN sysfs, bar : {r.bar : r \in {q \in Asked : q.op = "bar"}}]
  /\ kept \subseteq DOMAIN sysfs
  /\ pciLock \in {"none", "live", "destroyed"}
  /\ pciOwner \in Threads \cup {NoOne}
  /\ devOwner \in [DOMAIN sysfs -> Threads \cup {NoOne}]
  /\ pos \in [Threads -> Nat] /\ item \in [Threads -> Nat] /\ sofar \in [Threads -> Nat]
  /\ inner \in [Threads -> Nat]
  /\ found \in [Threads -> DOMAIN devices \cup {NoDevice}]

\* The library in terms of what it promises: devLibPCI.c and the Linux driver
\* initialise once, keep the first selection, and let nobody into a driver
\* that is not ready.
Service == INSTANCE PciService WITH
  driver <- pdevLibPCI,
  state <- IF once # "done" THEN "new" ELSE IF devPCIInit_result = "ok" THEN "ready" ELSE "broken",
  inside <- {t \in Threads : pc[t] \in Inside}

ServiceSpec == Service!Spec

WorksOn(t, e) ==
  \/ pc[t] \in AtDevice /\ Dev(t).entry = e
  \/ pc[t] \in {"held", "stopped"} /\ Mine(t) = e

\* linuxDevPCIFindCB(), devPCIToLocalAddr() and the others: whoever walks the
\* list owns pciLock, which exists as long as somebody may, and whoever works
\* on a device owns its devLock; a thread outside owns no lock but one that a
\* call has kept, for ever.
HoldsItsLocks(t) ==
  /\ pc[t] \in Walking <=> pciOwner = t
  /\ pc[t] \in Walking => pciLock = "live"
  /\ \A e \in DOMAIN sysfs :
       /\ WorksOn(t, e) => devOwner[e] = t
       /\ devOwner[e] = t => WorksOn(t, e) \/ e \in kept

\* Only a device with a mapped BAR has its lock kept.
KeptInv ==
  \A e \in kept : devOwner[e] # NoOne /\ \E b \in mapped : b.entry = e

LocksHeld == (\A t \in Threads : HoldsItsLocks(t)) /\ KeptInv

\* epicsThreadOnce() lets one thread at a time into devInit(), which leaves a
\* result behind; nobody enters a driver or has found a device before that.
Ready == once = "done" /\ devPCIInit_result = "ok"
InitInv ==
  /\ once = "done" => devPCIInit_result # "unset"
  /\ \A t \in Threads :
       /\ pc[t] \in Initialising =>
            once = "running" /\ \A u \in Threads : pc[u] \in Initialising => u = t
       /\ pc[t] \in Initialising \ {"select"} => pdevLibPCI # NoDriver
       /\ pc[t] \in {"enter"} \cup Inside => Ready
       /\ found[t] # NoDevice => Ready

\* A search is at a device of the list, and a call for a device has one.
CallInv ==
  \A t \in Threads :
    /\ pc[t] # "idle" => call[t].op = "find" \/ found[t] # NoDevice
    /\ pc[t] \in {"find"} \cup Walking => call[t].op = "find"
    /\ pc[t] \in AtDevice => pos[t] \in DOMAIN devices
    /\ pc[t] \in OnDevice => found[t] # NoDevice

\* The locks and who is where: inductive by itself.
LockInv == TypeOK /\ InitInv /\ CallInv /\ LocksHeld

\* The directories of the devices on the list.
Listed == {devices[i].entry : i \in DOMAIN devices}

ListEmpty == devices = <<>> /\ leaked = {} /\ next = 1

\* linuxDevPCIInit() fills an empty list with the entries it has read, in the
\* order of their numbers or against it, as the first one says.
ListInv ==
  /\ next \in Nat \ {0}
  /\ devPCIInit_result = "unset" <=> once # "done"
  /\ devPCIInit_result = "ok" => pdevLibPCI # NoDriver
  /\ devPCIInit_result # "S_dev_noDevice"
  /\ once # "done" /\ (\A t \in Threads : pc[t] \notin {"scan", "slots"}) => ListEmpty
  /\ \A t \in Threads :
       /\ pc[t] \in {"scan", "slots"} => pdevLibPCI = Linux
       /\ pc[t] = "scan" =>
            /\ next <= Len(sysfs) + 1
            /\ leaked \subseteq 1 .. next - 1
            /\ Listed = (1 .. next - 1) \ leaked
       /\ pc[t] = "slots" => Listed = DOMAIN sysfs \ leaked
  /\ devPCIInit_result = "ok" /\ pdevLibPCI = Linux => Listed = DOMAIN sysfs \ leaked
  /\ \A i, j \in DOMAIN devices : i # j => devices[i].entry # devices[j].entry
  /\ 1 \notin leaked /\ devices # <<>> =>
       /\ host_is_first <=> IsHost(sysfs[1])
       /\ \A i, j \in DOMAIN devices : i < j =>
            IF host_is_first THEN devices[i].entry < devices[j].entry
                             ELSE devices[j].entry < devices[i].entry

\* The matches of a search, one for each pair of a device and an entry of the
\* list of identifiers that matches it.
Hits(t) ==
  {p \in (DOMAIN devices) \X (DOMAIN call[t].ids) :
     /\ Match(call[t].ids[p[2]], devices[p[1]].id)
     /\ Wanted(call[t].wish, devices[p[1]])}

\* Those of the devices up to the i-th of the list.
HitsUpto(t, i) == {p \in Hits(t) : p[1] <= i}

\* The device found holds the match of the wanted number; without one there are
\* fewer matches on the list.
RightInstance(t) ==
  LET Upto(i) == Cardinality(HitsUpto(t, i)) IN
  /\ ret[t] = "ok" => Upto(found[t] - 1) <= call[t].wish.stopat /\ call[t].wish.stopat < Upto(found[t])
  /\ ret[t] = "S_dev_noDevice" => Upto(Len(devices)) <= call[t].wish.stopat

\* devPCIFindSpec() and devPCIFindDBDF() end with the device of the instance
\* asked for, in the order of the list, and with S_dev_noDevice only when there
\* are fewer, whatever other threads search, map and connect meanwhile.
FoundIsInstance ==
  \A t \in Threads :
    (pc[t] = "return" /\ call[t].op = "find" /\ call[t].fn = "devmatch" /\ pdevLibPCI = Linux)
      => RightInstance(t)

\* devmatch() has counted the matches it was called for, and not passed the
\* wanted one; nobody is about to return from a search of a library that is
\* not ready.
Counted(t) == {p \in Hits(t) : p[1] < pos[t] \/ (p[1] = pos[t] /\ p[2] < item[t])}

SearchInv(t) ==
  /\ pc[t] \in {"callback", "inner"} => call[t].fn = "user"
  /\ pc[t] \in OnDevice => call[t].op # "find"
  /\ pc[t] = "other" => pdevLibPCI # Linux
  /\ pc[t] \in Walking => pos[t] >= 1
  /\ pc[t] \in Walking /\ call[t].fn = "devmatch" =>
       /\ sofar[t] <= call[t].wish.stopat
       /\ pc[t] = "visit" => sofar[t] = Cardinality(HitsUpto(t, pos[t] - 1))
       /\ pc[t] = "match" => /\ item[t] \in 1 .. Len(call[t].ids) + 1
                             /\ sofar[t] = Cardinality(Counted(t))
  /\ pc[t] = "return" /\ call[t].op = "find" /\ ret[t] \in {"ok", "S_dev_noDevice"} => Ready
  /\ pc[t] = "return" /\ call[t].op = "find" /\ ret[t] = "ok" /\ call[t].fn = "devmatch" /\ pdevLibPCI = Linux
       => found[t] \in DOMAIN devices

\* The locks, the list and the searches: inductive together with
\* FoundIsInstance.
IInv == LockInv /\ ListInv /\ \A t \in Threads : SearchInv(t)

\* The order of addresses.
Before(a, b) ==
  \E k \in 1 .. 4 : a[k] < b[k] /\ \A j \in 1 .. k - 1 : a[j] = b[j]

\* External: readdir() goes up the bus from the host bridge, or down to it.
InBusOrder ==
  \A l \in Listings : \A i, j \in DOMAIN l : i < j =>
    IF IsHost(l[1]) THEN Before(l[i].addr, l[j].addr) ELSE Before(l[j].addr, l[i].addr)

\* linuxDevPCIInit() lists every device whose files it could open, once, in
\* the order of the bus: readdir() may return the entries in either order.
ListMatchesBus ==
  (devPCIInit_result = "ok" /\ pdevLibPCI = Linux) =>
    /\ {devices[i].entry : i \in DOMAIN devices} = DOMAIN sysfs \ leaked
    /\ \A i, j \in DOMAIN devices : i # j => devices[i].entry # devices[j].entry
    /\ 1 \notin leaked => \A i, j \in DOMAIN devices : i < j => Before(devices[i].addr, devices[j].addr)

-----------------------------------------------------------------------------
\* What keeps a call from returning.

\* A thread at a devLock that another one has kept.
AtKept(t) ==
  LET KeptFrom(e) == e \in kept /\ devOwner[e] # t IN
  \/ pc[t] \in {"device", "waiting"} /\ KeptFrom(Mine(t))
  \/ pc[t] = "visit" /\ pos[t] \in DOMAIN devices /\ KeptFrom(Dev(t).entry)
  \/ pc[t] = "inner" /\ inner[t] \in DOMAIN devices /\ KeptFrom(devices[inner[t]].entry)

\* A thread at a lock that is held by one which waits for a kept one.
BehindKept(t) ==
  \E u \in Threads : /\ AtKept(u)
                     /\ \/ pc[t] = "find" /\ pciOwner = u
                        \/ pc[t] \in {"device", "waiting"} /\ devOwner[Mine(t)] = u

\* Every call of the API returns, as long as callbacks do, but for a disconnect
\* whose thread left without an answer (devLibPCIOSD.c:939-943) and for those
\* that come to a devLock which the loser of a first mapping has kept (832),
\* or to a lock somebody holds who has: the locks of the list and of the
\* devices are taken in an order without cycles.
CallsReturn ==
  \A t \in Threads :
    pc[t] # "idle" ~> (pc[t] = "idle" \/ pc[t] = "stranded" \/ AtKept(t) \/ BehindKept(t))
=============================================================================
