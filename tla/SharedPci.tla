------------------------------ MODULE SharedPci ------------------------------
(***************************************************************************)
(* The PCI drivers of vxWorks and RTEMS: they share the scan of the bus,   *)
(* the search, the mapping and the probing of BAR sizes                    *)
(* (pciApp/osdPciShared.c), and differ in interrupts and in the access to  *)
(* the configuration space (os/vxWorks, os/RTEMS).                         *)
(*                                                                         *)
(* Configuration space is reached through one pair of registers for the    *)
(* whole machine: an access first selects a register (index) and then      *)
(* reads or writes it.  RTEMS does not protect the pair.                   *)
(* epicsInterruptLock() keeps every other thread and handler away.         *)
(*                                                                         *)
(* A value is the set of its bits.  The lowest bits of a BAR tell what it  *)
(* is; the model has two of them where PCI has four.                       *)
(***************************************************************************)
EXTENDS DriverTable, Sequences, Functions

CONSTANTS
  Threads,   \* callers, interrupt handlers among them
  NoOne,     \* interrupts are enabled
  Buses,     \* what may be in the crate: functions from addresses <<b, d, f>>
             \* to [id, multi, bridge, irq, bars]
  Width,     \* bits of a register: 32
  Builds,    \* [os, symbols, inum, space, shared, wide]: kinds of systems
  Lists,     \* lists of identifiers
  Behind,    \* what may follow a list in memory
  Handlers,  \* interrupt routines of the device supports
  SearchFirst \* bound: searches are over before the other calls begin

ASSUME NoOneAssumption == NoOne \notin Threads
ASSUME WidthAssumption == Width \in Nat \ {0, 1}
ASSUME BarCountAssumption == BarCount \in Nat

\* The loops over the bus go up; a wide BAR and the one behind it belong together.
ASSUME BusesAssumption ==
  \A crate \in Buses :
    /\ DOMAIN crate \subseteq Nat \X Nat \X Nat
    /\ \A p \in DOMAIN crate, b \in 1 .. BarCount :
         /\ crate[p].bars[b].kind \in {"io", "mem", "wide", "high"}
         /\ crate[p].bars[b].value \subseteq 0 .. Width - 1
         /\ crate[p].bars[b].size \in Nat
         /\ crate[p].bars[b].kind # "high" =>
              crate[p].bars[b].size >= IF crate[p].bars[b].kind = "io" THEN 1 ELSE 2
         /\ crate[p].bars[b].kind = "wide" => b < BarCount /\ crate[p].bars[b + 1].kind = "high"
         /\ crate[p].bars[b].kind = "high" => b > 1 /\ crate[p].bars[b - 1].kind = "wide"

\* A list ends with its first terminator.
LastDevice == 0 - 65536   \* DEVPCI_LAST_DEVICE, 0xffff0000
ASSUME ListsAssumption ==
  /\ \A ids \in Lists : /\ ids \in Seq({ids[i] : i \in DOMAIN ids}) /\ ids # <<>>
                       /\ \A i \in 1 .. Len(ids) - 1 : ids[i].device \notin {0, LastDevice}
  /\ \A tail \in Behind : tail \in Seq({tail[i] : i \in DOMAIN tail})
ASSUME EndsAssumption == \A ids \in Lists : ids[Len(ids)].device \in {0, LastDevice}

\* Identifiers have 16 bits: no device has the number of the terminator.
ASSUME IdsAssumption ==
  /\ "device" \in Fields /\ AnyId # LastDevice
  /\ \A crate \in Buses : \A p \in DOMAIN crate : crate[p].id.device # LastDevice

VARIABLES
  build,     \* the system at hand
  bus,       \* the crate at hand
  state,     \* "new", "ready", "failed"
  devices,   \* the list: addresses in the order they were found
  base,      \* osdPCIDevice.base of each device
  len,       \* osdPCIDevice.len
  reg,       \* the registers: 0 is the command word, 1 .. BarCount the BARs
  index,     \* the register selected last
  irqLock,   \* who has locked the interrupts
  pc,        \* where each thread is
  job,       \* its call: [dev, bar, start, max] of a probe, [ids, tail, at, told,
             \* whole] of a search
  handlers,  \* installed: [inum, routine, dev]
  levels,    \* enabled interrupt levels
  connected  \* history: <<dev, routine>> whose connect succeeded

busVars == <<build, bus, state, devices, base>>
regVars == <<len, reg, index>>
irqVars == <<handlers, levels, connected>>
threadVars == <<irqLock, pc, job>>
vars == <<busVars, regVars, irqVars, threadVars>>

BarNos == 1 .. BarCount
Bit == 0 .. Width - 1
NoJob == [dev |-> <<>>, bar |-> 0, start |-> {}, max |-> {},
          ids |-> <<>>, tail |-> <<>>, at |-> <<0, 0>>, told |-> <<>>, whole |-> FALSE]

-----------------------------------------------------------------------------
(* The registers                                                           *)

\* External: BARs of a device are [kind, size, value], size being the number of
\* the lowest address bit; "high" is the upper half of the "wide" one before it.
Bar(p, b) == bus[p].bars[b]
TypeBits(kind) == CASE kind = "io" -> {0} [] kind = "wide" -> {1} [] OTHER -> {}

\* PCI_BASE_ADDRESS_IO_MASK and PCI_BASE_ADDRESS_MEM_MASK: the bits below.
Low(kind) == IF kind = "io" THEN 1 ELSE 2
Masked(kind, v) == {i \in v : i >= Low(kind)}

\* External: a BAR keeps the address bits above its size.
Stored(p, r, v) ==
  IF r = 0 \/ Bar(p, r).kind = "high" THEN v
  ELSE {i \in v : i >= Bar(p, r).size} \cup TypeBits(Bar(p, r).kind)

\* What the firmware left in a BAR.
Configured(p, b) == Stored(p, b, Bar(p, b).value)

\* max & ~(max - 1)
LowestBit(v) == {i \in v : \A k \in v : i <= k}

-----------------------------------------------------------------------------
(* sharedDevPCIInit                                                        *)

Before(p, q) ==
  \E k \in 1 .. 3 : p[k] < q[k] /\ \A j \in 1 .. k - 1 : p[j] = q[j]

\* The loop over the functions of a device ends at the first that is absent
\* and, unless the first function says there are more, after that.
Scanned(p) ==
  /\ p \in DOMAIN bus
  /\ ~(p[2] = 31 /\ p[3] = 7)
  /\ \A f \in 0 .. p[3] - 1 : <<p[1], p[2], f>> \in DOMAIN bus
  /\ p[3] = 0 \/ bus[<<p[1], p[2], 0>>].multi

\* The BARs the scan reads: two of a bridge; the upper half of a wide one is
\* read with it and kept as it is.
ReadBase(p) ==
  [b \in BarNos |->
     IF Bar(p, b).kind = "high"
     THEN IF bus[p].bridge /\ b > 3 THEN {} ELSE Configured(p, b)
     ELSE IF bus[p].bridge /\ b > 2 THEN {} ELSE Masked(Bar(p, b).kind, Configured(p, b))]

\* The scan runs alone, up the bus.
Unseen == {p \in DOMAIN bus : Scanned(p)} \ Range(devices)

ScanDevice ==
  /\ state = "new"
  /\ \E p \in Unseen :
       /\ \A q \in Unseen \ {p} : Before(p, q)
       /\ devices' = Append(devices, p)
  /\ base' = [p \in Range(devices') |-> ReadBase(p)]
  /\ len' = [p \in Range(devices') |-> [b \in BarNos |-> {}]]
  /\ reg' = [p \in Range(devices') |->
               [r \in 0 .. BarCount |-> IF r = 0 THEN {} ELSE Configured(p, r)]]
  /\ UNCHANGED <<build, bus, state, index, irqVars, threadVars>>

\* Without memory it leaves what it has found so far.
ScanEnds ==
  /\ state = "new"
  /\ state' = IF Unseen = {} THEN "ready" ELSE "failed"
  /\ UNCHANGED <<build, bus, devices, base, regVars, irqVars, threadVars>>

-----------------------------------------------------------------------------
(* sharedDevPCIFindCB                                                      *)

\* Only its owner runs while the interrupts are locked.
CanRun(t) == irqLock \in {NoOne, t}

Goto(t, point) == pc' = [pc EXCEPT ![t] = point]

\* The search takes the first entry with a device number of 0 for the end of
\* the list, and reads what lies behind the list until it finds one.
Entries(memory) == { i \in DOMAIN memory : \A j \in 1 .. i : memory[j].device # 0 }

\* The two loops go through devices and entries; these are the pairs that match,
\* and those behind the last one that the callback was called for.
Later(g, h) == g[1] < h[1] \/ (g[1] = h[1] /\ g[2] < h[2])

Hits(t) ==
  LET memory == job[t].ids \o job[t].tail IN
  {h \in (DOMAIN devices) \X Entries(memory) : Match(memory[h[2]], bus[devices[h[1]]].id)}
Ahead(t) == {h \in Hits(t) : Later(job[t].at, h)}

FindStart(t, ids, tail) ==
  /\ state = "ready" /\ pc[t] = "idle" /\ CanRun(t)
  /\ SearchFirst => /\ index = <<>> /\ handlers = {} /\ levels = {}
                    /\ \A u \in Threads : pc[u] = "idle"
  /\ job' = [job EXCEPT ![t] = [NoJob EXCEPT !.ids = ids, !.tail = tail]]
  /\ Goto(t, "search")
  /\ UNCHANGED <<busVars, regVars, irqVars, irqLock>>

\* The callback is called for the next match, and may end the search.
Callback(t) ==
  /\ pc[t] = "search" /\ CanRun(t)
  /\ \E h \in Ahead(t) :
       /\ \A g \in Ahead(t) \ {h} : Later(h, g)
       /\ job' = [job EXCEPT ![t].told = Append(@, devices[h[1]]), ![t].at = h]
  /\ \E point \in {"search", "found"} : Goto(t, point)
  /\ UNCHANGED <<busVars, regVars, irqVars, irqLock>>

FindEnds(t) ==
  /\ pc[t] = "search" /\ CanRun(t)
  /\ Ahead(t) = {}
  /\ job' = [job EXCEPT ![t].whole = TRUE]
  /\ Goto(t, "found")
  /\ UNCHANGED <<busVars, regVars, irqVars, irqLock>>

Found(t) ==
  /\ pc[t] = "found" /\ CanRun(t)
  /\ Goto(t, "idle")
  /\ job' = [job EXCEPT ![t] = NoJob]
  /\ UNCHANGED <<busVars, regVars, irqVars, irqLock>>

Searching == SearchFirst /\ \E t \in Threads : pc[t] \in {"search", "found"}

-----------------------------------------------------------------------------
(* sharedDevPCIToLocalAddr, vxworksPCIToLocalAddr                          *)

\* vxworksDevPCIInit(): the BSP has the function, otherwise a dummy that fails
\* takes its place.
Has(symbol) == symbol \in build.symbols

\* Its table of interrupt numbers, empty unless its size is known.
InumTable == IF Has("sysInumTbl") /\ Has("sysInumTblNumEnt") THEN build.inum ELSE <<>>

\* Two words are put together where pointers have room; a BAR whose lower
\* word is 0 counts as one that is not there.
MapFail == <<>>
LocalAddr(p, b) ==
  IF base[p][b] = {} THEN MapFail
  ELSE IF Bar(p, b).kind # "wide" THEN <<base[p][b]>>
  ELSE IF build.wide THEN <<base[p][b], base[p][b + 1]>>
  ELSE IF base[p][b + 1] # {} THEN MapFail ELSE <<base[p][b]>>

\* What a driver may be told.  vxWorks asks the BSP where the CPU sees the bus
\* address, and takes the bus address when the BSP cannot tell.
Told(p, b) ==
  LET bus_address == LocalAddr(p, b)
      asks == build.os = "vxWorks" /\ build.space /\ Has("sysBusToLocalAdrs")
  IN {[at |-> "bus", address |-> bus_address]}
       \cup IF asks /\ bus_address # MapFail
            THEN {[at |-> "cpu", address |-> bus_address]} ELSE {}

-----------------------------------------------------------------------------
(* Configuration space                                                     *)

\* sharedDevPCIBarLen(): a size that is known is returned at once.
BarLen(t, p, b) ==
  /\ state = "ready" /\ pc[t] = "idle" /\ CanRun(t)
  /\ base[p][b] # {} /\ len[p][b] = {}
  /\ irqLock' = t
  /\ job' = [job EXCEPT ![t] = [NoJob EXCEPT !.dev = p, !.bar = b]]
  /\ Goto(t, "select1")
  /\ UNCHANGED <<busVars, regVars, irqVars>>

\* The first half of every access.
SelectBar(t) ==
  /\ pc[t] \in {"select1", "select2", "select3", "select4"} /\ CanRun(t)
  /\ index' = <<job[t].dev, job[t].bar>>
  /\ Goto(t, CASE pc[t] = "select1" -> "start" [] pc[t] = "select2" -> "mask"
               [] pc[t] = "select3" -> "max" [] OTHER -> "restore")
  /\ UNCHANGED <<busVars, len, reg, irqVars, irqLock, job>>

Kind(t) == Bar(job[t].dev, job[t].bar).kind
Selected == reg[index[1]][index[2]]
WriteSelected(v) == reg' = [reg EXCEPT ![index[1]][index[2]] = Stored(index[1], index[2], v)]

\* Keep the value.  A BAR that was never set is left alone.
ReadStart(t) ==
  /\ pc[t] = "start" /\ CanRun(t)
  /\ IF Masked(Kind(t), Selected) = {}
     THEN Goto(t, "idle") /\ irqLock' = NoOne /\ job' = [job EXCEPT ![t] = NoJob]
     ELSE /\ Goto(t, "select2")
          /\ job' = [job EXCEPT ![t].start = Selected]
          /\ UNCHANGED irqLock
  /\ UNCHANGED <<busVars, regVars, irqVars>>

\* Write all address bits.
WriteMask(t) ==
  /\ pc[t] = "mask" /\ CanRun(t)
  /\ WriteSelected(Masked(Kind(t), Bit))
  /\ Goto(t, "select3")
  /\ UNCHANGED <<busVars, len, index, irqVars, irqLock, job>>

ReadMax(t) ==
  /\ pc[t] = "max" /\ CanRun(t)
  /\ job' = [job EXCEPT ![t].max = Selected]
  /\ Goto(t, "select4")
  /\ UNCHANGED <<busVars, regVars, irqVars, irqLock>>

\* Mutant: the bits that tell the kind are taken for address bits.
SizeUnmasked(t) == LowestBit(job[t].max)

Size(t) == LowestBit(Masked(Kind(t), job[t].max))

\* Put the value back, note the size, enable interrupts again.
Restore(t) ==
  /\ pc[t] = "restore" /\ CanRun(t)
  /\ WriteSelected(job[t].start)
  /\ len' = [len EXCEPT ![job[t].dev][job[t].bar] = Size(t)]
  /\ irqLock' = NoOne
  /\ Goto(t, "idle")
  /\ job' = [job EXCEPT ![t] = NoJob]
  /\ UNCHANGED <<busVars, index, irqVars>>

\* Mutant: RTEMS accesses the pair of registers with interrupts enabled.
ConfigUnlocked(t, p) ==
  /\ state = "ready" /\ pc[t] = "idle" /\ CanRun(t)
  /\ build.os = "RTEMS"
  /\ job' = [job EXCEPT ![t] = [NoJob EXCEPT !.dev = p]]
  /\ Goto(t, "config")
  /\ UNCHANGED <<busVars, regVars, irqVars, irqLock>>

\* rtemsDevPCIConfigAccess() locks the interrupts for every access.  The model
\* has those to the command word, whose value is left out.
Config(t, p) ==
  /\ state = "ready" /\ pc[t] = "idle" /\ CanRun(t)
  /\ build.os = "RTEMS"
  /\ irqLock' = t
  /\ job' = [job EXCEPT ![t] = [NoJob EXCEPT !.dev = p]]
  /\ Goto(t, "config")
  /\ UNCHANGED <<busVars, regVars, irqVars>>

ConfigSelect(t) ==
  /\ pc[t] = "config" /\ CanRun(t)
  /\ index' = <<job[t].dev, 0>>
  /\ Goto(t, "write")
  /\ UNCHANGED <<busVars, len, reg, irqVars, irqLock, job>>

\* sharedDevPCIConfigAccess(): a write, or a read or an access that fails,
\* which leave the registers as they are.
ConfigWrite(t) ==
  /\ pc[t] = "write" /\ CanRun(t)
  /\ WriteSelected({}) \/ UNCHANGED reg
  /\ irqLock' = NoOne
  /\ Goto(t, "idle")
  /\ job' = [job EXCEPT ![t] = NoJob]
  /\ UNCHANGED <<busVars, len, index, irqVars>>

\* External: on vxWorks the BSP protects an access itself.  One that fails may
\* not have come to select the register.
ConfigVxWorks(t, p) ==
  /\ state = "ready" /\ pc[t] = "idle" /\ CanRun(t)
  /\ build.os = "vxWorks"
  /\ index' = <<p, 0>> \/ UNCHANGED index
  /\ UNCHANGED <<busVars, len, reg, irqVars, threadVars>>

-----------------------------------------------------------------------------
(* Interrupts                                                              *)

\* The interrupt number of a level: vxWorks may translate it.
Inum(p) ==
  IF build.os = "vxWorks" /\ bus[p].irq \in DOMAIN InumTable
  THEN InumTable[bus[p].irq] ELSE bus[p].irq

Entry(p, r) == [inum |-> Inum(p), routine |-> r, dev |-> p]

\* Connect.  RTEMS without shared handlers has one for each interrupt; the
\* routine stays connected when vxWorks cannot enable the level.  Bound: no
\* routine is connected to a device while it is installed for that device.
Connect(p, r) ==
  /\ state = "ready" /\ irqLock = NoOne
  /\ Entry(p, r) \notin handlers
  /\ build.shared \/ \A h \in handlers : h.inum # Inum(p)
  /\ build.os = "vxWorks" => Has("pciIntConnect")
  /\ handlers' = handlers \cup {Entry(p, r)}
  /\ \/ /\ levels' = IF build.os = "vxWorks" THEN levels \cup {bus[p].irq} ELSE levels
        /\ connected' = connected \cup {<<p, r>>}
     \/ build.os = "vxWorks" /\ UNCHANGED <<levels, connected>>
  /\ UNCHANGED <<busVars, regVars, threadVars>>

\* Mutant: the older pciIntDisconnect() is called although there is a newer.
RemovesByRoutine(p, r) == {h \in handlers : h.inum = Inum(p) /\ h.routine = r}

\* The entries a disconnect may remove: the older call of vxWorks cannot tell
\* two devices with one routine and one interrupt apart.
Removes(p, r) ==
  IF build.os = "vxWorks" /\ ~Has("pciIntDisconnect2")
  THEN {h \in handlers : Has("pciIntDisconnect") /\ h.inum = Inum(p) /\ h.routine = r}
  ELSE {Entry(p, r)} \cap handlers

\* Disconnect, by a device support that is connected.  The level stays on.
Disconnect(p, r) ==
  /\ irqLock = NoOne
  /\ <<p, r>> \in connected
  /\ \E h \in Removes(p, r) : handlers' = handlers \ {h}
  /\ connected' = connected \ {<<p, r>>}
  /\ UNCHANGED <<busVars, regVars, levels, threadVars>>

\* vxworksDevPCISwitchInterrupt(): level 0 disables.  The table of RTEMS has
\* no such function.
SwitchInterrupt(p, level) ==
  /\ state = "ready" /\ irqLock = NoOne
  /\ build.os = "vxWorks"
  /\ CheckSwitch(build.os) = "ok"
  /\ levels' = IF level # 0 THEN levels \cup {bus[p].irq} ELSE levels \ {bus[p].irq}
  /\ UNCHANGED <<busVars, regVars, handlers, connected, threadVars>>

-----------------------------------------------------------------------------
Init ==
  /\ build \in Builds /\ bus \in Buses
  /\ state = "new" /\ devices = <<>>
  /\ base = <<>> /\ len = <<>> /\ reg = <<>> /\ index = <<>>
  /\ irqLock = NoOne
  /\ pc = [t \in Threads |-> "idle"]
  /\ job = [t \in Threads |-> NoJob]
  /\ handlers = {} /\ levels = {} /\ connected = {}

Step(t) ==
  \/ SelectBar(t) \/ ReadStart(t) \/ WriteMask(t) \/ ReadMax(t) \/ Restore(t)
  \/ ConfigSelect(t) \/ ConfigWrite(t)

Next ==
  \/ ScanDevice \/ ScanEnds
  \/ \E t \in Threads, ids \in Lists, tail \in Behind : FindStart(t, ids, tail)
  \/ \E t \in Threads : Callback(t) \/ FindEnds(t) \/ Found(t)
  \/ \E p \in Range(devices) :
       /\ ~Searching
       /\ \/ \E t \in Threads : Config(t, p) \/ ConfigVxWorks(t, p)
          \/ \E t \in Threads, b \in BarNos : BarLen(t, p, b)
          \/ \E r \in Handlers : Connect(p, r) \/ Disconnect(p, r)
          \/ \E level \in {0, 1} : SwitchInterrupt(p, level)
  \/ \E t \in Threads : Step(t)

Spec == Init /\ [][Next]_vars

-----------------------------------------------------------------------------
Points == {"idle", "select1", "start", "select2", "mask", "select3", "max", "select4",
           "restore", "config", "write", "search", "found"}

Jobs == [dev : (DOMAIN bus) \cup {<<>>}, bar : 0 .. BarCount, start : SUBSET Bit, max : SUBSET Bit,
         ids : Lists \cup {<<>>}, tail : Behind \cup {<<>>}, at : Nat \X Nat,
         told : Seq(DOMAIN bus), whole : BOOLEAN]

\* The values of the variables.
TypeOK ==
  /\ build \in Builds /\ bus \in Buses
  /\ state \in {"new", "ready", "failed"}
  /\ devices \in Seq(DOMAIN bus)
  /\ base = [p \in Range(devices) |-> ReadBase(p)]
  /\ len \in [Range(devices) -> [BarNos -> SUBSET Bit]]
  /\ reg \in [Range(devices) -> [0 .. BarCount -> SUBSET Bit]]
  /\ irqLock \in Threads \cup {NoOne}
  /\ pc \in [Threads -> Points] /\ job \in [Threads -> Jobs]

\* sharedDevPCIBarLen() and the accesses of RTEMS: whenever interrupts are
\* enabled, and others may use the devices, every BAR holds the address the
\* firmware gave it.
BarsIntact ==
  irqLock = NoOne => \A p \in Range(devices), b \in BarNos : reg[p][b] = Configured(p, b)

\* What a BAR shows after all of its address bits were written.
Probed(p, b) == Stored(p, b, Masked(Bar(p, b).kind, Bit))

\* Where a thread has the interrupts locked, where a BAR that it probes does not
\* show its address, and what the thread has selected and read by then.
Probing == {"select1", "start", "select2", "mask", "select3", "max", "select4", "restore"}
Locked == Probing \cup {"config", "write"}
Changed == {"select3", "max", "select4", "restore"}

ProbeInv(t) ==
  LET j == job[t] IN
  /\ irqLock = t <=> pc[t] \in Locked
  /\ pc[t] \in Locked => j.dev \in Range(devices)
  /\ pc[t] \in Probing => j.bar \in BarNos
  /\ pc[t] \in {"start", "mask", "max", "restore"} => index = <<j.dev, j.bar>>
  /\ pc[t] = "write" => index = <<j.dev, 0>>
  /\ pc[t] \in Changed \cup {"select2", "mask"} => j.start = Configured(j.dev, j.bar)
  /\ pc[t] \in {"select4", "restore"} => j.max = Probed(j.dev, j.bar)

RegisterInv ==
  \A p \in Range(devices), b \in BarNos :
    reg[p][b] = IF \E t \in Threads : pc[t] \in Changed /\ job[t].dev = p /\ job[t].bar = b
                THEN Probed(p, b) ELSE Configured(p, b)

\* The list has what the scan has passed, up the bus, and is then left alone.
ListInv ==
  /\ state = "new" => (\A t \in Threads : pc[t] = "idle") /\ connected = {}
  /\ \A i, j \in DOMAIN devices : i < j => Before(devices[i], devices[j])
  /\ state = "new" => \A p \in Unseen, i \in DOMAIN devices : Before(devices[i], p)

\* A search has told of every match up to the last one, and of no others.
SearchInv(t) ==
  pc[t] \in {"search", "found"} =>
    /\ job[t].ids \in Lists /\ job[t].tail \in Behind
    /\ \A i, k \in DOMAIN job[t].told : i < k => ~Before(job[t].told[k], job[t].told[i])
    /\ \A i \in DOMAIN job[t].told : \E h \in Hits(t) \ Ahead(t) : job[t].told[i] = devices[h[1]]
    /\ \A h \in Hits(t) \ Ahead(t) : devices[h[1]] \in Range(job[t].told)
    /\ job[t].whole => Ahead(t) = {}

\* All of it, inductive.
IInv ==
  /\ TypeOK /\ BarsIntact /\ (\A t \in Threads : ProbeInv(t)) /\ RegisterInv
  /\ ListInv /\ (\A t \in Threads : SearchInv(t))

\* sharedDevPCIBarLen(), sharedDevPCIToLocalAddr(), sharedDevPCIFindCB(): what a
\* driver is told of a device is true.  A size that is noted is that of the BAR
\* (0 when the BAR is too large for its lower word), and no address is cut off.
LenIsSize ==
  \A p \in Range(devices), b \in BarNos :
    (len[p][b] # {} /\ Bar(p, b).kind # "high") => len[p][b] = {Bar(p, b).size}

AddressWhole ==
  \A p \in Range(devices), b \in BarNos : \A a \in Told(p, b) :
    (a.address # MapFail /\ Bar(p, b).kind = "wide") =>
      Len(a.address) = 2 \/ Bar(p, b + 1).value = {}

\* The entries a driver wrote: up to an entry of zeros or DEVPCI_END.
Written(ids) == { i \in Entries(ids) : \A j \in 1 .. i : ids[j].device # LastDevice }
Described(ids, p) == \E i \in Written(ids) : Match(ids[i], bus[p].id)

\* sharedDevPCIFindCB(): the callback gets the devices that an entry of the
\* list describes, in the order of the bus, and all of them unless it ends the
\* search.  Any other device it gets is one that memory behind a DEVPCI_END
\* happens to describe; a list ended by an entry of zeros is safe from that.
FindExact ==
  \A t \in Threads : pc[t] = "found" =>
    LET ids == job[t].ids  tail == job[t].tail  told == job[t].told
        stray(p) == /\ ids[Len(ids)].device = LastDevice
                    /\ \E i \in Entries(tail) : Match(tail[i], bus[p].id)
    IN /\ \A i, j \in DOMAIN told : i < j => ~Before(told[j], told[i])
       /\ job[t].whole => \A p \in Range(devices) : Described(ids, p) => p \in Range(told)
       /\ \A p \in Range(told) : Described(ids, p) \/ stray(p)

ToldTheTruth == LenIsSize /\ AddressWhole /\ FindExact

\* devLibPCI.h: "The last item in a list of PCI IDS", DEVPCI_END, ends the list:
\* the callback gets no device but those that the entries before it describe.
FindAsDocumented ==
  \A t \in Threads : pc[t] = "found" =>
    \A p \in Range(job[t].told) : Described(job[t].ids, p)

\* vxworksDevPCIConnectInterrupt(), vxworksDevPCIDisconnectInterrupt() and those
\* of RTEMS: devices that share an interrupt do not disturb each other.  A
\* routine that was connected stays installed until its own device support
\* disconnects it.  The older call of vxWorks may remove it in place of another
\* device's, and then that device's stays installed though nobody has it
\* connected: the interrupt never has fewer routines than were connected.
StaysConnected ==
  \A c \in connected :
    \/ Entry(c[1], c[2]) \in handlers
    \/ /\ build.os = "vxWorks" /\ ~Has("pciIntDisconnect2")
       /\ \E p \in Range(devices) \ {c[1]} :
            /\ Inum(p) = Inum(c[1]) /\ <<p, c[2]>> \notin connected
            /\ Entry(p, c[2]) \in handlers
=============================================================================
