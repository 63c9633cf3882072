------------------------------- MODULE PciMap -------------------------------
(***************************************************************************)
(* Mapping the BARs of one PCI device on Linux, and its configuration      *)
(* space: linuxDevPCIToLocalAddr(), map_bar(), open_res(), open_uio(),     *)
(* linuxDevPCIBarLen() and linuxDevPCIConfigAccess() of                    *)
(* pciApp/os/Linux/devLibPCIOSD.c.                                         *)
(*                                                                         *)
(* A BAR is mapped once, on the first call that asks for it.  The pointer  *)
(* base[bar] is tested without devLock, tested again with it, filled, and  *)
(* read once more without it.  mmap() stores its result, MAP_FAILED        *)
(* included, straight into base[bar].                                      *)
(*                                                                         *)
(* A mapping is named by the BAR whose memory it shows.  The resource file *)
(* of a BAR shows that BAR.  The UIO device shows its regions by number,   *)
(* in the order its kernel driver registered them (Region): the driver is  *)
(* this repository's linux/pci_generic_msi.c, bound and unbound by an      *)
(* administrator, or another one that registers memory BARs only.          *)
(***************************************************************************)
EXTENDS Integers, FiniteSets

CONSTANTS
  Threads,    \* driver threads
  NoOne,      \* nobody owns devLock
  BarCount,   \* PCIBARCOUNT
  Kind,       \* Kind[b]: "mem", "io", or "none" when no BAR is there
  Kernels,    \* kernel drivers considered: "generic_msi", "compact"
  Users,      \* Users[b]: the threads that map BAR b
  Null,       \* a null pointer
  Failed,     \* MAP_FAILED
  Error       \* a call returned S_dev_addrMapFail

Bars == 0 .. BarCount - 1

ASSUME BarCountAssumption == BarCount \in Nat
ASSUME NoOneAssumption == NoOne \notin Threads
ASSUME KindAssumption == Kind \in [Bars -> {"mem", "io", "none"}]
ASSUME KernelsAssumption == Kernels \subseteq {"generic_msi", "compact"}
ASSUME PointerAssumption ==
  /\ {Null, Failed, Error} \cap Bars = {}
  /\ Null # Failed /\ Null # Error /\ Failed # Error
ASSUME UsersAssumption == Users \in [Bars -> SUBSET Threads]

VARIABLES
  base,     \* osdPCIDevice.base: Null, Failed or the BAR the mapping shows
  rfd,      \* BARs whose resource file is open
  fd,       \* osdPCIDevice.fd: "none", "live", or "dead" when the kernel
            \* driver has unregistered the open UIO device
  cmode,    \* osdPCIDevice.cmode
  config,   \* what the last ConfigAccess returned
  owner,    \* owner of devLock, a recursive mutex
  depth,    \* how often its owner has taken it
  pc,       \* where each thread is
  arg,      \* the BAR a thread is mapping
  out,      \* the result of a thread's last ToLocalAddr
  kernel,   \* the kernel driver: "compact", or how far pci_generic_msi is
  held,     \* what pci_generic_msi has got from the kernel
  mmaps,    \* history: successful mmap() calls for each BAR
  met,      \* history: threads whose last call began while one was undoing
            \* a failed mmap() of the same BAR
  late      \* history: [t, bar] where the second test found the BAR mapped

lockVars == <<owner, depth>>
fileVars == <<rfd, fd>>
kernelVars == <<kernel, held>>
configVars == <<cmode, config>>
histVars == <<mmaps, met, late>>
others == <<configVars, kernelVars, histVars>>
vars == <<base, rfd, fd, cmode, config, owner, depth, pc, arg, out, kernel, held, mmaps, met, late>>

Pointers == {Null, Failed} \cup Bars
CModes == {"unset", "RDWR", "RONL", "NONE"}
CResults == {"none", "done", "badRequest", "internal", "noMemory"}
Points == {"idle", "lock", "res", "map1", "undo1", "uio", "map2", "undo2", "return"}

\* Points between taking devLock and releasing it on the normal path.
Locked == {"res", "map1", "undo1", "uio", "map2", "undo2"}

-----------------------------------------------------------------------------
Goto(t, point) == pc' = [pc EXCEPT ![t] = point]

CanLock(t) == owner \in {NoOne, t}

Lock(t) == owner' = t /\ depth' = depth + 1

Unlock(t) ==
  /\ depth' = depth - 1
  /\ owner' = IF depth = 1 THEN NoOne ELSE t

\* A call returns to the driver.
Return(t, r) == Goto(t, "idle") /\ out' = [out EXCEPT ![t] = r]

\* Drivers pass DEVLIB_MAP_UIOCOMPACT for a kernel driver that needs it.
Compact == kernel = "compact"

\* The BARs for which the kernel driver makes a region: pci_generic_msi makes
\* one for each, of no type where there is no memory.
Regions == IF Compact THEN {b \in Bars : Kind[b] = "mem"} ELSE Bars
Region(n) == {b \in Regions : Cardinality({a \in Regions : a < b}) = n}

\* find_uio_number(): the device has a UIO directory in /sys.
HasUio == kernel \in {"compact", "bound"}

\* Mutant: DEVLIB_MAP_UIOCOMPACT is ignored.
UioMapNoPlain(b) == b

\* The region number map_bar() passes to mmap() for the UIO device: with
\* UIOCOMPACT it is lowered for each I/O port BAR up to this one.
UioMapNo(b) ==
  IF Compact THEN b - Cardinality({a \in 0 .. b : Kind[a] = "io"}) ELSE b

\* What mmap() of the resource file or of the UIO device would show.
Target(b) == IF b \in rfd THEN {b} ELSE {a \in Region(UioMapNo(b)) : Kind[a] = "mem"}

-----------------------------------------------------------------------------
(* linuxDevPCIToLocalAddr                                                  *)

\* A thread is between a mmap() that failed and the clearing of base[bar].
Undoing(b) == \E t \in Threads : pc[t] \in {"undo1", "undo2"} /\ arg[t] = b

\* The first test of base[bar], without devLock.
Call(t, b) ==
  /\ pc[t] = "idle"
  /\ t \in Users[b]
  /\ arg' = [arg EXCEPT ![t] = b]
  /\ Goto(t, IF base[b] = Null THEN "lock" ELSE "return")
  /\ met' = IF Undoing(b) THEN met \cup {t} ELSE met \ {t}
  /\ UNCHANGED <<base, fileVars, configVars, lockVars, out, kernelVars, mmaps, late>>

\* Mutant: the second test is left out.
SecondTestDropped(t) ==
  /\ pc[t] = "lock"
  /\ CanLock(t)
  /\ Lock(t)
  /\ Goto(t, "res")
  /\ UNCHANGED <<base, fileVars, arg, out, others>>

\* Take devLock and test base[bar] again.  When another thread has filled it
\* meanwhile the code skips the block that would release devLock.
SecondTest(t) ==
  /\ pc[t] = "lock"
  /\ CanLock(t)
  /\ Lock(t)
  /\ \/ base[arg[t]] = Null /\ Goto(t, "res") /\ UNCHANGED late
     \/ base[arg[t]] # Null /\ Goto(t, "return") /\ late' = late \cup {<<t, arg[t]>>}
  /\ UNCHANGED <<base, fileVars, configVars, arg, out, kernelVars, mmaps, met>>

\* open_res(): the resource file of the BAR.
OpenRes(t) ==
  /\ pc[t] = "res"
  /\ \/ rfd' = rfd \cup {arg[t]} /\ Goto(t, "map1")
     \/ arg[t] \notin rfd /\ Goto(t, "uio") /\ UNCHANGED rfd
  /\ UNCHANGED <<base, fd, lockVars, arg, out, others>>

\* Mutant: the error path forgets to release devLock.
OpenUioKeepsLock(t) ==
  /\ pc[t] = "uio"
  /\ \/ /\ fd # "none" \/ HasUio
        /\ fd' = IF fd = "none" THEN "live" ELSE fd
        /\ Goto(t, "map2")
        /\ UNCHANGED out
     \/ /\ fd = "none"
        /\ Return(t, Error)
        /\ UNCHANGED fd
  /\ UNCHANGED <<base, rfd, lockVars, arg, others>>

\* open_uio(): the UIO device, if it is not open yet, or the call fails.
OpenUio(t) ==
  /\ pc[t] = "uio"
  /\ \/ /\ fd # "none" \/ HasUio
        /\ fd' = IF fd = "none" THEN "live" ELSE fd
        /\ Goto(t, "map2")
        /\ UNCHANGED <<lockVars, out>>
     \/ /\ fd = "none"
        /\ Unlock(t)
        /\ Return(t, Error)
        /\ UNCHANGED fd
  /\ UNCHANGED <<base, rfd, arg, others>>

\* map_bar() failed: try the UIO device, or the call fails.
MapFails(t) ==
  IF pc[t] \in {"map1", "undo1"}
  THEN Goto(t, "uio") /\ UNCHANGED <<lockVars, out>>
  ELSE Unlock(t) /\ Return(t, Error)

\* map_bar(): refused without a call of mmap().
MapRefused(t) ==
  /\ pc[t] \in {"map1", "map2"}
  /\ Kind[arg[t]] = "io" \/ (arg[t] \notin rfd /\ UioMapNo(arg[t]) < 0)
  /\ MapFails(t)
  /\ UNCHANGED <<base, fileVars, arg, others>>

\* map_bar(): mmap() succeeds; unlock.  A region of no length cannot be mapped.
MapDone(t) ==
  /\ pc[t] \in {"map1", "map2"}
  /\ Kind[arg[t]] = "mem" /\ (arg[t] \in rfd \/ (fd = "live" /\ UioMapNo(arg[t]) >= 0))
  /\ \E b \in Target(arg[t]) : base' = [base EXCEPT ![arg[t]] = b]
  /\ mmaps' = [mmaps EXCEPT ![arg[t]] = @ + 1]
  /\ Unlock(t)
  /\ Goto(t, "return")
  /\ UNCHANGED <<fileVars, configVars, arg, out, kernelVars, met, late>>

\* map_bar(): mmap() fails, and base[bar] holds MAP_FAILED.
MapError(t) ==
  /\ pc[t] \in {"map1", "map2"}
  /\ Kind[arg[t]] # "io" /\ (arg[t] \in rfd \/ UioMapNo(arg[t]) >= 0)
  /\ base' = [base EXCEPT ![arg[t]] = Failed]
  /\ Goto(t, IF pc[t] = "map1" THEN "undo1" ELSE "undo2")
  /\ UNCHANGED <<fileVars, lockVars, arg, out, others>>

\* Mutant: base[bar] is not cleared after a failed mmap().
MapUndoKeepsBase(t) ==
  /\ pc[t] \in {"undo1", "undo2"}
  /\ rfd' = rfd \ {arg[t]}
  /\ MapFails(t)
  /\ UNCHANGED <<base, fd, arg, others>>

\* map_bar(): base[bar] is cleared and the resource file is closed.
MapUndo(t) ==
  /\ pc[t] \in {"undo1", "undo2"}
  /\ base' = [base EXCEPT ![arg[t]] = Null]
  /\ rfd' = rfd \ {arg[t]}
  /\ MapFails(t)
  /\ UNCHANGED <<fd, arg, others>>

\* The pointer is read again, without devLock, and the call returns success.
ReadBack(t) ==
  /\ pc[t] = "return"
  /\ Return(t, base[arg[t]])
  /\ UNCHANGED <<base, fileVars, lockVars, arg, others>>

-----------------------------------------------------------------------------
(* linuxDevPCIBarLen() only needs devLock for a moment, so it is part of   *)
(* what linuxDevPCIConfigAccess() does here.                               *)

\* What an access returns: a mode that does not allow it is refused, and the
\* kernel can fail one that is allowed, or serve a part of it.
Answers(write, mode) ==
  IF mode = "RDWR" \/ (mode = "RONL" /\ ~write) THEN {"done", "internal"} ELSE {"badRequest"}

\* The configuration space is opened by the first access, for writing if
\* possible, unless there is no memory for its name; what that gave stays.
ConfigAccess(t) ==
  /\ pc[t] = "idle"
  /\ CanLock(t)
  /\ \E write \in BOOLEAN :
       \/ /\ cmode' \in IF cmode = "unset" THEN {"RDWR", "RONL", "NONE"} ELSE {cmode}
          /\ config' \in Answers(write, cmode')
       \/ cmode = "unset" /\ config' = "noMemory" /\ UNCHANGED cmode
  /\ UNCHANGED <<base, fileVars, lockVars, pc, arg, out, kernelVars, histVars>>

-----------------------------------------------------------------------------
(* linux/pci_generic_msi.c: its probe and its remove function              *)

\* What the probe function has at each of its points.
Gets == [unbound |-> {}, allocated |-> {"priv"}, enabled |-> {"priv", "device"},
         msi |-> {"priv", "device", "msi"}, bound |-> {"priv", "device", "msi", "uio"}]
Stages == DOMAIN Gets

\* What the labels err_disable_msi, err_disable_dev and err_free give back,
\* from the one to which the failure at a point goes.
Undone(point) ==
  CASE point = "allocated" -> {"priv"}
    [] point = "enabled" -> {"device", "priv"}
    [] point = "msi" -> {"msi", "device", "priv"}

ProbeStep(from, to, what) ==
  /\ kernel = from
  /\ kernel' = to
  /\ held' = held \cup {what}
  /\ UNCHANGED <<base, fileVars, configVars, lockVars, pc, arg, out, histVars>>

\* probe_generic_msi(): memory, pci_enable_device(), pci_enable_msi(), and
\* uio_register_device() with the regions.
Probe ==
  \/ ProbeStep("unbound", "allocated", "priv")
  \/ ProbeStep("allocated", "enabled", "device")
  \/ ProbeStep("enabled", "msi", "msi")
  \/ ProbeStep("msi", "bound", "uio")

ProbeFails ==
  /\ kernel \in {"allocated", "enabled", "msi"}
  /\ kernel' = "unbound"
  /\ held' = held \ Undone(kernel)
  /\ UNCHANGED <<base, fileVars, configVars, lockVars, pc, arg, out, histVars>>

\* remove_generic_msi(): a UIO device that is open stays open and is of no use
\* any more, even when the kernel driver is bound again.
Unbind ==
  /\ kernel = "bound"
  /\ kernel' = "unbound"
  /\ held' = held \ {"uio", "msi", "device", "priv"}
  /\ fd' = IF fd = "live" THEN "dead" ELSE fd
  /\ UNCHANGED <<base, rfd, configVars, lockVars, pc, arg, out, histVars>>

-----------------------------------------------------------------------------
Init ==
  /\ base = [b \in Bars |-> Null]
  /\ rfd = {}
  /\ fd = "none"
  /\ cmode = "unset" /\ config = "none"
  /\ owner = NoOne
  /\ depth = 0
  /\ pc = [t \in Threads |-> "idle"]
  /\ arg = [t \in Threads |-> 0]
  /\ out = [t \in Threads |-> Error]
  /\ kernel \in { IF k = "compact" THEN k ELSE "unbound" : k \in Kernels }
  /\ held = {}
  /\ mmaps = [b \in Bars |-> 0]
  /\ met = {} /\ late = {}

Step(t) ==
  \/ SecondTest(t) \/ OpenRes(t) \/ OpenUio(t) \/ MapRefused(t) \/ MapDone(t)
  \/ MapError(t) \/ MapUndo(t) \/ ReadBack(t)

Next ==
  \/ \E t \in Threads : Step(t) \/ ConfigAccess(t) \/ \E b \in Bars : Call(t, b)
  \/ Probe \/ ProbeFails \/ Unbind

Spec == Init /\ [][Next]_vars

-----------------------------------------------------------------------------
(* Properties                                                              *)

TypeOK ==
  /\ base \in [Bars -> Pointers]
  /\ rfd \in SUBSET Bars
  /\ fd \in {"none", "live", "dead"}
  /\ cmode \in CModes
  /\ config \in CResults
  /\ owner \in Threads \cup {NoOne}
  /\ depth \in Nat /\ (depth = 0 <=> owner = NoOne)
  /\ pc \in [Threads -> Points]
  /\ arg \in [Threads -> Bars \cup {0}]
  /\ \A t \in Threads : pc[t] # "idle" => arg[t] \in Bars
  /\ out \in [Threads -> Pointers \cup {Error}]
  /\ kernel \in Stages \cup {"compact"}
  /\ held \subseteq Gets["bound"]
  /\ mmaps \in [Bars -> Nat]
  /\ met \subseteq Threads /\ late \subseteq Threads \X Bars

\* The double-checked test of base[bar]: a BAR is mapped at most once, so
\* every driver gets the same pointer and no mapping is leaked.
MappedOnce == \A b \in Bars : mmaps[b] = IF base[b] \in Bars THEN 1 ELSE 0

\* The critical section of linuxDevPCIToLocalAddr(): who is in it owns devLock
\* and has it once for good, so one thread at a time fills the pointers and
\* descriptors of a device, and finds a pointer that was not filled yet.
CriticalSection == \A t \in Threads :
  /\ pc[t] \in Locked => owner = t
  /\ pc[t] \in {"res", "map1", "uio", "map2"} => base[arg[t]] = Null
  /\ pc[t] \in {"undo1", "undo2"} => base[arg[t]] = Failed

\* Whatever step of the probe fails, and however often the kernel driver is
\* bound and unbound, it gives back what it got and nothing else.
KernelBalanced == held = IF kernel \in Stages THEN Gets[kernel] ELSE {}

\* Every first call of every driver ends with the same pointer, as the BAR is
\* mapped once, by one thread; this invariant is inductive.
IInv == TypeOK /\ MappedOnce /\ CriticalSection /\ KernelBalanced

\* devPCIToLocalAddr() returns an error code, or 0 with a pointer to the BAR,
\* unless its first test, without devLock, fell between a mmap() that failed in
\* another thread and the clearing of base[bar] there (820, 786-798).
PointerValid == \A t \in Threads :
  pc[t] = "idle" => out[t] \in Bars \cup {Error} \/ t \in met

\* devLock is released as often as it is taken, except by a thread that lost the
\* race for the first call: its second test found the BAR mapped, and it keeps
\* the lock for good (822, 832).
KeptBy(t) == {b \in Bars : <<t, b>> \in late}
LockCounted == \A t \in Threads :
  /\ owner = t => depth = Cardinality(KeptBy(t)) + IF pc[t] \in Locked THEN 1 ELSE 0
  /\ owner # t => KeptBy(t) = {} /\ pc[t] \notin Locked

\* A mapping made for a BAR shows that BAR.
ShowsItsBar == \A b \in Bars : base[b] \in Bars => base[b] = b
=============================================================================
