# devLib2: a verification project

devLib2 gives EPICS drivers access to VME and PCI boards: it finds them, maps
their memory, keeps track of who uses which addresses, and delivers their
interrupts. This directory models it where threads, locks, failures, byte orders
and boundaries make the code hard to test, checks the models with TLC on small
instances, and proves what matters most with TLAPS for every value of the
constants.

`PROJECT.json` is the index: components, runs, a mutant for each property, the
lines of the source that each definition stands for, findings, hazards and
theorems. Line numbers refer to the source files of the repository.

## 1. Inventory

### The system's parts

| component | source | state | operations | modules |
|---|---|---|---|---|
| Linux UIO interrupt service | `pciApp/os/Linux/devLibPCIOSD.c` 115-138, 346-371, 856-1041 | per device: `fd`, `devLock`, list `isrs`; per handler: `waiter_status`, event `done`, a thread | connect, disconnect, the interrupt thread | `IrqService`, `UioIsr` |
| Linux BAR mapping, configuration space | same file, 374-422, 744-854, 1043-1114 | per device: `base`, `rfd`, `fd`, `cfd`, `cmode`, `devLock` | ToLocalAddr, BarLen, ConfigAccess | `PciMap` |
| UIO kernel driver | `linux/pci_generic_msi.c` | what it got from the PCI core, the regions it made | probe and its error paths, remove | `PciMap` |
| Linux device list | `pciApp/os/Linux/devLibPCIOSD.c` 140-345, 426-742 | `devices`, `pciLock` | init with its failures, search with a callback | `LinuxBus` |
| PCI registry, initialisation, search | `pciApp/devLibPCI.c` | `pciDrivers`, `pdevLibPCI`, `devPCIInit_result` | register, use, one-time init, parse a specification, find, forward calls | `PciService`, `DevLibPCI`, `DriverTable` |
| Shared PCI scan and its OS layers | `pciApp/osdPciShared.c`, `pciApp/os/vxWorks`, `os/RTEMS` | device list, index register of the machine, interrupt tables | scan, search, BAR size probe, configuration access, connect, disconnect | `SharedPci` |
| Explore interrupt counter | `exploreApp/src/devexplore_irq.cpp` | per record: `wait_for`, `queued`, `irqs`, `lost` | handler, scan completion, read, init, exit | `ExploreIrq` |
| Explore registers | `exploreApp/src/devexplore.cpp`, `devexplore_util.cpp` | per record: parsed link, lock, VAL | initialise, read, masked write, arrays | `ExploreReg` |
| Memory mapped I/O | `common/os/*` | none | read and write in big, little and native order | `Mmio` |
| FRIB flash programmer | `exploreApp/src/devexplore_frib.cpp` | image, state, worker, abort flag, write lock of the chip | load, start/stop, status, the worker | `FribFlash` |
| VME address bookkeeping | `vmeApp/devLibVME.c` | `addrFree`, `addrAlloc`, `addrListLock` | register, allocate, unregister | `AddrSpace`, `VmeAddr` |
| VME OS layers | `vmeApp/os/*` | vector table, interrupt levels | map, probe, connect, disconnect, in use, levels | `VmeBus`, `VmeCrate` |
| VME shell commands | `vmeApp/vmesh.c` | `vmeautodisable`, handlers on vectors | vmeread, vmewrite, vmeirqattach, vmeirq | `VmeBus`, `VmeCrate` |
| VME64x CSR | `vmeApp/devcsr.c`, `devcsr.h` | registers of the cards | probe a slot, test it against a list, set base addresses | `VmeCsr`, `VmeCrate` |
| PCI shell commands | `pciApp/pcish.c`, `devLibPCIStrings.c` | little | interactive | - |
| Compatibility, dummies, tests | `devlib_compat.c`, `devlib_dummy.c`, `testApp` | none | - | - |

### How they interact

A driver, or the Explore device support, finds its board through the PCI
registry, which hands the call to the OS layer selected at start up. The board's
registers are reached through a BAR that is mapped once and then shared, with the
access macros of `common`. Connecting an interrupt on Linux creates a thread for the
handler; it blocks in `read()` on the UIO descriptor of the device, which all the
handlers of the device share. vxWorks and RTEMS put the routine on a line that
several devices may share. The handler of the Explore support asks the IOC's scan
system for a scan; the record is then processed on a callback thread, whose
completion reports back to the support. VME drivers get their addresses from the
bookkeeping in `devLibVME.c`, find their cards in the CSR space and connect a
routine to a vector.

Shared state and its locks: `pciDriversLock` guards the registry, `pciLock` the
device list, `devLock` (one per PCI device) the handlers, descriptors and BAR
pointers of a device; a search holds `pciLock` and one `devLock` during a callback.
`epicsInterruptLock()` is held around every handler on Linux, and around each probe
of a BAR elsewhere; `priv.lock` guards the counters of an Explore record, the lock of
a record its register access, `addrListLock` the VME lists, one list operation at a
time. Nothing guards the VME vector table and the registers of cards.

### What is hard, and what makes it right

- **Interrupt service.** A stop request races with the start of the thread, the
  event that says "done" is signalled after the lock is released, the object is
  freed by whoever disconnects, and the lock is dropped in the middle of
  `stopIsrThread()`. Right: no object is used after `free()`, a stop request is
  never lost, a handler is registered once, runs only while registered and is not
  running once disconnect has returned, interrupts are delivered, disconnect returns.
- **BAR mapping.** Double-checked locking, a retry with a second file after a
  failed one, a pointer that transiently holds `MAP_FAILED`, a kernel driver that is
  unbound meanwhile or fails half way in its probe. Right: one mapping for each BAR,
  of the right BAR, a valid pointer for every success, `devLock` given back on every
  path, everything the kernel driver got given back.
- **Library and device list.** Drivers are chosen while another thread initialises,
  initialisation fails at many places and happens once, callbacks run under two locks
  and search in turn, the list is built from files that may be unreadable. Right:
  one driver, one initialisation, nobody enters before it, locks held where the code
  says and nowhere else, every search ends, and finds the instance it was asked for.
- **Shared scan.** The size of a BAR is probed by overwriting it through an index
  register that the whole machine shares; functions and symbols may be missing;
  devices share lines. Right: BARs keep their addresses, answers are true or
  absent, a disconnect removes one's own routine.
- **Interrupt counter.** Interrupts come before the IOC runs, during a scan, and
  faster than scans; callback queues overflow; the record moves between
  priorities. Right: never more than one request in a queue, no forgotten
  interrupt, every interrupt counted once.
- **Registers.** A masked write reads, changes and writes while other records share
  the register; byte orders swap differently on each CPU; arrays step through the BAR
  with a step that may be negative. Right: accesses stay in the BAR, no field is
  lost, a field that is read is the one in the register.
- **Flash programmer.** The worker leaves its lock while the chip works, records
  abort, reload and restart it meanwhile, and the chip may be slow or broken.
  Right: a success means that the image is in the chip, an abort ends one run
  and no other, the chip is locked again whatever happened.
- **VME bookkeeping.** Ranges are split and merged, calls fail half way,
  arithmetic is done on `size_t`. Right: blocks never overlap, nothing is lost,
  refusals are justified.
- **VME vectors and cards.** Test and installation of a routine are two steps,
  RTEMS removes before it installs, the note of the level to switch off is made
  before the handler is there, base addresses are written byte by byte. Right: a
  connected routine stays, a "rora" card is heard once per enabling if its level can be
  switched off, cards and registers are those that were asked for.

`PROJECT.json` "hazards" lists each of these with the properties that would catch it,
and says of the others why nothing covers them.

## 2. The modules

| module | what it is |
|---|---|
| `IrqService` | abstract: what connect and disconnect promise a driver |
| `UioIsr` | the Linux interrupt service of one device, implements `IrqService` |
| `PciMap` | mapping the BARs and opening the configuration space of one Linux device, with the kernel driver under it |
| `PciService` | abstract: what the PCI library promises the device supports |
| `DriverTable` | pure: how calls are checked and forwarded to a driver's table, how identifiers match |
| `DevLibPCI` | registry, one-time initialisation, specifications of a search |
| `LinuxBus` | `DevLibPCI` composed with the Linux driver: list, search, locks; implements `PciService` |
| `SharedPci` | the drivers of vxWorks and RTEMS over one configuration space |
| `ExploreIrq` | the interrupt counter record and the scan system it uses |
| `Mmio` | pure: the access macros, for CPUs of both orders |
| `ExploreReg` | the register records, on `Mmio` |
| `FribFlash` | the programmer of a FRIB flash chip, with the chip |
| `AddrSpace` | abstract: claims on an address space |
| `VmeAddr` | the bookkeeping of one VME address space, implements `AddrSpace` |
| `VmeBus` | pure: pointers, probes and the bytes of `vmeread` and `vmewrite` |
| `VmeCsr` | pure: how cards are recognised, values of base address registers |
| `VmeCrate` | vectors, levels, shell handlers and cards of one crate, on `VmeCsr` and `VmeBus` |
| `...Proofs` | theorems about `UioIsr`, `PciMap`, `LinuxBus`, `SharedPci`, `FribFlash`, `VmeAddr`, `VmeCrate`, and in `ExploreProofs` about `ExploreIrq` and `ExploreReg` |
| `MC...` | instances for TLC: names, and functions given as constants |

### UioIsr

Driver threads (`Clients`) are in a call of connect or disconnect or idle; the
objects (`Isrs`) are addresses that `calloc()` may return, so that a use after
free shows: `heap` holds the allocated ones. Each object's thread has its own
program counter `tpc`. A step is the code between two points where another
thread can observe it:

| code | actions |
|---|---|
| connect 867-877: allocate, no lock | `ConnectAlloc`, `ConnectNoMemory` |
| 879-895: take `devLock`, open, search the list | `ConnectNoDevice`, `ConnectDuplicate`, `ConnectNew` |
| 903-913: create the thread, `devLock` held | `ConnectThread`, `ConnectNoThread` |
| 915-918: add to the list, unlock | `ConnectAdd` |
| disconnect 1020-1028, `stopIsrThread()` 995-1001 | `DisconnectUnknown`, `DisconnectFound` (`DisconnectDone`, `DisconnectStop`) |
| 1003: wait for the event | `DisconnectWait` |
| 1005, 1000, 1030-1040: lock again, test, free | `DisconnectRecheck` |
| thread 937-949 | `ThreadRun`, `ThreadAbandon` |
| 955-960 | `ThreadCallback`, `ThreadCallbackReturns`, `ThreadNoCallback` |
| 962-973 | `ThreadRead`, `ThreadReadFails` |
| 981-982, 984-987 | `ThreadAgain`, `ThreadLeave`, `ThreadSignal` |

The kernel's UIO driver counts interrupts, and a descriptor remembers how many
its readers have seen. All threads of a device share the descriptor, so that
cursor is one Boolean, `pending`; `DeviceInterrupt` is the external step that
sets it. `owed` is a history variable: an interrupt was asserted while the handler was
connected and it has not run since.

### PciMap

Threads map BARs of one device. `base[b]` is null, `MAP_FAILED`, or the BAR whose
memory the mapping shows, which is what the choice of file and region number can
get wrong. Opening a file and `mmap()` may fail whenever they are called. The two
tests of `base[bar]`, each file operation, the store of the result of `mmap()`
and the later clearing of it are steps of their own, because the first test and the
last read are made without the lock. `devLock` is a recursive mutex. BarLen only
takes the lock for a moment and changes nothing; ConfigAccess, which does everything
under `devLock`, is one step with its results: done, refused for its width or for want of permission,
failed, or out of memory.

`late` and `met` are history variables that single out the two faults of the race for the
first mapping: `late` has the threads whose second test found the BAR mapped, which return
with `devLock` (832), `met` those whose first test saw a `MAP_FAILED` that another
thread was about to clear (786).

`kernel` and `held` are the driver of `linux/pci_generic_msi.c`: the steps of its probe
each get something or fail, an error path gives back what the steps before got,
and remove gives back everything. It is bound and unbound while processes have its
device open: their descriptor is then "dead" and stays so, because `open_uio()`
keeps one that it has (`fd != -1`). A "compact" kernel driver is one that numbers its
regions over the memory BARs only.

### DevLibPCI, DriverTable and LinuxBus

Each critical section under `pciDriversLock` is one action (`RegisterDriver`, `Use`).
A call of the API (`Call`) passes `epicsThreadOnce()`, in which one thread runs
`devInit()` (`StartInit`, `SelectDriver`, `InitEnds`) while others wait, and is then
answered by the library itself (`Refusal`) or enters the driver. A specification is a
sequence of words (`Parse`), a wish for an address, a slot or an instance.

`LinuxBus` replaces the driver by the Linux one: `InitOpen` to `InitDone` read the
directory, one entry per step, and each failure of it is an action; the host bridge
decides at which end of the list a device goes (`Insert`). `FindStart`, `Visit`,
`MatchNot`, `MatchWish`, `MatchCall`, `VisitDone` are the walk under `pciLock` and one
`devLock`; `Callback` is a function of the driver, which may search in turn
(`CallbackSearch`, `InnerVisit`). The other calls are what they do with the lock of
their device; what happens to the device is `UioIsr` and `PciMap`:

| code | actions |
|---|---|
| ToLocalAddr 821: the test without the lock | `FirstTest` |
| 822, and the first lock of every other call | `DeviceLock` |
| 823-832: the second test finds no base, map, unlock | `MapBar` |
| 823, 834: it finds one, return with the lock | `KeepLock` |
| `stopIsrThread()` 1001-1003 | `DisconnectWait` |
| 1005 | `DisconnectResume` |
| the unlock at the end of the others | `DeviceDone` |

`mapped` has the BARs that have a base, `kept` the devices whose `devLock` a call
did not release when it returned. A thread is "stranded" when the event it waits for in a disconnect will not come,
because the thread of the handler left at 939-943 (`UioIsrHangs` shows how) or needs
a lock that its waiter has kept. `sysfs` is a directory that stays as it is.

### SharedPci

`bus` holds the cards and `reg` their registers, `index` the one index register of the
machine. A value is the set of its bits; the two lowest tell what a BAR is, where PCI
has four. `sharedDevPCIInit()` is a step for each function it finds (`ScanDevice`) and
one for its end or its failure (`ScanEnds`).

| code | actions |
|---|---|
| search 145-191: the next match, its callback, the end | `FindStart`, `Callback`, `FindEnds`, `Found` |
| BarLen 229-292: lock, read, write ones, read, write back, unlock | `BarLen`, `SelectBar` before each of `ReadStart`, `WriteMask`, `ReadMax`, `Restore` |
| `rtemsDevPCIConfigAccess()`: a write, a read, an access that fails | `Config`, `ConfigSelect`, `ConfigWrite` |
| `sharedDevPCIConfigAccess()` 295-341 on vxWorks, where the BSP protects an access | `ConfigVxWorks` |
| connect, disconnect, switch | `Connect`, `Disconnect`, `SwitchInterrupt` |

`epicsInterruptLock()` lets no other thread take a step (`CanRun`). What lies behind a
list of identifiers in memory is an argument of the search. `Connect` and `Disconnect`
differ with the system in how a routine is found again; a routine is not connected
to a device for which it is installed (a bound of the model). `build` is the system at hand:
its OS, the symbols its BSP has, its table of interrupt levels.

### ExploreIrq

The handler `isrfn()`, the completion callback and the read are critical sections of
one lock, a step each. The scan system is external and modelled by how the code
uses it: a request queues the record in the queue of its priority or fails, a
callback thread takes it, processes the record if it is still there, and calls the
completion. `disturbed` is a history variable: the IOC was paused, the record
was moved, or a queue was full.

### ExploreReg and Mmio

A value is the set of its bits, a BAR a sequence of bytes, so that a mask is an
intersection, a shift a translation and a swap a reversal of the bytes. `InitRecord`
is the whole initialisation of a record: options, links to a device that is not there,
ranges, the first read. Processing is `ReadBegin` or `WriteBegin`, one step per
register access (`ReadElement`; `ReadOld` then `WriteElement` for a masked write) and
`Finish`; records of one lock set exclude each other, which the database does and
the code relies on. `last`, `fresh` and `wild` are history: what a record wrote last,
which records were read since the last write, which accessed memory outside of the BAR.

### FribFlash

| code | actions |
|---|---|
| `load_bitfile_wf()`, `startstop_lo()`, `status_mbbi()` | `Load`, `Start`, `Abort`, `Show` |
| `run()` 145-185 | `Begin`, `Refuse` |
| the erase loop 185-193 | `EraseEnable`, `EraseWait`, `EraseCommand`, `EraseDone` |
| the program loop 206-222 | `ProgramEnable` to `ProgramDone` |
| the verify loop 235-248 | `VerifyCommand`, `VerifyWait`, `VerifyWord`, `VerifyMismatch` |
| between the loops, and 254-270 | `PhaseEnds`, `Aborted`, `Succeed` |

What is done under `flashProg::lock` is one step; in the loops each register access
is. `pc` is where the worker is. Addresses count words. The SPI engine and the
chip are external: a command takes effect some time after it was written or
never, erasing and programming may fail, programming only clears bits, and a
command that comes while the engine is busy may or may not replace the one at work. The
module allows several programmers on one set of registers, which is what the
code makes of records with different `flash_offset`; the run has one. `Offset` is
where its part of the chip begins, `Reach` the number of words that the 24 address bits of a
command reach; an image that goes past either the chip or `Reach` is refused.

### VmeAddr

One call is one step, as one driver thread makes it. The two lists are sets of
ranges, because they are ordered by address and never overlap (`Disjoint` is
checked, not assumed). `First` is the first range of a list with some property,
which is what the searches find. Sizes and addresses are computed modulo
`Modulo` where `size_t` would wrap. `lost` is a history variable: addresses that
went when memory ran out. Two ends of the model are states in which the program
has stopped: a null pointer was dereferenced ("crash"), a search does not end
("hang").

### VmeCrate, VmeCsr and VmeBus

| code | actions |
|---|---|
| devConnectInterruptVME: test, install | `ConnectStart`, `ConnectTest`, `ConnectInstall`, `InstallFails` |
| devDisconnectInterruptVME: test, remove, on RTEMS restore | `DisconnectTest`, `Remove`, `Restore`, `RemoveFails` |
| devEnableInterruptLevelVME and its opposite | `EnableLevel`, `DisableLevel` |
| `vmeirqattach()` with its handler | `AttachTest`, `AttachMark`, then as connect; `Interrupt` |
| `devCSRTestSlot()`, `devCSRProbeSlot()` | `Test` |
| `CSRSetBase()` | `BaseStart`, `WriteByte` |
| `vmeread()`, `vmewrite()` | `VmeRead`, `VmeWrite` |

`table` is what the system has in each vector, `owned` who connected a routine there
and did not disconnect it. `raced` is a history variable: two calls were changing the
vector at once, which no lock prevents and no caller in the repository does. `failed` has the
levels which the handler of `vmesh.c` tried to switch off in vain (198-199) since they were
enabled last. `build`
is the system: RTEMS, or vxWorks on a PowerPC, on a PC or on other CPUs, whose
functions differ. A value is the sequence of its bytes.

## 3. The runs

All runs switch the deadlock check off: a driver need not call again, an IOC ends, the
numbers of calls and of interrupts are bounded, and a library whose initialisation
failed does nothing more.

| run | instance | checks |
|---|---|---|
| `UioIsrSafe` | 2 drivers with a handler each, 2 objects | `NoUseAfterFree`, `IInv`, `StopIsFinal`, refinement of `IrqService` |
| `UioIsrLive` | 1 driver, 1 handler, 2 objects, fair | `RunningThreadStops`, `EveryInterruptSeen` |
| `UioIsrHangs` | the same, 1 object | violation: `DisconnectReturns` |
| `PciMapSafe` | 2 threads, an I/O port BAR and 2 memory BARs, one of them shared, kernel drivers "compact" and "generic_msi" | `IInv`, `PointerValid`, `LockCounted`, `ShowsItsBar` |
| `LinuxBusSafe` | 2 threads with 3 and 2 calls, 2 drivers, a host bridge and 2 cards, of one of which the files may be missing, both orders of the directory, 2 labels of a slot, fair | `IInv`, `FoundIsInstance`, `ListMatchesBus`, refinement of `PciService`, `CallsReturn` |
| `SharedPciSafe` | 2 threads, 2 crates, 5 systems, 3 lists, registers of 4 bits | `IInv`, `ToldTheTruth`, `StaysConnected` |
| `SharedPciEnd` | the same | violation: `FindAsDocumented` |
| `ExploreIrqSafe` | 2 priorities, 5 interrupts, counters modulo 4, fair | `WaitForExact`, `QueuedIsSeen`, `QuietIsCurrent`, `InterruptIsSeen` |
| `ExploreRegSafe` | 3 records in 6 databases, 4 CPUs, a BAR of 4 bytes of 2 bits, offsets modulo 16 | `IInv`, `NothingLost`, `ReadsTruth` |
| `FribFlashSafe` | 1 programmer with the second and third of 3 erase blocks, images of 1, 2 and 3 program blocks | `IInv`, `NoStaleAbort`, `SuccessIsProgrammed`, `CommandsInRange`, `AbortEnds` |
| `VmeAddrSafe` | 2 owners, 4 addresses, `size_t` of 2 bits, a board at 2 | `Disjoint`, `FreeMerged`, `AddressesKept`, `AnswersTrue`, refinement of `AddrSpace` |
| `VmeCrateSafe` | 2 threads, 2 vectors on one level, 4 calls, 4 systems, 4 cards | `IInv`, `RoraOnce`, `CsrExact` |

What they show, in a sentence each, is in `PROJECT.json` "about". `IInv` joins in each
module the type invariant with the invariant its proofs are made of, so that TLC tests
what TLAPS is to prove.

Several properties make an exception, because the code keeps the promise only outside of it,
and a comment at the property says so. The exceptions name the state in which the code
fails, so that each property says where it fails as well as that it fails nowhere else:

- `PointerValid`: a call whose first test fell between another thread's failed `mmap()`
  and the clearing of `base[bar]` (`met`).
- `LockCounted`: a thread that lost the race for a first mapping keeps `devLock`, once for each race
  (`late`).
- `CallsReturn`: a disconnect whose event does not come, the calls that come to a lock kept in
  that way (`AtKept`), and those behind a lock that such a call holds (`BehindKept`). The run
  comes to `AtKept`; `BehindKept` needs a third call of both threads.
- `FindExact` in `ToldTheTruth`: when `DEVPCI_END` ends the list, devices that
  what lies behind it in memory describes. `SharedPciEnd` shows one.
- `StaysConnected`: under the older disconnect call of vxWorks a routine may be gone, but then that
  of another device, which does not have it connected, is there in its place.
- `RoraOnce`: a level that could not be switched off (`failed`); it and `HandlersKept` leave
  out vectors that two calls change at once, `HandlersKept` also the PowerPC build.
- `NothingLost`: records in different lock sets; `InsideBar`: offsets that are no multiple of the
  size; `ListMatchesBus`: a host bridge that cannot be read.
- `AddressesKept`: the block that was cut out when `calloc()` failed (`lost`).

### Why the bounds are enough

- `UioIsr`: two objects let a freed address be used again while the other handler's thread
  runs, and two drivers are what a race on `devLock` and the list needs; each
  takes part in both connect and disconnect again and again, without a bound.
- `PciMap`: mapping a BAR involves one pair of racing threads and the lock; three BARs are
  the smallest set in which `UIOCOMPACT` shifts some region numbers and leaves
  others alone. The kernel driver is bound and unbound without a bound.
- `LinuxBus`: two threads make a race of first calls, a search against one that has
  found its device and uses it, and two that map one BAR, of which the loser makes another
  call (`MaxCalls` is 3 and 2). Two cards of one
  kind give instances 0 and 1 and, with a list that matches both ways, 2. The
  reads of the directory may fail at each entry. Lengths are modulo 16, and one BAR
  is exactly that long.
- `SharedPci`: two threads interleave two accesses to the index register; the crates
  have a gap after the second function, a function of a bridge, wide BARs, a BAR that is larger than
  its lower word; the systems have all symbols, some, or none; the lists end with a device 0 and
  with `DEVPCI_END`, leave devices out, and describe one twice. Searches read a list
  that nothing changes any more, so they are over before the other calls begin
  (`SearchFirst`; the theorems hold without it); no call, probe or connection is bounded.
- `ExploreIrq`: five interrupts cover one before the scan system runs, one that starts a
  scan, two that come during it and one after, and make counters of two bits wrap.
- `ExploreReg`: the databases pair two fields of one register, two lock sets, arrays that
  are longer than the BAR, a step of -1, a step of 0, an access past the end, each byte
  order on each CPU, and each error of a link. Records are processed without a bound.
- `FribFlash`: an image of three words takes two erase blocks and two program blocks and is
  padded, one of five does not fit behind the offset; the number of runs, aborts and loads is not bounded.
- `VmeAddr`: four addresses hold a block with a free neighbour on either side and a taken
  one; the space is as large as `size_t`, the case in which the arithmetic wraps.
- `VmeCrate`: `MaxCalls` of 4 is connect and disconnect by each thread, or an attach, an
  enabling, an interrupt and another attach to the neighbouring vector. The test of a slot depends
  on the cards only and is made as the first call; operators read and write memory
  while nobody else is in a call, as nothing else touches it.

### Fairness

`UioIsr!FairSpec`: a client inside a call and a thread outside `read()` go on, under
strong fairness, as the lock they wait for is held for a bounded time again and
again; the interrupt threads have the highest priority of all EPICS threads. A
`read()` with something to return returns, and is not interrupted by a signal
every time. Nothing is said of the device: properties that need one that keeps
interrupting have `DeviceIsBusy` as their premise. Nobody is made to call.

`LinuxBus!FairSpec`: a thread inside a call goes on when it can (weak fairness), which
includes that callbacks return and, unless the caller is stranded, that the thread which a
disconnect waits for ends. Calls are
bounded, so that nobody overtakes a waiter for ever and weak fairness is enough.

`ExploreIrq!FairSpec`: the callback threads of the IOC run (weak fairness).

`FribFlash!Spec`: the worker's thread runs and the status record is processed when it
was asked for (weak fairness). Nothing is said of the chip.

### Findings

`UioIsrHangs`: a thread that is asked to stop before it has run leaves without
signalling (`devLibPCIOSD.c` 939-943), and disconnect waits for ever.

`SharedPciEnd`: `devLibPCI.h` 71 says that `DEVPCI_END` is the last item of a list; the Linux
driver stops there (703), the search of vxWorks and RTEMS reads on up to a device 0
(`osdPciShared.c` 169).

Found while reading, and part of the models, as the actions or premises named, without a
run of their own:

- Linux interrupts: two handlers on one device share the cursor of the descriptor, and
  one may never be called (962, `UioIsr` with two handlers of one client); two
  threads that disconnect the same handler can free it twice (shared `Callers`).
- Linux mapping: a thread that loses the race for the first mapping of a BAR keeps `devLock`
  (832 is inside the inner test, `SecondTest`, `KeepLock`); while one thread maps a BAR, another one sees
  `MAP_FAILED` in `base[bar]` and returns it as a success (786); `DEVLIB_MAP_UIOCOMPACT`
  does not skip the upper half of a 64 bit BAR (774); a descriptor that was open when
  the kernel driver was unbound stays dead after it is bound again.
- Linux list: a BAR of 4 GiB or more has length 0; the list comes out in the
  opposite order when the host bridge cannot be read; a failed initialisation is
  kept for ever; lists of identifiers that overlap count a device twice; a callback that
  disconnects a handler waits for a thread that needs the lock the search holds.
- `devLibPCI.c` 641-655: enabling an interrupt tests the entry for configuration access
  and calls the entry that RTEMS leaves empty (`NullCall`).
- vxWorks: level 0 should enable an interrupt (`devLibPCIImpl.h` 63) and disables it
  (`os/vxWorks/devLibPCIOSD.c` 257-263, `SwitchInterrupt`, which does as the code does; no
  property speaks of levels); a routine stays installed when the level cannot be
  enabled after it was connected.
- Shared scan: functions behind a gap are not found.
- Explore: when the interrupt cannot be enabled the record's private structure is
  deleted while the handler stays connected with it (`devexplore_irq.cpp` 202);
  interrupts that come during a scan are merged into one more scan; masked writes of
  records in different lock sets lose updates; a waveform whose offset is no multiple
  of its size reads behind the BAR.
- VME addresses: a request behind the last free range runs off the list
  (`devLibVME.c` 231); `devAllocAddress()` aligns sizes but not bases (796) and never
  finds room in a wholly free A32 space on a 32 bit CPU (599).
- VME interrupts: `vmeirqattach()` leaves its note when the connection fails, so that the
  vector is refused from then on, and a failed "rora" over an installed "roak" turns that
  handler into one that disables the level; it does not refuse negative vectors
  (`vmesh.c` 230-241); the PowerPC vxWorks build never finds a vector in use and never
  disconnects.
- VME cards and shell: a card whose identifier reads as all ones matches every
  entry; the last bytes of a space cannot be reached and a length that wraps is let
  through (`vmesh.c` 61); on a little endian CPU `vmeread` of 8 and 16 bits prints ones and
  `vmewrite` writes zeros (114-120, 164-169).

## 4. The proofs

| theorem | says | from |
|---|---|---|
| `UioIsrProofs!Inductive` | `Spec => []IInv` | `SingleCaller` |
| `TypeCorrect`, `MemorySafe`, `StopFinal`, `Implements` | `[]TypeOK`, `[]NoUseAfterFree`, `StopIsFinal`, `ServiceSpec` | the above |
| `PciMapProofs!Inductive`, `MapsOnce` | `[]IInv`, `[]MappedOnce` | - |
| `RightBar` | `[]ShowsItsBar` | `NoGaps` |
| `ValidPointer`, `LocksAddUp` | `[]PointerValid`, `[]LockCounted` | - |
| `LinuxBusProofs!Inductive` | `[]IInv` | - |
| `Serves` | `Spec => ServiceSpec` | - |
| `InOrder` | `[]ListMatchesBus` | `InBusOrder` |
| `RightDevice` | `[]FoundIsInstance` | - |
| `SharedPciProofs!Inductive` | `[]IInv` | - |
| `TellsTheTruth` | `[]ToldTheTruth` | - |
| `RoutinesStay` | `[]StaysConnected` | - |
| `ExploreProofs!IrqTypeCorrect`, `NoExtraCallback`, `QueuedHasCompletion` | `[]IrqTypeOK`, `[]WaitForExact`, `[]QueuedIsSeen` | - |
| `CountIsCurrent` | `[]QuietIsCurrent` | - |
| `RecordsSound`, `StaysInside` | `[]IInv`, `[]InsideBar` | - |
| `ShowsTheBar` | `[]ReadsTruth` | - |
| `FieldsKept` | `[]NothingLost` | `RoomForSum` |
| `FribFlashProofs!Inductive` | `[]IInv` | - |
| `NoAbortIsLeft`, `InRange` | `[]NoStaleAbort`, `CommandsInRange` | - |
| `Written` | `SuccessIsProgrammed` | `OneProgrammer` |
| `VmeAddrProofs!Inductive` | `Spec => []IInv` (the `IInv` of that module) | - |
| `TypeCorrect`, `NeverOverlap`, `AlwaysMerged`, `NoneLost` | `[]TypeOK`, `[]Disjoint`, `[]FreeMerged`, `[]AddressesKept` | the above |
| `Implements` | `SpaceSpec` | the above |
| `ToldTheTruth` | `[]AnswersTrue` | the above |
| `VmeCrateProofs!Inductive`, `CrateSound` | `[]VectorInv`, `[]IInv` | - |
| `HandlersStay`, `HeardOnce` | `[]HandlersKept`, `[]RoraOnce` | the above |
| `BusIsTold` | `[]CsrExact` | - |

A "-" stands for nothing but the module's assumptions on its constants, which every run
evaluates: that "nobody" is not a thread, that sizes are positive, that a flash holds
whole erase blocks and an erase block whole program blocks, that 2^32 is a multiple of
4, that alignments divide the range of `size_t`, as `1 << alignment` does, that the two
halves of a BAR of 64 bits come together, that a list of identifiers ends with its first
terminator, whose number no card has, and that what the device supports, the links of records and the cards hand
to the code has the type the code declares for it. The theorems hold for every number of
threads, BARs, devices, records, programmers and vectors, for every crate, listing,
database, list, link and image.

The hypotheses that are named in the table are conditions under which the code keeps a
promise that it does not keep otherwise:

- `SingleCaller`: each handler is connected and disconnected by one driver thread, as the
  drivers in the repository do. Without it the theorems of `UioIsrProofs` are false.
- `NoGaps`: `DEVLIB_MAP_UIOCOMPACT` is used only when no BAR below a memory BAR is unused
  or the upper half of another one: `map_bar()` lowers the region number for I/O ports
  alone (774). The three BARs of `PciMapSafe` have no gap.
- `InBusOrder`: `readdir()` goes up the bus from the host bridge or down to it, which is
  what the code around `host_is_first` (569-573) takes for granted; `MCLinuxBus`
  checks it of its listings.
- `RoomForSum`: a BAR and the largest register together fit into 32 bits; the size of a
  BAR is a power of two in an `epicsUInt32`.
- `OneProgrammer`: nobody else works on the chip; two programmers on one chip are a hazard
  for which `SuccessIsProgrammed` is false.

**`UioIsr`.** `NoUseAfterFree` is not inductive: that an object which is
freed has no thread any more depends on why the event was signalled, who waits on
it and what is on the list. `IInv` adds: `devLock` is held exactly from the
search to the adding of a new object (`LockInv`), the new object is private
until then (`PrivateInv`), a handler has one object on the list (`OneObjectInv`),
a listed object was asked to stop only by a client that is still in the call
(`StopperInv`, `StoppingInv`), the event, or its having been consumed, means the
thread has gone (`DoneInv`), and a thread agrees with the status of its object
(`ThreadInv`). There is one lemma for each action (`...Keeps`); `Implements` maps
connect, disconnect and the handler's entry and return to the steps of
`IrqService` and everything else to a stutter.

**`PciMap`.** A BAR is mapped once because a thread past the second test is alone
there (`Alone`) and the BAR is unmapped until it stores its result; the loser of the race,
which keeps `devLock`, cannot break this, since it holds the lock it took. What the
kernel driver holds is a function of how far its probe has come (`KernelKeeps`).
`ValidPointer` and `LocksAddUp` need what a call leaves behind (`LeaveInv`): `MAP_FAILED` is in
`base[bar]` only while somebody is about to clear it, a BAR once mapped stays so, hence a thread
is late for a BAR once at most, as its next first test finds the pointer, and the depth of the
recursive mutex is the number of BARs for which its owner was late, plus one in the critical
section (`LockSteps`). Both hold for any number of threads on one BAR. `RightBar` is about the number
`map_bar()` computes: the n-th region of a kernel driver is that of one BAR only
(`RegionIsUnique`), and without gaps the BARs that a compact driver leaves out are those
`map_bar()` counts.

**`LinuxBus`.** `IInv` has three parts. `LockInv`: one thread at a time is in the
initialisation, which leaves an answer and a driver (`InitInv`); a call carries what its
point of execution needs, so a search has a list and a call for a device has one
(`CallInv`); and `pciLock` and each `devLock` belong to exactly the thread whose point
lies between lock and unlock (`LocksHeld`), but for a `devLock` that was kept, which has
an owner for ever and is that of a device with a mapped BAR (`KeptInv`). `OthersKeep` is the lemma behind the last one: a
step that changes a lock only between "nobody" and the thread that takes it
disturbs no other thread. `ListInv`: the list is empty before the scan, holds the
entries the scan has passed and could read while it runs, ascending or descending as the
first record was the host bridge or not, and is the same ever after. `SearchInv`: between
two steps of a search its counter is the number of pairs of a device and an entry of the
list of identifiers that match and lie behind it (`HitsUpto`, `Counted`), so that the match
at which `devmatch()` stops has as many before it as the instance that was asked for.
`Serves` maps `Use` to the selection, the end of `devInit()` to the settlement,
entering a driver and returning to those of `PciService`.

**`SharedPci`.** `BarsIntact` alone is not inductive: that a probe puts the right value back
depends on what it read, hence on what was selected when it read it. `ProbeInv` says of
each point of a probe which register is selected and what has been read, `RegisterInv` that
the only BAR that does not show its address is the one whose probe is between its two
writes. Both need that one thread has locked the interrupts (`LockIsHeld`); `HolderMoves` is
the lemma for every step of that thread, `RestKeeps` for the steps that leave threads and
registers alone. `ProbeFindsSize` is about bits: the lowest address bit that stays set is
the size. That an address is whole follows from what the scan reads of the two halves of
a BAR (`AddressIsWhole`). A search goes through pairs of a device and an entry: `SearchInv`
says that it has told of the pairs that match up to the last one and of no others, and
`ListInv` that the devices lie up the bus, which together with the terminator of the
list is `FindExact`: no entry before the terminator is one, and `DEVPCI_END` itself matches no
card, so whatever a search tells of beyond the list comes from the memory behind it.
`StaysConnected` is a matter of counting: the older disconnect takes away one of the routines
with the same number, so for each interrupt and routine there are never fewer installed than
connected (`Connections`); if one that is connected is gone, not all of those that are left can
be connected for their own devices (`SomeoneElses`).

**`ExploreIrq`.** `WaitForExact` is inductive with the types: a request
is made only when nothing is outstanding, or when the last completion is just
being handled. `QueuedIsSeen` needs only that `queued` is set while `wait_for`
is not empty and reset when it becomes empty. `QuietIsCurrent` rests on `EachCallCounted`, a count of
the handler's calls in which reports have their part, and needs to know why a value
that is behind the counter will be read again: `ScanIsComing` says that in an IOC that was
not disturbed it has a request in the queue of the priority at which the record is.

**`ExploreReg`.** The array loop tests that an element begins inside of the BAR. When
offset, step and BAR are multiples of the size, so is the address of each element, also
when a negative step wraps, because 2^32 is a multiple of every size
(`ElementIsMultiple`); a multiple that is less than the end is at least one size below
it (`ElementInside`). For scalars the check at initialisation is enough, and `PvtInv`
says that the options are still those it checked. For `ReadsTruth` and `NothingLost` the
access macros are resolved once, for all CPUs: a register that is read or written has
bit n in the byte and at the place that the meaning of its order says, however many swaps
of whom lie in between. `TruthInv` then says of an array how far a record that is being
read has come. `NothingLost` rests on `OldInv`: what a masked write has read of the
register is still there when it writes it back, because records of one lock set do not
run at once and no other writes the register.

**`FribFlash`.** `CommandsInRange` speaks of the step that sends a command. `InPlace` says where
each programmer is: at a multiple of the erase block while it erases, of the program
block while it programs, within its padded image, which fits into the chip
(`PaddedFits`). The loops advance by whole blocks (`NextInPlace`), and nothing that
others do in between, an abort, a new image, another programmer, changes what a
run works on. `LockedAtRest` joins the chip's write lock to the program counters. All of
this is `PlaceInv`. That success means a programmed chip is `VerifyInv`: no command is
left in the engine when the verify loop begins, the word that was read is the one the chip
holds at the address, and the words behind the loop are those of the image. An abort
may leave a command behind, but that run does not succeed.

**`VmeAddr`.** No single property is inductive: that a released block
does not overlap a free range depends on the allocated ranges being apart from
the free ones and from what was lost. `IInv` is the conjunction of all of these
facts, stated with the ends of the ranges instead of sets of addresses.
`CarveKeeps` says what splitting a free range preserves, `MergedHolds` that the
combined range holds the addresses of its parts and no others, and
`BlockFindBound` that `blockFind()` never hands on a base behind its range, wherever
the arithmetic of `size_t` wraps. For `Implements`, a block that fits in a free
range is neither claimed nor lost (`FitsUnclaimed`). `ToldTheTruth` follows the search:
the range a call looks at is the first that ends behind the block, so a block that this one
does not hold is in none, and what `blockFind()` finds is where nothing answered.

**`VmeCrate`.** That a routine stays rests on what is true between the steps of a
call: on a vector that is not raced one call at a time changes it (`TakeTurns`), a
caller that is about to install found the vector without an owner and one about to
remove found its own routine (`TableInv`), and a note of a level belongs to the caller that
made it (`AutoInv`). `HeardOnce` needs that a "rora" handler that was heard has
switched off its level (`HeardInv`), whichever vectors share it, or is on a level that is in `failed`
(`QuietAfter`). For base addresses,
`RegisterInv` says which of the four bytes the caller that writes them has written, and
that a register nobody writes holds the window asked for last; that bytes of different
functions lie apart (`ADERAt`) is arithmetic. What is read and written by the shell is
joined to memory by `AnswerInv`.

**Only model-checked**: liveness (`RunningThreadStops`, `EveryInterruptSeen`,
`CallsReturn`, `AbortEnds`, `InterruptIsSeen`), since TLAPS does not
handle fairness and ENABLED. Every other property of the passing runs is a theorem.

## 5. Not modelled

- `pcish.c`, `devLibPCIStrings.c`, `devPCIShow()`, `vmecsrprint()`: they print.
  `devlib_compat.c`, `devlib_dummy.c`, `os/default/devLibPCIOSD.c`: they forward
  or refuse. The test programs.
- `linuxDevFinal()`, `sharedDevPCIFinal()`, `close_uio()`: nothing calls them.
- `devA24Malloc()` and `devA24Free()`: they hand out memory of the board support
  package. The code picks its allocator on the first call without a lock.
- The conversion of `ai` and `ao` records from and to floating point numbers.
- The initialisation of the records of the flash programmer, and two
  programmers on one chip: the one that ends locks the chip while the other
  writes. `FribFlash` and its theorems allow several, the run has one, as
  `SuccessIsProgrammed` is false for two.
- The registry `irq_used` of the Explore counter, which refuses a second record for a
  device (`ExploreIrq` has one record), and the build for EPICS Base before 3.15.
- Callers of `devLibVME.c` in parallel: the list lock is dropped between the
  search of a range and its installation (249, 612), and `devLibInit()` runs
  without one. `VmeAddr` has one call at a time, as drivers make them while the IOC
  starts; its theorems say nothing of parallel ones.
- Logging, reports, and the text of links, labels and messages.

## 6. What could follow

`VmeAddr` with its calls cut at the points where the lock is dropped; the composition of
`PciMap` with `UioIsr` over one `devLock`, in which the points of `LinuxBus` get their full
steps; a run about the sense of the interrupt level on vxWorks; and the parts of the initialisation of
the flash records that share a programmer.
