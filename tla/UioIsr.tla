------------------------------- MODULE UioIsr -------------------------------
(***************************************************************************)
(* The interrupt service of one PCI device on Linux,                       *)
(* pciApp/os/Linux/devLibPCIOSD.c: linuxDevPCIConnectInterrupt(),          *)
(* linuxDevPCIDisconnectInterrupt(), stopIsrThread() and the thread        *)
(* isrThread() that each connected handler gets.                           *)
(*                                                                         *)
(* Driver threads (Clients) call connect and disconnect.  Each connection  *)
(* is a heap object, struct osdISR (Isrs), whose thread has the same name  *)
(* here.  The threads of one device read the same file descriptor, so they *)
(* share one cursor into the interrupts that the kernel's UIO driver has   *)
(* counted: that cursor is the Boolean `pending`.                          *)
(*                                                                         *)
(* A step is the code between two points where another thread can observe  *)
(* or disturb it.  A critical section of devLock that touches only what    *)
(* devLock guards is one step; the one of connect is three, because the    *)
(* thread it creates exists before the object is on the list.              *)
(***************************************************************************)
CONSTANTS
  Clients,   \* driver threads
  Handlers,  \* the (pFunction, parameter) pairs
  Isrs,      \* addresses of struct osdISR; calloc() fails when all are in use
  Callers,   \* Callers[h]: the clients that connect and disconnect handler h
  NoOne      \* no owner, no object, no handler

ASSUME NoOneAssumption == NoOne \notin Clients \cup Handlers \cup Isrs
ASSUME CallersAssumption == Callers \in [Handlers -> SUBSET Clients]

\* Every handler is managed by one driver thread.
SingleCaller == \A h \in Handlers : \A c, d \in Callers[h] : c = d

VARIABLES
  devLock,      \* owner of osdPCIDevice.devLock
  intLock,      \* owner of epicsInterruptLock()
  fdOpen,       \* osdPCIDevice.fd # -1
  pending,      \* read() of the UIO descriptor has something to return
  isrs,         \* osdPCIDevice.isrs: the objects on the list
  heap,         \* the objects that are allocated
  isr,          \* contents of each object: waiter_status, handler, done
  tpc,          \* where each object's thread is
  interrupted,  \* isrThread's local flag
  pc,           \* where each client is
  arg,          \* the handler passed to the call a client is in
  cur,          \* the object a client works on
  ret,          \* the result of a client's last call
  owed          \* history: interrupts asserted since the handler last ran

lockVars == <<devLock, intLock>>
threadVars == <<tpc, interrupted>>
clientVars == <<pc, arg, cur, ret>>
vars == <<devLock, intLock, fdOpen, pending, isrs, heap, isr, tpc, interrupted,
          pc, arg, cur, ret, owed>>

WaiterStatus == {"Starting", "Running", "Stopping", "Done"}
IsrState == [status : WaiterStatus, handler : Handlers \cup {NoOne}, done : BOOLEAN]
Returns == {"ok", "noMemory", "noDevice", "vecInstlFail", "intDisconnect"}
ThreadPoints == {"none", "start", "loop", "callback", "read", "check", "signal"}
ClientPoints == {"idle", "connect", "create", "add", "disconnect", "wait", "recheck"}

-----------------------------------------------------------------------------
(* Helpers.                                                                *)

\* Objects a client points at between two of its steps.
HeldBy(c) == IF pc[c] \in {"connect", "create", "add", "wait", "recheck"}
             THEN {cur[c]} ELSE {}

\* An address calloc() may return: not allocated, and not one that a thread
\* still uses by mistake (a use after free then shows as one).
Allocatable(i) ==
  /\ i \notin heap
  /\ tpc[i] = "none"
  /\ \A c \in Clients : i \notin HeldBy(c)

Registered(h) == {i \in isrs : isr[i].handler = h}

\* A client's call returns r.
Return(c, r) ==
  /\ pc' = [pc EXCEPT ![c] = "idle"]
  /\ arg' = [arg EXCEPT ![c] = NoOne]
  /\ cur' = [cur EXCEPT ![c] = NoOne]
  /\ ret' = [ret EXCEPT ![c] = r]

Goto(c, point) ==
  /\ pc' = [pc EXCEPT ![c] = point]
  /\ UNCHANGED <<arg, cur, ret>>

ThreadGoto(i, point) == tpc' = [tpc EXCEPT ![i] = point]

-----------------------------------------------------------------------------
(* linuxDevPCIConnectInterrupt                                             *)

\* calloc() of the object and creation of its event, without any lock.
ConnectAlloc(c, h, i) ==
  /\ pc[c] = "idle"
  /\ Allocatable(i)
  /\ heap' = heap \cup {i}
  /\ isr' = [isr EXCEPT ![i] = [status |-> "Starting", handler |-> h, done |-> FALSE]]
  /\ pc' = [pc EXCEPT ![c] = "connect"]
  /\ arg' = [arg EXCEPT ![c] = h]
  /\ cur' = [cur EXCEPT ![c] = i]
  /\ owed' = [owed EXCEPT ![i] = FALSE]
  /\ UNCHANGED <<lockVars, fdOpen, pending, isrs, threadVars, ret>>

ConnectNoMemory(c) ==
  /\ pc[c] = "idle"
  /\ Return(c, "noMemory")
  /\ UNCHANGED <<lockVars, fdOpen, pending, isrs, heap, isr, threadVars, owed>>

ConnectCall(c, h) ==
  /\ c \in Callers[h]
  /\ ConnectNoMemory(c) \/ \E i \in Isrs : ConnectAlloc(c, h, i)

\* The error label: the object and its event are released.
ConnectError(c, r) ==
  /\ heap' = heap \ {cur[c]}
  /\ Return(c, r)

\* Take devLock; open_uio() fails, which it can until the descriptor is open.
ConnectNoDevice(c) ==
  /\ pc[c] = "connect" /\ devLock = NoOne
  /\ ~fdOpen
  /\ ConnectError(c, "noDevice")
  /\ UNCHANGED <<lockVars, fdOpen, pending, isrs, isr, threadVars, owed>>

\* Take devLock; the same handler is on the list.
ConnectDuplicate(c) ==
  /\ pc[c] = "connect" /\ devLock = NoOne
  /\ Registered(arg[c]) # {}
  /\ fdOpen' = TRUE
  /\ ConnectError(c, "vecInstlFail")
  /\ UNCHANGED <<lockVars, pending, isrs, isr, threadVars, owed>>

\* Take devLock and keep it; the handler is new.
ConnectNew(c) ==
  /\ pc[c] = "connect" /\ devLock = NoOne
  /\ Registered(arg[c]) = {}
  /\ fdOpen' = TRUE
  /\ devLock' = c
  /\ Goto(c, "create")
  /\ UNCHANGED <<intLock, pending, isrs, heap, isr, threadVars, owed>>

\* Mutant: the list is not searched for the same (fptr, param).
ConnectLockNoSearch(c) ==
  /\ pc[c] = "connect" /\ devLock = NoOne
  /\ fdOpen' = TRUE
  /\ devLock' = c
  /\ Goto(c, "create")
  /\ UNCHANGED <<intLock, pending, isrs, heap, isr, threadVars, owed>>

ConnectLock(c) == ConnectNoDevice(c) \/ ConnectDuplicate(c) \/ ConnectNew(c)

\* epicsThreadCreate() under devLock.
ConnectThread(c) ==
  /\ pc[c] = "create"
  /\ ThreadGoto(cur[c], "start")
  /\ interrupted' = [interrupted EXCEPT ![cur[c]] = FALSE]
  /\ Goto(c, "add")
  /\ UNCHANGED <<lockVars, fdOpen, pending, isrs, heap, isr, owed>>

ConnectNoThread(c) ==
  /\ pc[c] = "create"
  /\ devLock' = NoOne
  /\ ConnectError(c, "vecInstlFail")
  /\ UNCHANGED <<intLock, fdOpen, pending, isrs, isr, threadVars, owed>>

ConnectCreate(c) == ConnectThread(c) \/ ConnectNoThread(c)

\* ellAdd(), unlock, return 0.
ConnectAdd(c) ==
  /\ pc[c] = "add"
  /\ isrs' = isrs \cup {cur[c]}
  /\ devLock' = NoOne
  /\ Return(c, "ok")
  /\ UNCHANGED <<intLock, fdOpen, pending, heap, isr, threadVars, owed>>

-----------------------------------------------------------------------------
(* linuxDevPCIDisconnectInterrupt and stopIsrThread                        *)

DisconnectCall(c, h) ==
  /\ pc[c] = "idle"
  /\ c \in Callers[h]
  /\ pc' = [pc EXCEPT ![c] = "disconnect"]
  /\ arg' = [arg EXCEPT ![c] = h]
  /\ UNCHANGED <<lockVars, fdOpen, pending, isrs, heap, isr, threadVars, cur, ret, owed>>

\* ellDelete(), epicsEventDestroy(), free(), unlock, return 0.
Release(c, i) ==
  /\ isrs' = isrs \ {i}
  /\ heap' = heap \ {i}
  /\ Return(c, "ok")

\* Take devLock: the handler is not on the list.
DisconnectUnknown(c) ==
  /\ pc[c] = "disconnect" /\ devLock = NoOne
  /\ Registered(arg[c]) = {}
  /\ Return(c, "intDisconnect")
  /\ UNCHANGED <<lockVars, fdOpen, pending, isrs, heap, isr, threadVars, owed>>

\* stopIsrThread() returns at once if another client stopped the thread.
DisconnectDone(c, i) ==
  /\ isr[i].status = "Done"
  /\ Release(c, i)
  /\ UNCHANGED isr

\* stopIsrThread() asks the handler's thread to stop.
DisconnectStop(c, i) ==
  /\ isr[i].status # "Done"
  /\ isr' = [isr EXCEPT ![i].status = "Stopping"]
  /\ pc' = [pc EXCEPT ![c] = "wait"]
  /\ cur' = [cur EXCEPT ![c] = i]
  /\ UNCHANGED <<isrs, heap, arg, ret>>

\* Take devLock: the handler is on the list.
DisconnectFound(c, i) ==
  /\ pc[c] = "disconnect" /\ devLock = NoOne
  /\ i \in Registered(arg[c])
  /\ DisconnectDone(c, i) \/ DisconnectStop(c, i)
  /\ UNCHANGED <<lockVars, fdOpen, pending, threadVars, owed>>

\* Mutant: the object is freed without waiting for its thread.
DisconnectLockNoWait(c) ==
  \/ DisconnectUnknown(c)
  \/ /\ pc[c] = "disconnect" /\ devLock = NoOne
     /\ \E i \in Registered(arg[c]) :
          /\ isr' = [isr EXCEPT ![i].status = "Stopping"]
          /\ Release(c, i)
     /\ UNCHANGED <<lockVars, fdOpen, pending, threadVars, owed>>

\* The search of the list and the first half of stopIsrThread().
DisconnectLock(c) ==
  DisconnectUnknown(c) \/ \E i \in Isrs : DisconnectFound(c, i)

\* epicsEventWait(isr->done), with devLock released.
DisconnectWait(c) ==
  /\ pc[c] = "wait"
  /\ isr[cur[c]].done
  /\ isr' = [isr EXCEPT ![cur[c]].done = FALSE]
  /\ Goto(c, "recheck")
  /\ UNCHANGED <<lockVars, fdOpen, pending, isrs, heap, threadVars, owed>>

\* Take devLock again and test the loop condition of stopIsrThread().
DisconnectRecheck(c) ==
  /\ pc[c] = "recheck"
  /\ devLock = NoOne
  /\ \/ /\ isr[cur[c]].status = "Done"
        /\ Release(c, cur[c])
     \/ /\ isr[cur[c]].status # "Done"
        /\ Goto(c, "wait")
        /\ UNCHANGED <<isrs, heap>>
  /\ UNCHANGED <<lockVars, fdOpen, pending, isr, threadVars, owed>>

-----------------------------------------------------------------------------
(* isrThread                                                               *)

\* The first critical section: normal operation begins.
ThreadRun(i) ==
  /\ tpc[i] = "start" /\ devLock = NoOne
  /\ isr[i].status = "Starting"
  /\ isr' = [isr EXCEPT ![i].status = "Running"]
  /\ ThreadGoto(i, "loop")
  /\ UNCHANGED <<lockVars, fdOpen, pending, isrs, heap, interrupted, clientVars, owed>>

\* The first critical section of a thread that was stopped before it ran: it
\* says it is done and returns.  This path signals no event.
ThreadAbandon(i) ==
  /\ tpc[i] = "start" /\ devLock = NoOne
  /\ isr[i].status # "Starting"
  /\ isr' = [isr EXCEPT ![i].status = "Done"]
  /\ ThreadGoto(i, "none")
  /\ UNCHANGED <<lockVars, fdOpen, pending, isrs, heap, interrupted, clientVars, owed>>

\* Mutant: the thread does not look for a stop request made before it ran.
ThreadStartNoCheck(i) ==
  /\ tpc[i] = "start" /\ devLock = NoOne
  /\ isr' = [isr EXCEPT ![i].status = "Running"]
  /\ ThreadGoto(i, "loop")
  /\ UNCHANGED <<lockVars, fdOpen, pending, isrs, heap, interrupted, clientVars, owed>>

ThreadStart(i) == ThreadRun(i) \/ ThreadAbandon(i)

\* Top of the loop, devLock released: call the handler under
\* epicsInterruptLock() if the last read() returned an interrupt.
ThreadCallback(i) ==
  /\ tpc[i] = "loop"
  /\ interrupted[i]
  /\ intLock = NoOne
  /\ intLock' = i
  /\ interrupted' = [interrupted EXCEPT ![i] = FALSE]
  /\ ThreadGoto(i, "callback")
  /\ owed' = [owed EXCEPT ![i] = FALSE]
  /\ UNCHANGED <<devLock, fdOpen, pending, isrs, heap, isr, clientVars>>

ThreadCallbackReturns(i) ==
  /\ tpc[i] = "callback"
  /\ intLock' = NoOne
  /\ ThreadGoto(i, "read")
  /\ UNCHANGED <<devLock, fdOpen, pending, isrs, heap, isr, interrupted, clientVars, owed>>

ThreadNoCallback(i) ==
  /\ tpc[i] = "loop"
  /\ ~interrupted[i]
  /\ ThreadGoto(i, "read")
  /\ UNCHANGED <<lockVars, fdOpen, pending, isrs, heap, isr, interrupted, clientVars, owed>>

\* Mutant: the read is taken for a failed one.
ThreadReadDropped(i) ==
  /\ tpc[i] = "read"
  /\ pending
  /\ pending' = FALSE
  /\ ThreadGoto(i, "check")
  /\ UNCHANGED <<lockVars, fdOpen, isrs, heap, isr, interrupted, clientVars, owed>>

\* read() returns: every interrupt counted so far is consumed for all the
\* threads that share the descriptor.
ThreadRead(i) ==
  /\ tpc[i] = "read"
  /\ pending
  /\ pending' = FALSE
  /\ interrupted' = [interrupted EXCEPT ![i] = TRUE]
  /\ ThreadGoto(i, "check")
  /\ UNCHANGED <<lockVars, fdOpen, isrs, heap, isr, clientVars, owed>>

\* read() fails: EINTR, or an error followed by a pause.
ThreadReadFails(i) ==
  /\ tpc[i] = "read"
  /\ ThreadGoto(i, "check")
  /\ UNCHANGED <<lockVars, fdOpen, pending, isrs, heap, isr, interrupted, clientVars, owed>>

\* Bottom of the loop, under devLock: go on.
ThreadAgain(i) ==
  /\ tpc[i] = "check" /\ devLock = NoOne
  /\ isr[i].status = "Running"
  /\ ThreadGoto(i, "loop")
  /\ UNCHANGED <<lockVars, fdOpen, pending, isrs, heap, isr, interrupted, clientVars, owed>>

\* Bottom of the loop, under devLock: leave it.
ThreadLeave(i) ==
  /\ tpc[i] = "check" /\ devLock = NoOne
  /\ isr[i].status # "Running"
  /\ isr' = [isr EXCEPT ![i].status = "Done"]
  /\ ThreadGoto(i, "signal")
  /\ UNCHANGED <<lockVars, fdOpen, pending, isrs, heap, interrupted, clientVars, owed>>

\* Mutant: the thread reports that it is done while it goes on.
ThreadCheckEarlyDone(i) ==
  \/ ThreadAgain(i)
  \/ /\ tpc[i] = "check" /\ devLock = NoOne
     /\ isr[i].status # "Running"
     /\ isr' = [isr EXCEPT ![i].status = "Done", ![i].done = TRUE]
     /\ ThreadGoto(i, "loop")
     /\ UNCHANGED <<lockVars, fdOpen, pending, isrs, heap, interrupted, clientVars, owed>>

ThreadCheck(i) == ThreadAgain(i) \/ ThreadLeave(i)

\* Mutant: the thread leaves without epicsEventSignal().
ThreadLeavesSilently(i) ==
  /\ tpc[i] = "signal"
  /\ ThreadGoto(i, "none")
  /\ UNCHANGED <<lockVars, fdOpen, pending, isrs, heap, isr, interrupted, clientVars, owed>>

\* epicsEventSignal(isr->done) after the unlock, and the end of the thread.
ThreadSignal(i) ==
  /\ tpc[i] = "signal"
  /\ isr' = [isr EXCEPT ![i].done = TRUE]
  /\ ThreadGoto(i, "none")
  /\ UNCHANGED <<lockVars, fdOpen, pending, isrs, heap, interrupted, clientVars, owed>>

-----------------------------------------------------------------------------
(* The device asserts its interrupt; the kernel counts it for whoever has  *)
(* the UIO descriptor open.                                                *)
DeviceInterrupt ==
  /\ fdOpen
  /\ pending' = TRUE
  /\ owed' = [i \in Isrs |-> owed[i] \/ (i \in isrs /\ isr[i].status = "Running")]
  /\ UNCHANGED <<lockVars, fdOpen, isrs, heap, isr, threadVars, clientVars>>

Init ==
  /\ devLock = NoOne
  /\ intLock = NoOne
  /\ fdOpen = FALSE
  /\ pending = FALSE
  /\ isrs = {}
  /\ heap = {}
  /\ isr = [i \in Isrs |-> [status |-> "Done", handler |-> NoOne, done |-> FALSE]]
  /\ tpc = [i \in Isrs |-> "none"]
  /\ interrupted = [i \in Isrs |-> FALSE]
  /\ pc = [c \in Clients |-> "idle"]
  /\ arg = [c \in Clients |-> NoOne]
  /\ cur = [c \in Clients |-> NoOne]
  /\ ret = [c \in Clients |-> "ok"]
  /\ owed = [i \in Isrs |-> FALSE]

\* What a client does once it is inside a call.
ClientStep(c) ==
  \/ ConnectLock(c)    \/ ConnectCreate(c)  \/ ConnectAdd(c)
  \/ DisconnectLock(c) \/ DisconnectWait(c) \/ DisconnectRecheck(c)

\* What the thread of object i does outside read().
ThreadStep(i) ==
  \/ ThreadStart(i) \/ ThreadCallback(i) \/ ThreadCallbackReturns(i)
  \/ ThreadNoCallback(i) \/ ThreadCheck(i) \/ ThreadSignal(i)

Next ==
  \/ \E c \in Clients, h \in Handlers : ConnectCall(c, h) \/ DisconnectCall(c, h)
  \/ \E c \in Clients : ClientStep(c)
  \/ \E i \in Isrs : ThreadStep(i) \/ ThreadRead(i) \/ ThreadReadFails(i)
  \/ DeviceInterrupt

Spec == Init /\ [][Next]_vars

(***************************************************************************)
(* Fairness.  A call that can go on goes on, and so does a thread; both    *)
(* get devLock, epicsInterruptLock() and read() if these are free again    *)
(* and again (ISR threads have the highest priority of all EPICS threads,  *)
(* and the locks are held for a bounded time), so strong fairness.         *)
(* Handlers return.  Nobody is forced to call, no read() need fail, and    *)
(* no signal interrupts the read() of one thread for ever.                 *)
(* Nothing is said of the device; a property that needs a device that      *)
(* keeps asserting its interrupt has DeviceIsBusy as its premise.          *)
(***************************************************************************)
FairSpec ==
  /\ Spec
  /\ \A c \in Clients : SF_vars(ClientStep(c))
  /\ \A i \in Isrs : SF_vars(ThreadStep(i)) /\ SF_vars(ThreadRead(i))

-----------------------------------------------------------------------------
(* Properties                                                              *)

\* The type invariant: every variable holds a value of its C type.
TypeOK ==
  /\ devLock \in Clients \cup {NoOne}
  /\ intLock \in Isrs \cup {NoOne}
  /\ fdOpen \in BOOLEAN
  /\ pending \in BOOLEAN
  /\ isrs \in SUBSET Isrs
  /\ heap \in SUBSET Isrs
  /\ isr \in [Isrs -> IsrState]
  /\ tpc \in [Isrs -> ThreadPoints]
  /\ interrupted \in [Isrs -> BOOLEAN]
  /\ pc \in [Clients -> ClientPoints]
  /\ arg \in [Clients -> Handlers \cup {NoOne}]
  /\ cur \in [Clients -> Isrs \cup {NoOne}]
  /\ ret \in [Clients -> Returns]
  /\ owed \in [Isrs -> BOOLEAN]

\* free() in disconnect: an object that is on the list, that its thread can
\* still read, or that a client inside a call points at, has not been freed.
NoUseAfterFree ==
  /\ isrs \subseteq heap
  /\ \A i \in Isrs : tpc[i] # "none" => i \in heap
  /\ \A c \in Clients : HeldBy(c) \subseteq heap

\* stopIsrThread(): a stop request is never overwritten.  While an object is
\* allocated its waiter_status only moves Starting, Running, Stopping, Done.
StopIsFinal ==
  [][\A i \in heap \cap heap' :
       /\ isr[i].status = "Stopping" => isr'[i].status \in {"Stopping", "Done"}
       /\ isr[i].status = "Done" => isr'[i].status = "Done"]_vars

\* Connect and disconnect implement the promise of devLibPCI.h: a handler is
\* registered once, runs only while registered, never in parallel with
\* another one, and is not running when disconnect returns.
Service == INSTANCE IrqService WITH
  connected <- {isr[i].handler : i \in isrs},
  running   <- {isr[i].handler : i \in {j \in Isrs : tpc[j] = "callback"}}

ServiceSpec == Service!Spec

-----------------------------------------------------------------------------
(* The inductive invariant behind NoUseAfterFree and ServiceSpec.          *)

Connecting(c) == pc[c] \in {"connect", "create", "add"}
Stopping(c) == pc[c] \in {"wait", "recheck"}

\* devLock is held from the search of the list until the object is on it.
LockInv == \A c \in Clients : devLock = c <=> pc[c] \in {"create", "add"}

\* epicsInterruptLock() is held exactly while a handler runs.
IntLockInv == \A i \in Isrs : intLock = i <=> tpc[i] = "callback"

\* A client in a call has its handler, and one it may manage.
ArgInv == \A c \in Clients :
  pc[c] # "idle" => arg[c] \in Handlers /\ c \in Callers[arg[c]]

\* An object being connected is private to its client: it is allocated, not on
\* the list, untouched, and its thread exists only at the end.
PrivateInv == \A c \in Clients : Connecting(c) =>
  /\ cur[c] \in heap \ isrs
  /\ isr[cur[c]] = [status |-> "Starting", handler |-> arg[c], done |-> FALSE]
  /\ tpc[cur[c]] = IF pc[c] = "add" THEN "start" ELSE "none"
  /\ pc[c] # "connect" => Registered(arg[c]) = {}

\* Two clients never work on one object.
UniqueInv == \A c, d \in Clients : c # d => HeldBy(c) \cap HeldBy(d) = {}

\* A handler has at most one object on the list.
OneObjectInv == \A i, j \in isrs : isr[i].handler = isr[j].handler => i = j

\* A client that stops a thread works on a listed object of its handler.
StoppingInv == \A c \in Clients : Stopping(c) =>
  /\ cur[c] \in isrs
  /\ isr[cur[c]].handler = arg[c]
  /\ isr[cur[c]].status \in {"Stopping", "Done"}

\* A listed object was asked to stop by a client that is still in the call.
StopperInv == \A i \in isrs :
  isr[i].status \in {"Stopping", "Done"} => \E c \in Clients : Stopping(c) /\ cur[c] = i

\* The event says that the thread has gone, and so does its being consumed.
DoneInv == \A i \in isrs :
  (isr[i].done \/ \E c \in Clients : pc[c] = "recheck" /\ cur[c] = i)
    => isr[i].status = "Done" /\ tpc[i] = "none"

\* A thread past its start belongs to a listed object and agrees with the
\* object's status; before that the object is listed or about to be.
ThreadInv == \A i \in Isrs :
  /\ tpc[i] = "start" =>
       /\ isr[i].status \in {"Starting", "Stopping"}
       /\ i \in isrs \/ \E c \in Clients : pc[c] = "add" /\ cur[c] = i
  /\ tpc[i] \notin {"none", "start"} => i \in isrs
  /\ tpc[i] = "signal" => isr[i].status = "Done"
  /\ tpc[i] \in {"loop", "callback", "read", "check"}
       => isr[i].status \in {"Running", "Stopping"}

IInv ==
  /\ TypeOK /\ NoUseAfterFree
  /\ LockInv /\ IntLockInv /\ ArgInv /\ PrivateInv /\ UniqueInv /\ OneObjectInv
  /\ StoppingInv /\ StopperInv /\ DoneInv /\ ThreadInv

-----------------------------------------------------------------------------
(* Liveness                                                                *)

DeviceIsBusy == WF_vars(DeviceInterrupt)

\* A disconnect that found its handler's thread inside the loop returns, as
\* long as the device goes on interrupting.
RunningThreadStops == DeviceIsBusy =>
  \A c \in Clients, i \in Isrs :
    (/\ pc[c] = "wait" /\ cur[c] = i
     /\ tpc[i] \in {"loop", "callback", "read", "check", "signal"})
      ~> (pc[c] = "idle")

\* Every call of disconnect returns, as long as the device goes on
\* interrupting (devLibPCI.h: "returns 0 on success or an EPICS error code").
DisconnectReturns == DeviceIsBusy =>
  \A c \in Clients : (pc[c] = "disconnect") ~> (pc[c] = "idle")

\* The handler is called after each interrupt its device asserts while it is
\* connected, unless it is being disconnected.
EveryInterruptSeen ==
  \A i \in Isrs : owed[i] ~> (~owed[i] \/ isr[i].status # "Running")
=============================================================================
