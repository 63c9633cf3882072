---------------------------- MODULE UioIsrProofs ----------------------------
(***************************************************************************)
(* Proofs about UioIsr for any number of driver threads, handlers and      *)
(* objects, under one assumption on the drivers: SingleCaller, a handler   *)
(* is connected and disconnected by one thread.                            *)
(*                                                                         *)
(* IInv is inductive: one lemma per action says that the action keeps it.  *)
(* Memory safety is a part of IInv; that a stop request is final, and that *)
(* UioIsr implements IrqService, follow from it step by step.              *)
(***************************************************************************)
EXTENDS UioIsr, TLAPS

\* An object being connected is known to its client only.
LEMMA Private ==
  ASSUME TypeOK, PrivateInv, UniqueInv, NEW c \in Clients, Connecting(c)
  PROVE  /\ cur[c] \in heap \ isrs
         /\ tpc[cur[c]] = IF pc[c] = "add" THEN "start" ELSE "none"
         /\ isr[cur[c]] = [status |-> "Starting", handler |-> arg[c], done |-> FALSE]
         /\ pc[c] # "connect" => Registered(arg[c]) = {}
         /\ \A d \in Clients : d # c => cur[c] \notin HeldBy(d)
<1>1. /\ cur[c] \in heap \ isrs
      /\ tpc[cur[c]] = IF pc[c] = "add" THEN "start" ELSE "none"
      /\ isr[cur[c]] = [status |-> "Starting", handler |-> arg[c], done |-> FALSE]
      /\ pc[c] # "connect" => Registered(arg[c]) = {}
  BY DEF PrivateInv
<1>2. HeldBy(c) = {cur[c]}
  BY DEF HeldBy, Connecting
<1>3. \A d \in Clients : d # c => cur[c] \notin HeldBy(d)
  BY <1>2 DEF UniqueInv
<1> QED
  BY <1>1, <1>3

\* Where a thread is in normal operation.
InLoop == {"loop", "callback", "read", "check"}

\* A step of a thread inside its loop that changes no object.
LEMMA ThreadMoves ==
  ASSUME IInv, NEW i \in Isrs, NEW p \in InLoop, tpc[i] \in InLoop,
         tpc' = [tpc EXCEPT ![i] = p], TypeOK', IntLockInv',
         UNCHANGED <<devLock, isrs, heap, isr, pc, arg, cur>>
  PROVE  IInv'
<1>0. /\ TypeOK /\ NoUseAfterFree /\ LockInv /\ IntLockInv /\ ArgInv /\ PrivateInv
      /\ UniqueInv /\ OneObjectInv /\ StoppingInv /\ StopperInv /\ DoneInv /\ ThreadInv
  BY DEF IInv
<1>2. NoUseAfterFree'
  BY <1>0 DEF NoUseAfterFree, HeldBy, InLoop
<1>3. LockInv'
  BY <1>0 DEF LockInv
<1>5. ArgInv'
  BY <1>0 DEF ArgInv
<1>6. PrivateInv'
  BY <1>0 DEF PrivateInv, Connecting, Registered, InLoop
<1>7. UniqueInv'
  BY <1>0 DEF UniqueInv, HeldBy
<1>8. OneObjectInv'
  BY <1>0 DEF OneObjectInv
<1>9. StoppingInv'
  BY <1>0 DEF StoppingInv, Stopping
<1>10. StopperInv'
  BY <1>0 DEF StopperInv, Stopping
<1>11. DoneInv'
  BY <1>0 DEF DoneInv, InLoop
<1>12. ThreadInv'
  BY <1>0 DEF ThreadInv, InLoop
<1> QED
  BY <1>2, <1>3, <1>5, <1>6, <1>7, <1>8, <1>9, <1>10, <1>11, <1>12 DEF IInv

\* A client enters or leaves a call and holds no object.
LEMMA ClientMoves ==
  ASSUME IInv, NEW c \in Clients, NEW p \in {"idle", "disconnect"},
         pc[c] \in {"idle", "disconnect"}, pc' = [pc EXCEPT ![c] = p],
         \A d \in Clients : d # c => cur'[d] = cur[d] /\ arg'[d] = arg[d],
         TypeOK', ArgInv', UNCHANGED <<devLock, intLock, isrs, heap, isr, tpc>>
  PROVE  IInv'
<1>0. /\ TypeOK /\ NoUseAfterFree /\ LockInv /\ IntLockInv /\ ArgInv /\ PrivateInv
      /\ UniqueInv /\ OneObjectInv /\ StoppingInv /\ StopperInv /\ DoneInv /\ ThreadInv
  BY DEF IInv
<1>2. NoUseAfterFree'
  BY <1>0 DEF NoUseAfterFree, HeldBy
<1>3. LockInv'
  BY <1>0 DEF LockInv
<1>4. IntLockInv'
  BY <1>0 DEF IntLockInv
<1>6. PrivateInv'
  BY <1>0 DEF PrivateInv, Connecting, Registered
<1>7. UniqueInv'
  BY <1>0 DEF UniqueInv, HeldBy
<1>8. OneObjectInv'
  BY <1>0 DEF OneObjectInv
<1>9. StoppingInv'
  BY <1>0 DEF StoppingInv, Stopping
<1>10. StopperInv'
  BY <1>0 DEF StopperInv, Stopping
<1>11. DoneInv'
  BY <1>0 DEF DoneInv
<1>12. ThreadInv'
  BY <1>0 DEF ThreadInv
<1> QED
  BY <1>2, <1>3, <1>4, <1>6, <1>7, <1>8, <1>9, <1>10, <1>11, <1>12 DEF IInv

\* The error label of linuxDevPCIConnectInterrupt(): the object is private, so
\* it can be freed.
LEMMA ConnectFails ==
  ASSUME IInv, NEW c \in Clients, NEW r, ConnectError(c, r),
         pc[c] \in {"connect", "create"}, TypeOK', LockInv',
         UNCHANGED <<intLock, isrs, isr, tpc>>
  PROVE  IInv'
<1>0. /\ TypeOK /\ NoUseAfterFree /\ LockInv /\ IntLockInv /\ ArgInv /\ PrivateInv
      /\ UniqueInv /\ OneObjectInv /\ StoppingInv /\ StopperInv /\ DoneInv /\ ThreadInv
  BY DEF IInv
<1>a. /\ Connecting(c) /\ cur[c] \in heap \ isrs
      /\ tpc[cur[c]] = IF pc[c] = "add" THEN "start" ELSE "none"
      /\ isr[cur[c]] = [status |-> "Starting", handler |-> arg[c], done |-> FALSE]
      /\ pc[c] # "connect" => Registered(arg[c]) = {}
      /\ \A d \in Clients : d # c => cur[c] \notin HeldBy(d)
  BY <1>0, Private DEF Connecting
<1>2. NoUseAfterFree'
  BY <1>0, <1>a DEF TypeOK, NoUseAfterFree, HeldBy, ConnectError, Return
<1>4. IntLockInv'
  BY <1>0 DEF IntLockInv
<1>5. ArgInv'
  BY <1>0 DEF TypeOK, ArgInv, ConnectError, Return
<1>6. PrivateInv'
  BY <1>0, <1>a DEF TypeOK, PrivateInv, HeldBy, Connecting, Registered,
     ConnectError, Return
<1>7. UniqueInv'
  BY <1>0 DEF TypeOK, UniqueInv, HeldBy, ConnectError, Return
<1>8. OneObjectInv'
  BY <1>0 DEF OneObjectInv
<1>9. StoppingInv'
  BY <1>0 DEF StoppingInv, Stopping, ConnectError, Return
<1>10. StopperInv'
  BY <1>0 DEF StopperInv, Stopping, ConnectError, Return
<1>11. DoneInv'
  BY <1>0 DEF DoneInv, ConnectError, Return
<1>12. ThreadInv'
  BY <1>0 DEF ThreadInv, ConnectError, Return
<1> QED
  BY <1>2, <1>4, <1>5, <1>6, <1>7, <1>8, <1>9, <1>10, <1>11, <1>12 DEF IInv

\* Each action keeps the inductive invariant; one lemma per action.
LEMMA ConnectNoMemoryKeeps ==
  ASSUME IInv, NEW c \in Clients, ConnectNoMemory(c)
  PROVE  IInv'
<1>1. TypeOK'
  BY DEF IInv, TypeOK, ConnectNoMemory, Return, Returns, lockVars, threadVars
<1>2. ArgInv'
  BY DEF IInv, ArgInv, ConnectNoMemory, Return
<1>3. /\ pc[c] \in {"idle", "disconnect"} /\ pc' = [pc EXCEPT ![c] = "idle"]
      /\ \A d \in Clients : d # c => cur'[d] = cur[d] /\ arg'[d] = arg[d]
      /\ UNCHANGED <<devLock, intLock, isrs, heap, isr, tpc>>
  BY DEF ConnectNoMemory, Return, lockVars, threadVars
<1> QED
  BY <1>1, <1>2, <1>3, ClientMoves

\* ConnectAlloc keeps the inductive invariant.
LEMMA ConnectAllocKeeps ==
  ASSUME IInv, NEW c \in Clients, NEW h \in Handlers, c \in Callers[h],
         NEW i \in Isrs, ConnectAlloc(c, h, i)
  PROVE  IInv'
<1>0. /\ TypeOK /\ NoUseAfterFree /\ LockInv /\ IntLockInv /\ ArgInv /\ PrivateInv
      /\ UniqueInv /\ OneObjectInv /\ StoppingInv /\ StopperInv /\ DoneInv /\ ThreadInv
  BY DEF IInv
<1>a. /\ isr' \in [Isrs -> IsrState]
      /\ \A j \in Isrs : j # i => isr'[j] = isr[j]
      /\ isr'[i] = [status |-> "Starting", handler |-> h, done |-> FALSE]
  <2>1. isr' \in [Isrs -> IsrState]
    BY <1>0 DEF ConnectAlloc, TypeOK, IsrState, WaiterStatus
  <2> QED
    BY <2>1 DEF ConnectAlloc
<1>b. /\ pc[c] = "idle"
      /\ i \notin heap
      /\ tpc[i] = "none"
      /\ \A d \in Clients : i \notin HeldBy(d)
      /\ heap' = heap \cup {i}
      /\ pc' = [pc EXCEPT ![c] = "connect"]
      /\ arg' = [arg EXCEPT ![c] = h]
      /\ cur' = [cur EXCEPT ![c] = i]
      /\ owed' = [owed EXCEPT ![i] = FALSE]
      /\ UNCHANGED <<devLock, intLock, fdOpen, pending, isrs, tpc, interrupted, ret>>
  BY DEF ConnectAlloc, lockVars, threadVars, Allocatable
<1>1. TypeOK'
  BY <1>0, <1>a, <1>b DEF TypeOK, ClientPoints
<1>2. NoUseAfterFree'
  BY <1>0, <1>b DEF TypeOK, NoUseAfterFree, HeldBy
<1>3. LockInv'
  BY <1>0, <1>b DEF LockInv
<1>4. IntLockInv'
  BY <1>0, <1>b DEF IntLockInv
<1>5. ArgInv'
  BY <1>0, <1>b DEF TypeOK, ArgInv
<1>6. PrivateInv'
  <2>1. ASSUME NEW d \in Clients, d # c, Connecting(d)'
        PROVE  /\ Connecting(d) /\ cur'[d] = cur[d] /\ arg'[d] = arg[d] /\ pc'[d] = pc[d]
               /\ cur[d] # i
    BY <1>b, <2>1 DEF Connecting, HeldBy
  <2>2. i \notin isrs
    BY <1>0, <1>b DEF NoUseAfterFree
  <2>3. \A g : Registered(g)' = Registered(g)
    BY <1>0, <1>a, <1>b, <2>2 DEF Registered, TypeOK
  <2>4. ASSUME NEW d \in Clients, d # c, Connecting(d)'
        PROVE  /\ cur[d] \in Isrs /\ cur[d] \in heap \ isrs
               /\ isr'[cur[d]] = [status |-> "Starting", handler |-> arg[d], done |-> FALSE]
               /\ tpc[cur[d]] = IF pc[d] = "add" THEN "start" ELSE "none"
               /\ pc[d] # "connect" => Registered(arg[d]) = {}
    BY <1>0, <1>a, <2>1, <2>4 DEF PrivateInv, TypeOK
  <2>5. ASSUME NEW d \in Clients, d # c, Connecting(d)'
        PROVE  /\ cur'[d] \in heap' \ isrs'
               /\ isr'[cur'[d]] = [status |-> "Starting", handler |-> arg'[d], done |-> FALSE]
               /\ tpc'[cur'[d]] = IF pc'[d] = "add" THEN "start" ELSE "none"
               /\ pc'[d] # "connect" => Registered(arg[d])' = {} /\ arg'[d] = arg[d]
    BY <1>b, <2>3, <2>4, <2>5
  <2>6. /\ cur'[c] = i /\ arg'[c] = h /\ pc'[c] = "connect"
    BY <1>0, <1>b DEF TypeOK
  <2>7. /\ i \in heap' \ isrs'
        /\ isr'[i] = [status |-> "Starting", handler |-> arg'[c], done |-> FALSE]
        /\ tpc'[i] = "none"
    BY <1>a, <1>b, <2>2, <2>6
  <2> QED
    BY <2>5, <2>6, <2>7 DEF PrivateInv
<1>7. UniqueInv'
  BY <1>0, <1>b DEF TypeOK, UniqueInv, HeldBy
<1>8. OneObjectInv'
  BY <1>0, <1>a, <1>b DEF TypeOK, OneObjectInv, NoUseAfterFree
<1>9. StoppingInv'
  BY <1>0, <1>a, <1>b DEF TypeOK, StoppingInv, HeldBy, Stopping
<1>10. StopperInv'
  BY <1>0, <1>a, <1>b DEF TypeOK, StopperInv, Stopping
<1>11. DoneInv'
  BY <1>0, <1>a, <1>b DEF TypeOK, DoneInv, HeldBy
<1>12. ThreadInv'
  BY <1>0, <1>a, <1>b DEF ThreadInv
<1> QED
  BY <1>1, <1>2, <1>3, <1>4, <1>5, <1>6, <1>7, <1>8, <1>9, <1>10, <1>11, <1>12
     DEF IInv

\* ConnectNoDevice keeps the inductive invariant.
LEMMA ConnectNoDeviceKeeps ==
  ASSUME IInv, NEW c \in Clients, ConnectNoDevice(c)
  PROVE  IInv'
<1>1. TypeOK'
  BY DEF IInv, TypeOK, ConnectNoDevice, ConnectError, Return, ClientPoints,
     Returns, lockVars, threadVars
<1>2. LockInv'
  BY DEF IInv, LockInv, ConnectNoDevice, ConnectError, Return, lockVars
<1>3. /\ pc[c] \in {"connect", "create"} /\ \E r : ConnectError(c, r)
      /\ UNCHANGED <<intLock, isrs, isr, tpc>>
  BY DEF ConnectNoDevice, lockVars, threadVars
<1> QED
  BY <1>1, <1>2, <1>3, ConnectFails

\* ConnectDuplicate keeps the inductive invariant.
LEMMA ConnectDuplicateKeeps ==
  ASSUME IInv, NEW c \in Clients, ConnectDuplicate(c)
  PROVE  IInv'
<1>1. TypeOK'
  BY DEF IInv, TypeOK, ConnectDuplicate, ConnectError, Return, ClientPoints,
     Returns, lockVars, threadVars
<1>2. LockInv'
  BY DEF IInv, LockInv, ConnectDuplicate, ConnectError, Return, lockVars
<1>3. /\ pc[c] \in {"connect", "create"} /\ \E r : ConnectError(c, r)
      /\ UNCHANGED <<intLock, isrs, isr, tpc>>
  BY DEF ConnectDuplicate, lockVars, threadVars
<1> QED
  BY <1>1, <1>2, <1>3, ConnectFails

\* ConnectNew keeps the inductive invariant.
LEMMA ConnectNewKeeps ==
  ASSUME IInv, NEW c \in Clients, ConnectNew(c)
  PROVE  IInv'
<1>0. /\ TypeOK /\ NoUseAfterFree /\ LockInv /\ IntLockInv /\ ArgInv /\ PrivateInv
      /\ UniqueInv /\ OneObjectInv /\ StoppingInv /\ StopperInv /\ DoneInv /\ ThreadInv
  BY DEF IInv
<1>1. TypeOK'
  BY <1>0 DEF TypeOK, Goto, threadVars, ConnectNew, ClientPoints
<1>2. NoUseAfterFree'
  BY <1>0 DEF NoUseAfterFree, HeldBy, Goto, threadVars, ConnectNew
<1>3. LockInv'
  BY <1>0, NoOneAssumption DEF TypeOK, LockInv, Goto, ConnectNew
<1>4. IntLockInv'
  BY <1>0 DEF IntLockInv, threadVars, ConnectNew
<1>5. ArgInv'
  BY <1>0 DEF ArgInv, Goto, ConnectNew
<1>6. PrivateInv'
  BY <1>0 DEF PrivateInv, Connecting, Registered, Goto, threadVars, ConnectNew
<1>7. UniqueInv'
  BY <1>0 DEF UniqueInv, HeldBy, Goto, ConnectNew
<1>8. OneObjectInv'
  BY <1>0 DEF OneObjectInv, ConnectNew
<1>9. StoppingInv'
  BY <1>0 DEF StoppingInv, Stopping, Goto, ConnectNew
<1>10. StopperInv'
  BY <1>0 DEF StopperInv, Stopping, Goto, ConnectNew
<1>11. DoneInv'
  BY <1>0 DEF DoneInv, Goto, threadVars, ConnectNew
<1>12. ThreadInv'
  BY <1>0 DEF ThreadInv, Goto, threadVars, ConnectNew
<1> QED
  BY <1>1, <1>2, <1>3, <1>4, <1>5, <1>6, <1>7, <1>8, <1>9, <1>10, <1>11, <1>12
     DEF IInv

\* ConnectThread keeps the inductive invariant.
LEMMA ConnectThreadKeeps ==
  ASSUME IInv, NEW c \in Clients, ConnectThread(c)
  PROVE  IInv'
<1>0. /\ TypeOK /\ NoUseAfterFree /\ LockInv /\ IntLockInv /\ ArgInv /\ PrivateInv
      /\ UniqueInv /\ OneObjectInv /\ StoppingInv /\ StopperInv /\ DoneInv /\ ThreadInv
  BY DEF IInv
<1>a. /\ Connecting(c) /\ cur[c] \in heap \ isrs
      /\ tpc[cur[c]] = IF pc[c] = "add" THEN "start" ELSE "none"
      /\ isr[cur[c]] = [status |-> "Starting", handler |-> arg[c], done |-> FALSE]
      /\ pc[c] # "connect" => Registered(arg[c]) = {}
      /\ \A d \in Clients : d # c => cur[c] \notin HeldBy(d)
  BY <1>0, Private DEF ConnectThread, Connecting
<1>1. TypeOK'
  BY <1>0 DEF TypeOK, Goto, ThreadGoto, lockVars, ConnectThread, ThreadPoints,
     ClientPoints
<1>2. NoUseAfterFree'
  BY <1>0 DEF NoUseAfterFree, HeldBy, Goto, ThreadGoto, ConnectThread
<1>3. LockInv'
  BY <1>0 DEF LockInv, Goto, lockVars, ConnectThread
<1>4. IntLockInv'
  BY <1>0, <1>a DEF IntLockInv, ThreadGoto, lockVars, ConnectThread
<1>5. ArgInv'
  BY <1>0 DEF ArgInv, Goto, ConnectThread
<1>6. PrivateInv'
  BY <1>0, <1>a DEF TypeOK, PrivateInv, HeldBy, Connecting, Registered, Goto,
     ThreadGoto, ConnectThread
<1>7. UniqueInv'
  BY <1>0 DEF UniqueInv, HeldBy, Goto, ConnectThread
<1>8. OneObjectInv'
  BY <1>0 DEF OneObjectInv, ConnectThread
<1>9. StoppingInv'
  BY <1>0 DEF StoppingInv, Stopping, Goto, ConnectThread
<1>10. StopperInv'
  BY <1>0 DEF StopperInv, Stopping, Goto, ConnectThread
<1>11. DoneInv'
  BY <1>0, <1>a DEF DoneInv, Goto, ThreadGoto, ConnectThread
<1>12. ThreadInv'
  BY <1>0, <1>a DEF TypeOK, ThreadInv, Goto, ThreadGoto, ConnectThread
<1> QED
  BY <1>1, <1>2, <1>3, <1>4, <1>5, <1>6, <1>7, <1>8, <1>9, <1>10, <1>11, <1>12
     DEF IInv

\* ConnectNoThread keeps the inductive invariant.
LEMMA ConnectNoThreadKeeps ==
  ASSUME IInv, NEW c \in Clients, ConnectNoThread(c)
  PROVE  IInv'
<1>1. TypeOK'
  BY DEF IInv, TypeOK, ConnectNoThread, ConnectError, Return, ClientPoints,
     Returns, threadVars
<1>2. LockInv'
  BY NoOneAssumption DEF IInv, TypeOK, LockInv, ConnectNoThread, ConnectError,
     Return
<1>3. /\ pc[c] \in {"connect", "create"} /\ \E r : ConnectError(c, r)
      /\ UNCHANGED <<intLock, isrs, isr, tpc>>
  BY DEF ConnectNoThread, threadVars
<1> QED
  BY <1>1, <1>2, <1>3, ConnectFails

\* ConnectAdd keeps the inductive invariant.
LEMMA ConnectAddKeeps ==
  ASSUME IInv, NEW c \in Clients, ConnectAdd(c)
  PROVE  IInv'
<1>0. /\ TypeOK /\ NoUseAfterFree /\ LockInv /\ IntLockInv /\ ArgInv /\ PrivateInv
      /\ UniqueInv /\ OneObjectInv /\ StoppingInv /\ StopperInv /\ DoneInv /\ ThreadInv
  BY DEF IInv
<1>a. /\ Connecting(c) /\ cur[c] \in heap \ isrs
      /\ tpc[cur[c]] = IF pc[c] = "add" THEN "start" ELSE "none"
      /\ isr[cur[c]] = [status |-> "Starting", handler |-> arg[c], done |-> FALSE]
      /\ pc[c] # "connect" => Registered(arg[c]) = {}
      /\ \A d \in Clients : d # c => cur[c] \notin HeldBy(d)
  BY <1>0, Private DEF ConnectAdd, Connecting
<1>1. TypeOK'
  BY <1>0, <1>a DEF TypeOK, Return, threadVars, ConnectAdd, Returns,
     ClientPoints
<1>2. NoUseAfterFree'
  BY <1>0 DEF TypeOK, NoUseAfterFree, HeldBy, Return, threadVars, ConnectAdd
<1>3. LockInv'
  BY <1>0, NoOneAssumption DEF TypeOK, LockInv, Return, ConnectAdd
<1>4. IntLockInv'
  BY <1>0 DEF IntLockInv, threadVars, ConnectAdd
<1>5. ArgInv'
  BY <1>0 DEF TypeOK, ArgInv, Return, ConnectAdd
<1>6. PrivateInv'
  BY <1>0, <1>a DEF TypeOK, PrivateInv, LockInv, Connecting, Return,
     threadVars, ConnectAdd
<1>7. UniqueInv'
  BY <1>0 DEF TypeOK, UniqueInv, HeldBy, Return, ConnectAdd
<1>8. OneObjectInv'
  <2>1. \A j \in isrs : isr[j].handler # arg[c]
    BY <1>a DEF Registered, ConnectAdd
  <2> QED
    BY <1>0, <1>a, <2>1 DEF OneObjectInv, ConnectAdd
<1>9. StoppingInv'
  BY <1>0 DEF StoppingInv, Stopping, Return, ConnectAdd
<1>10. StopperInv'
  BY <1>0, <1>a DEF StopperInv, Stopping, Return, ConnectAdd
<1>11. DoneInv'
  BY <1>0, <1>a DEF DoneInv, UniqueInv, HeldBy, Return, threadVars, ConnectAdd
<1>12. ThreadInv'
  BY <1>0 DEF ThreadInv, Return, threadVars, ConnectAdd
<1> QED
  BY <1>1, <1>2, <1>3, <1>4, <1>5, <1>6, <1>7, <1>8, <1>9, <1>10, <1>11, <1>12
     DEF IInv

\* DisconnectCall keeps the inductive invariant.
LEMMA DisconnectCallKeeps ==
  ASSUME IInv, NEW c \in Clients, NEW h \in Handlers, DisconnectCall(c, h)
  PROVE  IInv'
<1>1. TypeOK'
  BY DEF IInv, TypeOK, DisconnectCall, ClientPoints, lockVars, threadVars
<1>2. ArgInv'
  BY DEF IInv, TypeOK, ArgInv, DisconnectCall
<1>3. /\ pc[c] \in {"idle", "disconnect"} /\ pc' = [pc EXCEPT ![c] = "disconnect"]
      /\ \A d \in Clients : d # c => cur'[d] = cur[d] /\ arg'[d] = arg[d]
      /\ UNCHANGED <<devLock, intLock, isrs, heap, isr, tpc>>
  BY DEF DisconnectCall, lockVars, threadVars
<1> QED
  BY <1>1, <1>2, <1>3, ClientMoves

\* DisconnectUnknown keeps the inductive invariant.
LEMMA DisconnectUnknownKeeps ==
  ASSUME IInv, NEW c \in Clients, DisconnectUnknown(c)
  PROVE  IInv'
<1>1. TypeOK'
  BY DEF IInv, TypeOK, DisconnectUnknown, Return, ClientPoints, Returns,
     lockVars, threadVars
<1>2. ArgInv'
  BY DEF IInv, TypeOK, ArgInv, DisconnectUnknown, Return
<1>3. /\ pc[c] \in {"idle", "disconnect"} /\ pc' = [pc EXCEPT ![c] = "idle"]
      /\ \A d \in Clients : d # c => cur'[d] = cur[d] /\ arg'[d] = arg[d]
      /\ UNCHANGED <<devLock, intLock, isrs, heap, isr, tpc>>
  BY DEF DisconnectUnknown, Return, lockVars, threadVars
<1> QED
  BY <1>1, <1>2, <1>3, ClientMoves

\* With one caller per handler disconnect never finds a thread that is done:
\* another client would have to be in the middle of stopping it.
LEMMA FoundIsNotDone ==
  ASSUME SingleCaller, IInv, NEW c \in Clients, NEW i \in Isrs, DisconnectFound(c, i)
  PROVE  isr[i].status # "Done" /\ DisconnectStop(c, i)
<1> SUFFICES ASSUME isr[i].status = "Done" PROVE FALSE
  BY DEF DisconnectFound, DisconnectDone
<1>1. PICK d \in Clients : Stopping(d) /\ cur[d] = i
  BY DEF IInv, StopperInv, DisconnectFound, Registered
<1>2. d # c
  BY <1>1 DEF DisconnectFound, Stopping
<1>3. arg[d] = arg[c]
  BY <1>1 DEF IInv, StoppingInv, DisconnectFound, Registered
<1>4. {c, d} \subseteq Callers[arg[c]] /\ arg[c] \in Handlers
  BY <1>1, <1>3 DEF IInv, ArgInv, DisconnectFound, Stopping
<1> QED
  BY <1>2, <1>4 DEF SingleCaller

\* Nobody else holds the object: only this client may disconnect its handler.
LEMMA DisconnectFoundKeeps ==
  ASSUME SingleCaller, IInv, NEW c \in Clients, NEW i \in Isrs, DisconnectFound(c, i)
  PROVE  IInv'
<1>s. isr[i].status # "Done" /\ DisconnectStop(c, i)
  BY FoundIsNotDone
<1>0. /\ TypeOK /\ NoUseAfterFree /\ LockInv /\ IntLockInv /\ ArgInv /\ PrivateInv
      /\ UniqueInv /\ OneObjectInv /\ StoppingInv /\ StopperInv /\ DoneInv /\ ThreadInv
  BY DEF IInv
<1>a. /\ isr' \in [Isrs -> IsrState]
      /\ \A j \in Isrs : j # i => isr'[j] = isr[j]
      /\ isr'[i].handler = isr[i].handler /\ isr'[i].done = isr[i].done
  <2>1. /\ isr \in [Isrs -> IsrState]
        /\ isr' = [isr EXCEPT ![i] = [isr[i] EXCEPT !.status = "Stopping"]]
    BY <1>0, <1>s DEF DisconnectStop, TypeOK
  <2>2. /\ [isr[i] EXCEPT !.status = "Stopping"] \in IsrState
        /\ [isr[i] EXCEPT !.status = "Stopping"].handler = isr[i].handler
        /\ [isr[i] EXCEPT !.status = "Stopping"].done = isr[i].done
    BY <2>1 DEF IsrState, WaiterStatus
  <2> QED BY <2>1, <2>2
<1>b. /\ pc[c] = "disconnect"
      /\ devLock = NoOne
      /\ i \in isrs
      /\ isr[i].handler = arg[c]
      /\ isr[i].status # "Done"
      /\ isr'[i].status = "Stopping"
      /\ pc' = [pc EXCEPT ![c] = "wait"]
      /\ cur' = [cur EXCEPT ![c] = i]
      /\ UNCHANGED <<devLock, intLock, fdOpen, pending, isrs, heap,
                     tpc, interrupted, arg, ret, owed>>
  BY <1>0, <1>s, <1>a DEF DisconnectFound, DisconnectStop, TypeOK, IsrState,
     lockVars, threadVars, Registered
<1>1. TypeOK'
  BY <1>0, <1>a, <1>b DEF TypeOK, ClientPoints
<1>2. NoUseAfterFree'
  BY <1>0, <1>b DEF TypeOK, NoUseAfterFree, HeldBy
<1>3. LockInv'
  BY <1>0, <1>b DEF LockInv
<1>4. IntLockInv'
  BY <1>0, <1>b DEF IntLockInv
<1>5. ArgInv'
  BY <1>0, <1>b DEF ArgInv
<1>6. PrivateInv'
  BY <1>0, <1>a, <1>b DEF TypeOK, PrivateInv, Connecting, Registered
<1>7. UniqueInv'
  <2>1. ASSUME NEW d \in Clients, d # c PROVE i \notin HeldBy(d)
    <3> SUFFICES ASSUME i \in HeldBy(d) PROVE FALSE
      OBVIOUS
    <3>1. Stopping(d) /\ cur[d] = i
      BY <1>0, <1>b DEF HeldBy, Stopping, PrivateInv, Connecting
    <3>2. arg[d] = arg[c] /\ {c, d} \subseteq Callers[arg[c]] /\ arg[c] \in Handlers
      BY <1>0, <1>b, <3>1 DEF StoppingInv, ArgInv, Stopping
    <3> QED
      BY <2>1, <3>2 DEF SingleCaller
  <2>2. \A d \in Clients : HeldBy(d)' = IF d = c THEN {i} ELSE HeldBy(d)
    BY <1>0, <1>b DEF HeldBy, TypeOK
  <2> QED
    BY <1>0, <2>1, <2>2 DEF UniqueInv
<1>8. OneObjectInv'
  BY <1>0, <1>a, <1>b DEF TypeOK, OneObjectInv
<1>9. StoppingInv'
  BY <1>0, <1>a, <1>b DEF TypeOK, StoppingInv, Stopping
<1>10. StopperInv'
  BY <1>0, <1>a, <1>b DEF TypeOK, StopperInv, Stopping
<1>11. DoneInv'
  BY <1>0, <1>a, <1>b DEF TypeOK, DoneInv
<1>12. ThreadInv'
  BY <1>0, <1>a, <1>b DEF ThreadInv
<1> QED
  BY <1>1, <1>2, <1>3, <1>4, <1>5, <1>6, <1>7, <1>8, <1>9, <1>10, <1>11, <1>12
     DEF IInv

\* DisconnectWait keeps the inductive invariant.
LEMMA DisconnectWaitKeeps ==
  ASSUME IInv, NEW c \in Clients, DisconnectWait(c)
  PROVE  IInv'
<1>0. /\ TypeOK /\ NoUseAfterFree /\ LockInv /\ IntLockInv /\ ArgInv /\ PrivateInv
      /\ UniqueInv /\ OneObjectInv /\ StoppingInv /\ StopperInv /\ DoneInv /\ ThreadInv
  BY DEF IInv
<1>1. TypeOK'
  <2>1. isr' \in [Isrs -> IsrState]
    BY <1>0 DEF DisconnectWait, TypeOK, IsrState
  <2> QED
    BY <1>0, <2>1 DEF DisconnectWait, Goto, TypeOK, ClientPoints, lockVars,
       threadVars
<1>2. NoUseAfterFree'
  BY <1>0 DEF NoUseAfterFree, HeldBy, Goto, threadVars, DisconnectWait
<1>3. LockInv'
  BY <1>0 DEF LockInv, Goto, lockVars, DisconnectWait
<1>4. IntLockInv'
  BY <1>0 DEF IntLockInv, lockVars, threadVars, DisconnectWait
<1>5. ArgInv'
  BY <1>0 DEF ArgInv, Goto, DisconnectWait
<1>6. PrivateInv'
  BY <1>0 DEF PrivateInv, Connecting, Registered, Goto, threadVars,
     DisconnectWait
<1>7. UniqueInv'
  BY <1>0 DEF UniqueInv, HeldBy, Goto, DisconnectWait
<1>8. OneObjectInv'
  BY <1>0 DEF OneObjectInv, DisconnectWait
<1>9. StoppingInv'
  BY <1>0 DEF StoppingInv, Stopping, Goto, DisconnectWait
<1>10. StopperInv'
  BY <1>0 DEF StopperInv, Stopping, Goto, DisconnectWait
<1>11. DoneInv'
  BY <1>0 DEF DoneInv, Goto, threadVars, DisconnectWait
<1>12. ThreadInv'
  BY <1>0 DEF ThreadInv, Goto, threadVars, DisconnectWait
<1> QED
  BY <1>1, <1>2, <1>3, <1>4, <1>5, <1>6, <1>7, <1>8, <1>9, <1>10, <1>11, <1>12
     DEF IInv

\* DisconnectRecheck keeps the inductive invariant.
LEMMA DisconnectRecheckKeeps ==
  ASSUME IInv, NEW c \in Clients, DisconnectRecheck(c)
  PROVE  IInv'
<1>0. /\ TypeOK /\ NoUseAfterFree /\ LockInv /\ IntLockInv /\ ArgInv /\ PrivateInv
      /\ UniqueInv /\ OneObjectInv /\ StoppingInv /\ StopperInv /\ DoneInv /\ ThreadInv
  BY DEF IInv
<1>1. TypeOK'
  BY <1>0 DEF TypeOK, Release, Return, Goto, lockVars, threadVars,
     DisconnectRecheck, Returns, ClientPoints
<1>2. NoUseAfterFree'
  BY <1>0 DEF TypeOK, NoUseAfterFree, UniqueInv, DoneInv, ThreadInv, HeldBy,
     Release, Return, Goto, threadVars, DisconnectRecheck
<1>3. LockInv'
  BY <1>0 DEF TypeOK, LockInv, Release, Return, Goto, lockVars,
     DisconnectRecheck
<1>4. IntLockInv'
  BY <1>0 DEF IntLockInv, lockVars, threadVars, DisconnectRecheck
<1>5. ArgInv'
  BY <1>0 DEF TypeOK, ArgInv, Release, Return, Goto, DisconnectRecheck
<1>6. PrivateInv'
  BY <1>0 DEF TypeOK, PrivateInv, Connecting, Registered, Release, Return,
     Goto, threadVars, DisconnectRecheck
<1>7. UniqueInv'
  BY <1>0 DEF TypeOK, UniqueInv, HeldBy, Release, Return, Goto,
     DisconnectRecheck
<1>8. OneObjectInv'
  BY <1>0 DEF OneObjectInv, Release, DisconnectRecheck
<1>9. StoppingInv'
  BY <1>0 DEF TypeOK, StoppingInv, UniqueInv, HeldBy, Stopping, Release,
     Return, Goto, DisconnectRecheck
<1>10. StopperInv'
  BY <1>0 DEF TypeOK, StopperInv, Stopping, Release, Return, Goto,
     DisconnectRecheck
<1>11. DoneInv'
  BY <1>0 DEF TypeOK, DoneInv, Release, Return, Goto, threadVars,
     DisconnectRecheck
<1>12. ThreadInv'
  BY <1>0, NoOneAssumption DEF ThreadInv, DoneInv, LockInv, Release,
     threadVars, DisconnectRecheck
<1> QED
  BY <1>1, <1>2, <1>3, <1>4, <1>5, <1>6, <1>7, <1>8, <1>9, <1>10, <1>11, <1>12
     DEF IInv

\* ThreadRun keeps the inductive invariant.
LEMMA ThreadRunKeeps ==
  ASSUME IInv, NEW i \in Isrs, ThreadRun(i)
  PROVE  IInv'
<1>0. /\ TypeOK /\ NoUseAfterFree /\ LockInv /\ IntLockInv /\ ArgInv /\ PrivateInv
      /\ UniqueInv /\ OneObjectInv /\ StoppingInv /\ StopperInv /\ DoneInv /\ ThreadInv
  BY DEF IInv
<1>a. /\ isr' \in [Isrs -> IsrState]
      /\ \A j \in Isrs : j # i => isr'[j] = isr[j]
      /\ isr'[i].handler = isr[i].handler /\ isr'[i].done = isr[i].done
  <2>1. isr' \in [Isrs -> IsrState]
    BY <1>0 DEF ThreadRun, TypeOK, IsrState, WaiterStatus
  <2> QED
    BY <2>1 DEF ThreadRun
<1>b. /\ tpc[i] = "start"
      /\ devLock = NoOne
      /\ isr[i].status = "Starting"
      /\ isr'[i].status = "Running"
      /\ tpc' = [tpc EXCEPT ![i] = "loop"]
      /\ UNCHANGED <<devLock, intLock, fdOpen, pending, isrs, heap,
                     interrupted, pc, arg, cur, ret, owed>>
  BY <1>a DEF ThreadRun, lockVars, clientVars, ThreadGoto
<1>1. TypeOK'
  BY <1>0, <1>a, <1>b DEF TypeOK, ThreadPoints
<1>2. NoUseAfterFree'
  BY <1>0, <1>b DEF NoUseAfterFree, HeldBy
<1>3. LockInv'
  BY <1>0, <1>b DEF LockInv
<1>4. IntLockInv'
  BY <1>0, <1>b DEF IntLockInv
<1>5. ArgInv'
  BY <1>0, <1>b DEF ArgInv
<1>6. PrivateInv'
  BY <1>0, <1>a, <1>b, NoOneAssumption DEF TypeOK, PrivateInv, LockInv,
     Connecting
<1>7. UniqueInv'
  BY <1>0, <1>b DEF UniqueInv, HeldBy
<1>8. OneObjectInv'
  BY <1>0, <1>a, <1>b DEF TypeOK, OneObjectInv
<1>9. StoppingInv'
  BY <1>0, <1>a, <1>b DEF TypeOK, StoppingInv, Stopping
<1>10. StopperInv'
  BY <1>0, <1>a, <1>b DEF TypeOK, StopperInv, Stopping
<1>11. DoneInv'
  BY <1>0, <1>a, <1>b DEF TypeOK, DoneInv
<1>12. ThreadInv'
  BY <1>0, <1>a, <1>b, NoOneAssumption DEF TypeOK, ThreadInv, LockInv
<1> QED
  BY <1>1, <1>2, <1>3, <1>4, <1>5, <1>6, <1>7, <1>8, <1>9, <1>10, <1>11, <1>12
     DEF IInv

\* ThreadAbandon keeps the inductive invariant.
LEMMA ThreadAbandonKeeps ==
  ASSUME IInv, NEW i \in Isrs, ThreadAbandon(i)
  PROVE  IInv'
<1>0. /\ TypeOK /\ NoUseAfterFree /\ LockInv /\ IntLockInv /\ ArgInv /\ PrivateInv
      /\ UniqueInv /\ OneObjectInv /\ StoppingInv /\ StopperInv /\ DoneInv /\ ThreadInv
  BY DEF IInv
<1>a. /\ isr' \in [Isrs -> IsrState]
      /\ \A j \in Isrs : j # i => isr'[j] = isr[j]
      /\ isr'[i].handler = isr[i].handler /\ isr'[i].done = isr[i].done
  <2>1. isr' \in [Isrs -> IsrState]
    BY <1>0 DEF ThreadAbandon, TypeOK, IsrState, WaiterStatus
  <2> QED
    BY <2>1 DEF ThreadAbandon
<1>b. /\ tpc[i] = "start"
      /\ devLock = NoOne
      /\ isr[i].status # "Starting"
      /\ isr'[i].status = "Done"
      /\ tpc' = [tpc EXCEPT ![i] = "none"]
      /\ UNCHANGED <<devLock, intLock, fdOpen, pending, isrs, heap,
                     interrupted, pc, arg, cur, ret, owed>>
  BY <1>a DEF ThreadAbandon, lockVars, clientVars, ThreadGoto
<1>1. TypeOK'
  BY <1>0, <1>a, <1>b DEF TypeOK, ThreadPoints
<1>2. NoUseAfterFree'
  BY <1>0, <1>b DEF NoUseAfterFree, HeldBy
<1>3. LockInv'
  BY <1>0, <1>b DEF LockInv
<1>4. IntLockInv'
  BY <1>0, <1>b DEF IntLockInv
<1>5. ArgInv'
  BY <1>0, <1>b DEF ArgInv
<1>6. PrivateInv'
  BY <1>0, <1>a, <1>b DEF TypeOK, PrivateInv, Connecting, Registered
<1>7. UniqueInv'
  BY <1>0, <1>b DEF UniqueInv, HeldBy
<1>8. OneObjectInv'
  BY <1>0, <1>a, <1>b DEF TypeOK, OneObjectInv
<1>9. StoppingInv'
  BY <1>0, <1>a, <1>b DEF TypeOK, StoppingInv, Stopping
<1>10. StopperInv'
  BY <1>0, <1>a, <1>b DEF TypeOK, StopperInv, ThreadInv, Stopping
<1>11. DoneInv'
  BY <1>0, <1>a, <1>b DEF TypeOK, DoneInv
<1>12. ThreadInv'
  BY <1>0, <1>a, <1>b DEF TypeOK, ThreadInv
<1> QED
  BY <1>1, <1>2, <1>3, <1>4, <1>5, <1>6, <1>7, <1>8, <1>9, <1>10, <1>11, <1>12
     DEF IInv

\* ThreadCallback keeps the inductive invariant.
LEMMA ThreadCallbackKeeps ==
  ASSUME IInv, NEW i \in Isrs, ThreadCallback(i)
  PROVE  IInv'
<1>1. TypeOK'
  BY DEF IInv, TypeOK, ThreadCallback, ThreadGoto, ThreadPoints, clientVars
<1>2. IntLockInv'
  BY NoOneAssumption DEF IInv, TypeOK, IntLockInv, ThreadCallback, ThreadGoto
<1>3. /\ tpc[i] \in InLoop /\ tpc' = [tpc EXCEPT ![i] = "callback"]
      /\ UNCHANGED <<devLock, isrs, heap, isr, pc, arg, cur>>
  BY DEF InLoop, ThreadCallback, ThreadGoto, clientVars
<1> QED
  BY <1>1, <1>2, <1>3, ThreadMoves DEF InLoop

\* ThreadCallbackReturns keeps the inductive invariant.
LEMMA ThreadCallbackReturnsKeeps ==
  ASSUME IInv, NEW i \in Isrs, ThreadCallbackReturns(i)
  PROVE  IInv'
<1>1. TypeOK'
  BY DEF IInv, TypeOK, ThreadCallbackReturns, ThreadGoto, ThreadPoints,
     clientVars
<1>2. IntLockInv'
  BY NoOneAssumption DEF IInv, TypeOK, IntLockInv, ThreadCallbackReturns,
     ThreadGoto
<1>3. /\ tpc[i] \in InLoop /\ tpc' = [tpc EXCEPT ![i] = "read"]
      /\ UNCHANGED <<devLock, isrs, heap, isr, pc, arg, cur>>
  BY DEF InLoop, ThreadCallbackReturns, ThreadGoto, clientVars
<1> QED
  BY <1>1, <1>2, <1>3, ThreadMoves DEF InLoop

\* ThreadNoCallback keeps the inductive invariant.
LEMMA ThreadNoCallbackKeeps ==
  ASSUME IInv, NEW i \in Isrs, ThreadNoCallback(i)
  PROVE  IInv'
<1>1. TypeOK'
  BY DEF IInv, TypeOK, ThreadNoCallback, ThreadGoto, ThreadPoints, lockVars,
     clientVars
<1>2. IntLockInv'
  BY DEF IInv, IntLockInv, ThreadNoCallback, ThreadGoto, lockVars
<1>3. /\ tpc[i] \in InLoop /\ tpc' = [tpc EXCEPT ![i] = "read"]
      /\ UNCHANGED <<devLock, isrs, heap, isr, pc, arg, cur>>
  BY DEF InLoop, ThreadNoCallback, ThreadGoto, lockVars, clientVars
<1> QED
  BY <1>1, <1>2, <1>3, ThreadMoves DEF InLoop

\* ThreadRead keeps the inductive invariant.
LEMMA ThreadReadKeeps ==
  ASSUME IInv, NEW i \in Isrs, ThreadRead(i)
  PROVE  IInv'
<1>1. TypeOK'
  BY DEF IInv, TypeOK, ThreadRead, ThreadGoto, ThreadPoints, lockVars,
     clientVars
<1>2. IntLockInv'
  BY DEF IInv, IntLockInv, ThreadRead, ThreadGoto, lockVars
<1>3. /\ tpc[i] \in InLoop /\ tpc' = [tpc EXCEPT ![i] = "check"]
      /\ UNCHANGED <<devLock, isrs, heap, isr, pc, arg, cur>>
  BY DEF InLoop, ThreadRead, ThreadGoto, lockVars, clientVars
<1> QED
  BY <1>1, <1>2, <1>3, ThreadMoves DEF InLoop

\* ThreadReadFails keeps the inductive invariant.
LEMMA ThreadReadFailsKeeps ==
  ASSUME IInv, NEW i \in Isrs, ThreadReadFails(i)
  PROVE  IInv'
<1>1. TypeOK'
  BY DEF IInv, TypeOK, ThreadReadFails, ThreadGoto, ThreadPoints, lockVars,
     clientVars
<1>2. IntLockInv'
  BY DEF IInv, IntLockInv, ThreadReadFails, ThreadGoto, lockVars
<1>3. /\ tpc[i] \in InLoop /\ tpc' = [tpc EXCEPT ![i] = "check"]
      /\ UNCHANGED <<devLock, isrs, heap, isr, pc, arg, cur>>
  BY DEF InLoop, ThreadReadFails, ThreadGoto, lockVars, clientVars
<1> QED
  BY <1>1, <1>2, <1>3, ThreadMoves DEF InLoop

\* ThreadAgain keeps the inductive invariant.
LEMMA ThreadAgainKeeps ==
  ASSUME IInv, NEW i \in Isrs, ThreadAgain(i)
  PROVE  IInv'
<1>1. TypeOK'
  BY DEF IInv, TypeOK, ThreadAgain, ThreadGoto, ThreadPoints, lockVars,
     clientVars
<1>2. IntLockInv'
  BY DEF IInv, IntLockInv, ThreadAgain, ThreadGoto, lockVars
<1>3. /\ tpc[i] \in InLoop /\ tpc' = [tpc EXCEPT ![i] = "loop"]
      /\ UNCHANGED <<devLock, isrs, heap, isr, pc, arg, cur>>
  BY DEF InLoop, ThreadAgain, ThreadGoto, lockVars, clientVars
<1> QED
  BY <1>1, <1>2, <1>3, ThreadMoves DEF InLoop

\* ThreadLeave keeps the inductive invariant.
LEMMA ThreadLeaveKeeps ==
  ASSUME IInv, NEW i \in Isrs, ThreadLeave(i)
  PROVE  IInv'
<1>0. /\ TypeOK /\ NoUseAfterFree /\ LockInv /\ IntLockInv /\ ArgInv /\ PrivateInv
      /\ UniqueInv /\ OneObjectInv /\ StoppingInv /\ StopperInv /\ DoneInv /\ ThreadInv
  BY DEF IInv
<1>a. /\ isr' \in [Isrs -> IsrState]
      /\ \A j \in Isrs : j # i => isr'[j] = isr[j]
      /\ isr'[i].handler = isr[i].handler /\ isr'[i].done = isr[i].done
  <2>1. isr' \in [Isrs -> IsrState]
    BY <1>0 DEF ThreadLeave, TypeOK, IsrState, WaiterStatus
  <2> QED
    BY <2>1 DEF ThreadLeave
<1>b. /\ tpc[i] = "check"
      /\ devLock = NoOne
      /\ isr[i].status # "Running"
      /\ isr'[i].status = "Done"
      /\ tpc' = [tpc EXCEPT ![i] = "signal"]
      /\ UNCHANGED <<devLock, intLock, fdOpen, pending, isrs, heap,
                     interrupted, pc, arg, cur, ret, owed>>
  BY <1>a DEF ThreadLeave, lockVars, clientVars, ThreadGoto
<1>1. TypeOK'
  BY <1>0, <1>a, <1>b DEF TypeOK, ThreadPoints
<1>2. NoUseAfterFree'
  BY <1>0, <1>b DEF NoUseAfterFree, HeldBy
<1>3. LockInv'
  BY <1>0, <1>b DEF LockInv
<1>4. IntLockInv'
  BY <1>0, <1>b DEF IntLockInv
<1>5. ArgInv'
  BY <1>0, <1>b DEF ArgInv
<1>6. PrivateInv'
  BY <1>0, <1>a, <1>b DEF TypeOK, PrivateInv, Connecting, Registered
<1>7. UniqueInv'
  BY <1>0, <1>b DEF UniqueInv, HeldBy
<1>8. OneObjectInv'
  BY <1>0, <1>a, <1>b DEF TypeOK, OneObjectInv
<1>9. StoppingInv'
  BY <1>0, <1>a, <1>b DEF TypeOK, StoppingInv, Stopping
<1>10. StopperInv'
  BY <1>0, <1>a, <1>b DEF TypeOK, StopperInv, ThreadInv, Stopping
<1>11. DoneInv'
  BY <1>0, <1>a, <1>b DEF TypeOK, DoneInv
<1>12. ThreadInv'
  BY <1>0, <1>a, <1>b DEF TypeOK, ThreadInv
<1> QED
  BY <1>1, <1>2, <1>3, <1>4, <1>5, <1>6, <1>7, <1>8, <1>9, <1>10, <1>11, <1>12
     DEF IInv

\* ThreadSignal keeps the inductive invariant.
LEMMA ThreadSignalKeeps ==
  ASSUME IInv, NEW i \in Isrs, ThreadSignal(i)
  PROVE  IInv'
<1>0. /\ TypeOK /\ NoUseAfterFree /\ LockInv /\ IntLockInv /\ ArgInv /\ PrivateInv
      /\ UniqueInv /\ OneObjectInv /\ StoppingInv /\ StopperInv /\ DoneInv /\ ThreadInv
  BY DEF IInv
<1>a. /\ isr' \in [Isrs -> IsrState]
      /\ \A j \in Isrs : j # i => isr'[j] = isr[j]
      /\ isr'[i].handler = isr[i].handler /\ isr'[i].status = isr[i].status
  <2>1. isr' \in [Isrs -> IsrState]
    BY <1>0 DEF ThreadSignal, TypeOK, IsrState
  <2> QED
    BY <2>1 DEF ThreadSignal
<1>b. /\ tpc[i] = "signal"
      /\ isr'[i].done
      /\ tpc' = [tpc EXCEPT ![i] = "none"]
      /\ UNCHANGED <<devLock, intLock, fdOpen, pending, isrs, heap,
                     interrupted, pc, arg, cur, ret, owed>>
  BY <1>a DEF ThreadSignal, lockVars, clientVars, ThreadGoto
<1>1. TypeOK'
  BY <1>0, <1>a, <1>b DEF TypeOK, ThreadPoints
<1>2. NoUseAfterFree'
  BY <1>0, <1>b DEF NoUseAfterFree, HeldBy
<1>3. LockInv'
  BY <1>0, <1>b DEF LockInv
<1>4. IntLockInv'
  BY <1>0, <1>b DEF IntLockInv
<1>5. ArgInv'
  BY <1>0, <1>b DEF ArgInv
<1>6. PrivateInv'
  BY <1>0, <1>a, <1>b DEF TypeOK, PrivateInv, Connecting, Registered
<1>7. UniqueInv'
  BY <1>0, <1>b DEF UniqueInv, HeldBy
<1>8. OneObjectInv'
  BY <1>0, <1>a, <1>b DEF TypeOK, OneObjectInv
<1>9. StoppingInv'
  BY <1>0, <1>a, <1>b DEF TypeOK, StoppingInv, Stopping
<1>10. StopperInv'
  BY <1>0, <1>a, <1>b DEF TypeOK, StopperInv, Stopping
<1>11. DoneInv'
  BY <1>0, <1>a, <1>b DEF TypeOK, DoneInv, ThreadInv
<1>12. ThreadInv'
  BY <1>0, <1>a, <1>b DEF ThreadInv
<1> QED
  BY <1>1, <1>2, <1>3, <1>4, <1>5, <1>6, <1>7, <1>8, <1>9, <1>10, <1>11, <1>12
     DEF IInv

\* DeviceInterrupt keeps the inductive invariant.
LEMMA DeviceInterruptKeeps ==
  ASSUME IInv, DeviceInterrupt
  PROVE  IInv'
<1>1. TypeOK'
  BY DEF IInv, TypeOK, DeviceInterrupt, lockVars, threadVars, clientVars
<1>2. /\ UNCHANGED <<devLock, intLock, isrs, heap, isr, tpc, pc, arg, cur>>
      /\ NoUseAfterFree /\ LockInv /\ IntLockInv /\ ArgInv /\ PrivateInv /\ UniqueInv
      /\ OneObjectInv /\ StoppingInv /\ StopperInv /\ DoneInv /\ ThreadInv
  BY DEF IInv, DeviceInterrupt, lockVars, threadVars, clientVars
<1>3. NoUseAfterFree' /\ LockInv' /\ IntLockInv' /\ ArgInv' /\ UniqueInv'
  BY <1>2 DEF NoUseAfterFree, LockInv, IntLockInv, ArgInv, UniqueInv, HeldBy
<1>4. PrivateInv' /\ OneObjectInv' /\ StoppingInv' /\ StopperInv'
  BY <1>2 DEF PrivateInv, OneObjectInv, StoppingInv, StopperInv, Connecting, Stopping, Registered
<1>5. DoneInv' /\ ThreadInv'
  BY <1>2 DEF DoneInv, ThreadInv
<1> QED
  BY <1>1, <1>3, <1>4, <1>5 DEF IInv

\* A stuttering step keeps the inductive invariant.
LEMMA StutterKeeps ==
  ASSUME IInv, UNCHANGED vars
  PROVE  IInv'
<1>1. /\ TypeOK' /\ NoUseAfterFree' /\ LockInv' /\ IntLockInv' /\ ArgInv' /\ UniqueInv'
  BY DEF vars, IInv, TypeOK, NoUseAfterFree, LockInv, IntLockInv, ArgInv, UniqueInv, HeldBy
<1>2. PrivateInv' /\ OneObjectInv' /\ StoppingInv' /\ StopperInv' /\ DoneInv' /\ ThreadInv'
  BY DEF vars, IInv, PrivateInv, OneObjectInv, StoppingInv, StopperInv, DoneInv, ThreadInv,
     Connecting, Stopping, Registered
<1> QED
  BY <1>1, <1>2 DEF IInv

\* In the initial state there is no object, no thread and no call.
LEMMA InitInv == Init => IInv
<1> SUFFICES ASSUME Init PROVE IInv
  OBVIOUS
<1>1. TypeOK
  <2>1. isr \in [Isrs -> IsrState]
    BY DEF Init, IsrState, WaiterStatus
  <2> QED
    BY <2>1 DEF Init, TypeOK, ThreadPoints, ClientPoints, Returns
<1>2. NoUseAfterFree /\ LockInv /\ IntLockInv /\ ArgInv /\ PrivateInv /\ UniqueInv
  BY NoOneAssumption DEF Init, NoUseAfterFree, LockInv, IntLockInv, ArgInv, PrivateInv, UniqueInv,
     HeldBy, Connecting
<1>3. OneObjectInv /\ StoppingInv /\ StopperInv /\ DoneInv /\ ThreadInv
  BY DEF Init, OneObjectInv, StoppingInv, StopperInv, DoneInv, ThreadInv, Stopping
<1> QED
  BY <1>1, <1>2, <1>3 DEF IInv

\* Every step keeps the inductive invariant.
LEMMA NextKeeps ==
  ASSUME SingleCaller, IInv, [Next]_vars
  PROVE  IInv'
<1>1. ASSUME NEW c \in Clients, NEW h \in Handlers, ConnectCall(c, h)
      PROVE  IInv'
  BY <1>1, ConnectNoMemoryKeeps, ConnectAllocKeeps DEF ConnectCall
<1>2. ASSUME NEW c \in Clients, NEW h \in Handlers, DisconnectCall(c, h)
      PROVE  IInv'
  BY <1>2, DisconnectCallKeeps
<1>3. ASSUME NEW c \in Clients, ConnectLock(c) \/ ConnectCreate(c) \/ ConnectAdd(c)
      PROVE  IInv'
  BY <1>3, ConnectNoDeviceKeeps, ConnectDuplicateKeeps, ConnectNewKeeps, ConnectThreadKeeps,
     ConnectNoThreadKeeps, ConnectAddKeeps DEF ConnectLock, ConnectCreate
<1>4. ASSUME NEW c \in Clients, DisconnectLock(c) \/ DisconnectWait(c) \/ DisconnectRecheck(c)
      PROVE  IInv'
  BY <1>4, DisconnectUnknownKeeps, DisconnectFoundKeeps, DisconnectWaitKeeps,
     DisconnectRecheckKeeps DEF DisconnectLock
<1>5. ASSUME NEW i \in Isrs, ThreadStep(i) \/ ThreadRead(i) \/ ThreadReadFails(i)
      PROVE  IInv'
  BY <1>5, ThreadRunKeeps, ThreadAbandonKeeps, ThreadCallbackKeeps, ThreadCallbackReturnsKeeps,
     ThreadNoCallbackKeeps, ThreadAgainKeeps, ThreadLeaveKeeps, ThreadSignalKeeps,
     ThreadReadKeeps, ThreadReadFailsKeeps DEF ThreadStep, ThreadStart, ThreadCheck
<1> QED
  BY <1>1, <1>2, <1>3, <1>4, <1>5, DeviceInterruptKeeps, StutterKeeps DEF Next, ClientStep

\* The inductive invariant holds in every reachable state if every handler has
\* one caller.
THEOREM Inductive ==
  ASSUME SingleCaller
  PROVE  Spec => []IInv
<1>1. IInv /\ [Next]_vars => IInv'
  BY NextKeeps
<1> QED
  BY <1>1, InitInv, PTL DEF Spec

\* Every variable of the interrupt service keeps to its type.
THEOREM TypeCorrect ==
  ASSUME SingleCaller
  PROVE  Spec => []TypeOK
<1>1. IInv => TypeOK
  BY DEF IInv
<1> QED
  BY <1>1, Inductive, PTL

\* stopIsrThread() and free() in disconnect: no object is freed while it is on
\* the list, while its thread can still read it, or while a client uses it.
THEOREM MemorySafe ==
  ASSUME SingleCaller
  PROVE  Spec => []NoUseAfterFree
<1>1. IInv => NoUseAfterFree
  BY DEF IInv
<1> QED
  BY <1>1, Inductive, PTL

-----------------------------------------------------------------------------
(* A stop request is final.                                                *)

\* What a step may do to the objects that stay allocated.
StatusMoves == \A i \in heap \cap heap' :
  /\ isr[i].status = "Stopping" => isr'[i].status \in {"Stopping", "Done"}
  /\ isr[i].status = "Done" => isr'[i].status = "Done"

\* A step moves the waiter_status of an allocated object forward only.
LEMMA StatusForward ==
  ASSUME IInv, [Next]_vars
  PROVE  StatusMoves
<1>0. isr \in [Isrs -> IsrState] /\ heap \subseteq Isrs
  BY DEF IInv, TypeOK
<1>1. CASE isr' = isr
  BY <1>1 DEF StatusMoves
<1>2. ASSUME NEW c \in Clients, NEW h \in Handlers, NEW i \in Isrs, ConnectAlloc(c, h, i)
      PROVE  StatusMoves
  BY <1>0, <1>2 DEF StatusMoves, ConnectAlloc, Allocatable
<1>3. ASSUME NEW c \in Clients, NEW i \in Isrs, DisconnectFound(c, i)
      PROVE  StatusMoves
  BY <1>0, <1>3 DEF StatusMoves, DisconnectFound, DisconnectDone, DisconnectStop, IsrState
<1>4. ASSUME NEW c \in Clients, DisconnectWait(c)
      PROVE  StatusMoves
  BY <1>0, <1>4 DEF StatusMoves, DisconnectWait, IsrState
<1>5. ASSUME NEW i \in Isrs, ThreadRun(i) \/ ThreadAbandon(i) \/ ThreadLeave(i)
      PROVE  StatusMoves
  BY <1>0, <1>5 DEF StatusMoves, ThreadRun, ThreadAbandon, ThreadLeave, IsrState
<1>6. ASSUME NEW i \in Isrs, ThreadSignal(i)
      PROVE  StatusMoves
  BY <1>0, <1>6 DEF StatusMoves, ThreadSignal, IsrState
<1>7. ASSUME NEW c \in Clients, ClientStep(c)
      PROVE  StatusMoves
  BY <1>1, <1>3, <1>4, <1>7 DEF ClientStep, ConnectLock, ConnectNoDevice, ConnectDuplicate,
     ConnectNew, ConnectCreate, ConnectThread, ConnectNoThread, ConnectAdd, DisconnectLock,
     DisconnectUnknown, DisconnectRecheck
<1>8. ASSUME NEW i \in Isrs, ThreadStep(i) \/ ThreadRead(i) \/ ThreadReadFails(i)
      PROVE  StatusMoves
  BY <1>1, <1>5, <1>6, <1>8 DEF ThreadStep, ThreadStart, ThreadCallback, ThreadCallbackReturns,
     ThreadNoCallback, ThreadCheck, ThreadAgain, ThreadRead, ThreadReadFails
<1>9. ASSUME NEW c \in Clients, NEW h \in Handlers, ConnectCall(c, h) \/ DisconnectCall(c, h)
      PROVE  StatusMoves
  BY <1>1, <1>2, <1>9 DEF ConnectCall, ConnectNoMemory, DisconnectCall
<1> QED
  BY <1>1, <1>7, <1>8, <1>9 DEF Next, DeviceInterrupt, vars

\* stopIsrThread(): no step takes back a stop request or the end of a thread.
THEOREM StopFinal ==
  ASSUME SingleCaller
  PROVE  Spec => StopIsFinal
<1>1. IInv /\ [Next]_vars => [StatusMoves]_vars
  BY StatusForward
<1> QED
  BY <1>1, Inductive, PTL DEF Spec, StopIsFinal, StatusMoves

-----------------------------------------------------------------------------
(* UioIsr implements IrqService.                                           *)

Connected == {isr[i].handler : i \in isrs}
InCallback == {j \in Isrs : tpc[j] = "callback"}
Running == {isr[i].handler : i \in InCallback}

\* A listed object has a handler.
ListedInv == \A i \in isrs : isr[i].handler \in Handlers

\* No step changes the handler of a listed object.
LEMMA HandlerKept ==
  ASSUME IInv, [Next]_vars
  PROVE  \A i \in isrs : isr'[i].handler = isr[i].handler
<1> DEFINE Kept == \A i \in isrs : isr'[i].handler = isr[i].handler
<1>0. isr \in [Isrs -> IsrState] /\ isrs \subseteq heap /\ isrs \subseteq Isrs
  BY DEF IInv, TypeOK, NoUseAfterFree
<1>1. CASE isr' = isr
  BY <1>1
<1>2. ASSUME NEW c \in Clients, NEW h \in Handlers, NEW i \in Isrs, ConnectAlloc(c, h, i)
      PROVE  Kept
  BY <1>0, <1>2 DEF ConnectAlloc, Allocatable
<1>3. ASSUME NEW c \in Clients, NEW i \in Isrs, DisconnectFound(c, i)
      PROVE  Kept
  BY <1>0, <1>3 DEF DisconnectFound, DisconnectDone, DisconnectStop, IsrState
<1>4. ASSUME NEW c \in Clients, DisconnectWait(c)
      PROVE  Kept
  BY <1>0, <1>4 DEF DisconnectWait, IsrState
<1>5. ASSUME NEW i \in Isrs, ThreadRun(i) \/ ThreadAbandon(i) \/ ThreadLeave(i) \/ ThreadSignal(i)
      PROVE  Kept
  BY <1>0, <1>5 DEF ThreadRun, ThreadAbandon, ThreadLeave, ThreadSignal, IsrState
<1>6. ASSUME NEW c \in Clients, ClientStep(c)
      PROVE  Kept
  BY <1>1, <1>3, <1>4, <1>6 DEF ClientStep, ConnectLock, ConnectNoDevice, ConnectDuplicate,
     ConnectNew, ConnectCreate, ConnectThread, ConnectNoThread, ConnectAdd, DisconnectLock,
     DisconnectUnknown, DisconnectRecheck
<1>7. ASSUME NEW i \in Isrs, ThreadStep(i) \/ ThreadRead(i) \/ ThreadReadFails(i)
      PROVE  Kept
  BY <1>1, <1>5, <1>7 DEF ThreadStep, ThreadStart, ThreadCallback, ThreadCallbackReturns,
     ThreadNoCallback, ThreadCheck, ThreadAgain, ThreadRead, ThreadReadFails
<1>8. ASSUME NEW c \in Clients, NEW h \in Handlers, ConnectCall(c, h) \/ DisconnectCall(c, h)
      PROVE  Kept
  BY <1>1, <1>2, <1>8 DEF ConnectCall, ConnectNoMemory, DisconnectCall
<1> QED
  BY <1>1, <1>6, <1>7, <1>8 DEF Next, DeviceInterrupt, vars

\* The list changes when an object is added or given up, and at no other time.
LEMMA ListMoves ==
  ASSUME IInv, [Next]_vars
  PROVE  \/ isrs' \subseteq isrs
         \/ \E c \in Clients : ConnectAdd(c)
BY DEF Next, ClientStep, ThreadStep, ConnectCall, ConnectAlloc, ConnectNoMemory, DisconnectCall,
   ConnectLock, ConnectNoDevice, ConnectDuplicate, ConnectNew, ConnectCreate, ConnectThread,
   ConnectNoThread, DisconnectLock, DisconnectUnknown, DisconnectFound, DisconnectDone, DisconnectStop,
   DisconnectWait, DisconnectRecheck, Release, ThreadStart, ThreadRun, ThreadAbandon,
   ThreadCallback, ThreadCallbackReturns, ThreadNoCallback, ThreadRead, ThreadReadFails,
   ThreadCheck, ThreadAgain, ThreadLeave, ThreadSignal, DeviceInterrupt, vars

\* What connect puts on the list.
LEMMA ConnectAddObject ==
  ASSUME IInv, NEW c \in Clients, ConnectAdd(c)
  PROVE  /\ cur[c] \in Isrs /\ isr[cur[c]].handler = arg[c] /\ arg[c] \in Handlers
         /\ Registered(arg[c]) = {}
<1>1. Connecting(c) /\ pc[c] # "connect" /\ pc[c] # "idle"
  BY DEF ConnectAdd, Connecting
<1>2. cur[c] \in heap /\ heap \subseteq Isrs /\ Registered(arg[c]) = {}
  BY <1>1 DEF IInv, TypeOK, PrivateInv
<1>3. isr[cur[c]] = [status |-> "Starting", handler |-> arg[c], done |-> FALSE]
  BY <1>1 DEF IInv, PrivateInv
<1>4. arg[c] \in Handlers
  BY <1>1 DEF IInv, ArgInv
<1> QED
  BY <1>2, <1>3, <1>4

\* A step keeps a handler in every listed object.
LEMMA ListedKept ==
  ASSUME IInv, ListedInv, [Next]_vars
  PROVE  ListedInv'
<1>1. CASE isrs' \subseteq isrs
  BY <1>1, HandlerKept DEF ListedInv
<1>2. ASSUME NEW c \in Clients, ConnectAdd(c)
      PROVE  ListedInv'
  <2>1. isr[cur[c]].handler = arg[c] /\ arg[c] \in Handlers
    BY <1>2, ConnectAddObject
  <2> QED
    BY <1>2, <2>1 DEF ListedInv, ConnectAdd
<1> QED
  BY <1>1, <1>2, ListMoves

\* Every listed object has a handler, in every reachable state.
LEMMA ListedAlways ==
  ASSUME SingleCaller
  PROVE  Spec => []ListedInv
<1>1. Init => ListedInv
  BY DEF Init, ListedInv
<1>2. IInv /\ ListedInv /\ [Next]_vars => ListedInv'
  BY ListedKept
<1> QED
  BY <1>1, <1>2, Inductive, PTL DEF Spec

\* A step that changes neither the list, nor who is in a callback, nor the
\* handler of a listed object, is a stutter of the service.
LEMMA Unseen ==
  ASSUME IInv, isrs' = isrs, InCallback' = InCallback,
         \A i \in isrs : isr'[i].handler = isr[i].handler
  PROVE  Connected' = Connected /\ Running' = Running
<1>1. InCallback \subseteq isrs
  BY DEF IInv, ThreadInv, InCallback
<1> QED
  BY <1>1 DEF Connected, Running

\* A listed object is given up: its handler is disconnected and is not running.
LEMMA ReleaseSeen ==
  ASSUME IInv, ListedInv, NEW c \in Clients, NEW i \in isrs, tpc[i] = "none",
         Release(c, i), UNCHANGED <<isr, tpc>>
  PROVE  \E h \in Handlers : /\ h \in Connected \ Running
                             /\ Connected' = Connected \ {h}
                             /\ Running' = Running
<1> DEFINE h == isr[i].handler
<1>1. \A j \in isrs : isr[j].handler = h => j = i
  BY DEF IInv, OneObjectInv
<1>2. \A j \in InCallback : j \in isrs /\ j # i
  BY DEF IInv, ThreadInv, InCallback
<1>3. h \in Connected \ Running /\ Connected' = Connected \ {h} /\ Running' = Running
  BY <1>1, <1>2 DEF Connected, Running, InCallback, Release
<1>4. h \in Handlers
  BY DEF ListedInv
<1> QED
  BY <1>3, <1>4

\* connect adds its handler to the service.
LEMMA AddSeen ==
  ASSUME IInv, NEW c \in Clients, ConnectAdd(c)
  PROVE  /\ arg[c] \in Handlers \ Connected
         /\ Connected' = Connected \cup {arg[c]}
         /\ Running' = Running
<1>1. /\ cur[c] \in Isrs /\ isr[cur[c]].handler = arg[c] /\ arg[c] \in Handlers
      /\ Registered(arg[c]) = {}
  BY ConnectAddObject
<1>2. isrs' = isrs \cup {cur[c]} /\ isr' = isr /\ tpc' = tpc
  BY DEF ConnectAdd, threadVars
<1> QED
  BY <1>1, <1>2 DEF Connected, Running, InCallback, Registered

\* A thread enters the handler: no other handler runs.
LEMMA EnterSeen ==
  ASSUME IInv, ListedInv, NEW i \in Isrs, ThreadCallback(i)
  PROVE  /\ isr[i].handler \in Handlers \cap Connected
         /\ Running = {} /\ Running' = {isr[i].handler}
         /\ Connected' = Connected
<1>1. InCallback = {}
  BY NoOneAssumption DEF IInv, IntLockInv, InCallback, ThreadCallback
<1>2. i \in isrs
  BY DEF IInv, ThreadInv, ThreadCallback
<1>3. InCallback' = {i} /\ isr' = isr /\ isrs' = isrs
  BY <1>1 DEF IInv, TypeOK, InCallback, ThreadCallback, ThreadGoto
<1> QED
  BY <1>1, <1>2, <1>3 DEF ListedInv, Connected, Running

\* The handler returns: it was the only one that ran.
LEMMA LeaveSeen ==
  ASSUME IInv, ListedInv, NEW i \in Isrs, ThreadCallbackReturns(i)
  PROVE  /\ isr[i].handler \in Handlers \cap Running
         /\ Running' = Running \ {isr[i].handler}
         /\ Connected' = Connected
<1>1. InCallback = {i}
  BY DEF IInv, IntLockInv, InCallback, ThreadCallbackReturns
<1>2. i \in isrs
  BY DEF IInv, ThreadInv, ThreadCallbackReturns
<1>3. InCallback' = {} /\ isr' = isr /\ isrs' = isrs
  BY <1>1 DEF IInv, TypeOK, InCallback, ThreadCallbackReturns, ThreadGoto
<1> QED
  BY <1>1, <1>2, <1>3 DEF ListedInv, Connected, Running

\* A step that does not enter or leave a handler leaves InCallback alone.
LEMMA CallbackKept ==
  ASSUME IInv, [Next]_vars,
         ~\E i \in Isrs : ThreadCallback(i) \/ ThreadCallbackReturns(i)
  PROVE  InCallback' = InCallback
<1>0. tpc \in [Isrs -> ThreadPoints]
  BY DEF IInv, TypeOK
<1>1. CASE tpc' = tpc
  BY <1>1 DEF InCallback
<1>2. ASSUME NEW i \in Isrs, NEW p, p # "callback", tpc[i] # "callback", ThreadGoto(i, p)
      PROVE  InCallback' = InCallback
  BY <1>0, <1>2 DEF InCallback, ThreadGoto
<1>3. ASSUME NEW i \in Isrs, ThreadStep(i) \/ ThreadRead(i) \/ ThreadReadFails(i)
      PROVE  InCallback' = InCallback
  BY <1>2, <1>3 DEF ThreadStep, ThreadStart, ThreadRun, ThreadAbandon, ThreadNoCallback,
     ThreadRead, ThreadReadFails, ThreadCheck, ThreadAgain, ThreadLeave, ThreadSignal
<1>4. ASSUME NEW c \in Clients, ConnectThread(c)
      PROVE  InCallback' = InCallback
  <2>1. cur[c] \in Isrs /\ tpc[cur[c]] = "none"
    BY <1>4 DEF IInv, TypeOK, PrivateInv, Connecting, ConnectThread
  <2> QED
    BY <1>2, <1>4, <2>1 DEF ConnectThread
<1>5. ASSUME NEW c \in Clients, ClientStep(c)
      PROVE  InCallback' = InCallback
  BY <1>1, <1>4, <1>5 DEF ClientStep, ConnectLock, ConnectNoDevice, ConnectDuplicate,
     ConnectNew, ConnectCreate, ConnectNoThread, ConnectAdd, DisconnectLock, DisconnectUnknown,
     DisconnectFound, DisconnectWait, DisconnectRecheck, threadVars
<1>6. ASSUME NEW c \in Clients, NEW h \in Handlers, ConnectCall(c, h) \/ DisconnectCall(c, h)
      PROVE  InCallback' = InCallback
  BY <1>1, <1>6 DEF ConnectCall, ConnectAlloc, ConnectNoMemory, DisconnectCall, threadVars
<1> QED
  BY <1>1, <1>3, <1>5, <1>6 DEF Next, DeviceInterrupt, vars, threadVars

\* A step that gives up an object gives up one whose thread has gone.
LEMMA ListShrinks ==
  ASSUME SingleCaller, IInv, [Next]_vars, isrs' # isrs, ~\E c \in Clients : ConnectAdd(c)
  PROVE  \E c \in Clients, i \in isrs :
           tpc[i] = "none" /\ Release(c, i) /\ UNCHANGED <<isr, tpc>>
<1>1. ASSUME NEW c \in Clients, ClientStep(c)
      PROVE  DisconnectRecheck(c) \/ \E i \in Isrs : DisconnectFound(c, i) /\ DisconnectDone(c, i)
  BY <1>1 DEF ClientStep, ConnectLock, ConnectNoDevice, ConnectDuplicate, ConnectNew,
     ConnectCreate, ConnectThread, ConnectNoThread, ConnectError, DisconnectLock,
     DisconnectUnknown, DisconnectFound, DisconnectStop, DisconnectWait
<1>2. ASSUME NEW c \in Clients, DisconnectRecheck(c)
      PROVE  /\ cur[c] \in isrs /\ tpc[cur[c]] = "none"
             /\ Release(c, cur[c]) /\ UNCHANGED <<isr, tpc>>
  BY <1>2 DEF DisconnectRecheck, IInv, StoppingInv, Stopping, DoneInv, threadVars
<1>3. ASSUME NEW c \in Clients, NEW i \in Isrs, DisconnectFound(c, i)
      PROVE  ~DisconnectDone(c, i)
  BY <1>3, FoundIsNotDone DEF DisconnectDone
<1>4. \E c \in Clients : ClientStep(c)
  BY DEF Next, ConnectCall, ConnectAlloc, ConnectNoMemory, DisconnectCall, ThreadStep,
     ThreadStart, ThreadRun, ThreadAbandon, ThreadCallback, ThreadCallbackReturns,
     ThreadNoCallback, ThreadRead, ThreadReadFails, ThreadCheck, ThreadAgain, ThreadLeave,
     ThreadSignal, DeviceInterrupt, vars
<1> QED
  BY <1>1, <1>2, <1>3, <1>4

\* Every step of the implementation is a step of the service or a stutter.
LEMMA ServiceStep ==
  ASSUME SingleCaller, IInv, ListedInv, [Next]_vars
  PROVE  [Service!Next]_(Service!vars)
<1> USE DEF Service!Next, Service!vars, Connected, Running, InCallback
<1>1. ASSUME NEW c \in Clients, ConnectAdd(c)
      PROVE  Service!Next
  BY <1>1, AddSeen DEF Service!Connect
<1>2. ASSUME NEW i \in Isrs, ThreadCallback(i)
      PROVE  Service!Next
  BY <1>2, EnterSeen DEF Service!Enter
<1>3. ASSUME NEW i \in Isrs, ThreadCallbackReturns(i)
      PROVE  Service!Next
  BY <1>3, LeaveSeen DEF Service!Leave
<1>4. CASE /\ isrs' # isrs /\ ~\E c \in Clients : ConnectAdd(c)
  BY <1>4, ListShrinks, ReleaseSeen DEF Service!Disconnect
<1>5. CASE /\ isrs' = isrs
           /\ ~\E i \in Isrs : ThreadCallback(i) \/ ThreadCallbackReturns(i)
  BY <1>5, HandlerKept, CallbackKept, Unseen
<1> QED
  BY <1>1, <1>2, <1>3, <1>4, <1>5

\* The interrupt service of devLibPCIOSD.c keeps the promise of devLibPCI.h: a
\* handler is connected once, runs only while it is connected, alone, and is
\* not running when disconnect returns.
THEOREM Implements ==
  ASSUME SingleCaller
  PROVE  Spec => ServiceSpec
<1>1. Init => Service!Init
  BY DEF Init, Service!Init
<1>2. IInv /\ ListedInv /\ [Next]_vars => [Service!Next]_(Service!vars)
  BY ServiceStep
<1> QED
  BY <1>1, <1>2, Inductive, ListedAlways, PTL DEF Spec, ServiceSpec, Service!Spec
=============================================================================
