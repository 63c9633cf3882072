------------------------------ MODULE DevLibPCI ------------------------------
(***************************************************************************)
(* The PCI library in front of the OS drivers, pciApp/devLibPCI.c: drivers *)
(* are registered by name, one is selected, the first call of the API      *)
(* initialises it, and searches are made with a list of identifiers and a  *)
(* wish (an address, a slot label, an instance number).                    *)
(*                                                                         *)
(* Each critical section under pciDriversLock is one action: everything    *)
(* the lock guards is read and written with it.  epicsThreadOnce() lets    *)
(* one thread run devInit() while the others wait.                         *)
(***************************************************************************)
EXTENDS DriverTable, Sequences, SequencesExt

CONSTANTS
  Threads,
  Drivers,    \* devLibPCI structures of the OS layers and of the application
  NameOf,     \* NameOf[d]
  Native,     \* the name "native"
  NoDriver,   \* pdevLibPCI is NULL
  NoAddr,     \* the wish names no address
  NoSlot,     \* DEVPCI_NO_SLOT; also: the wish names no slot
  NoDevice,   \* no device found yet
  Requests,   \* Requests[t]: the calls thread t may make
  MaxCalls    \* bound: the calls each thread makes

ASSUME NameAssumption == NameOf \in [Drivers -> {NameOf[d] : d \in Drivers}]
ASSUME NoDriverAssumption == NoDriver \notin Drivers
ASSUME RequestsAssumption == Requests \in [Threads -> {Requests[t] : t \in Threads}]
ASSUME MaxCallsAssumption == MaxCalls \in [Threads -> Nat]

VARIABLES
  pciDrivers,        \* registered drivers
  pdevLibPCI,        \* the selected one
  once,              \* devPCIInit_once: "no", "running", "done"
  devPCIInit_result, \* "unset" (42 in the code), "ok", or an error
  pc,                \* where each thread is
  call,              \* the request it carries out
  ret,               \* what it is about to return
  left               \* how many more calls it may make

regVars == <<pciDrivers, pdevLibPCI>>
initVars == <<once, devPCIInit_result>>
threadVars == <<pc, call, ret, left>>

Errors == {"S_dev_internal", "S_dev_badInit", "S_dev_badArgument", "S_dev_noDevice",
           "S_dev_badFunction", "S_dev_addrMapFail", "callback_error"}

NoCall == [op |-> "none"]

\* All the calls that are made.
Asked == UNION {Requests[t] : t \in Threads}

LibInit ==
  /\ pciDrivers = {}
  /\ pdevLibPCI = NoDriver
  /\ once = "no"
  /\ devPCIInit_result = "unset"
  /\ pc = [t \in Threads |-> "idle"]
  /\ call = [t \in Threads |-> NoCall]
  /\ ret = [t \in Threads |-> "ok"]
  /\ left = MaxCalls

Goto(t, point) == pc' = [pc EXCEPT ![t] = point]

\* A call is about to return r.
Answer(t, r) == Goto(t, "return") /\ ret' = [ret EXCEPT ![t] = r]

-----------------------------------------------------------------------------
(* Searches                                                                *)

NoWish == [addr |-> NoAddr, slot |-> NoSlot, stopat |-> 0, bad |-> FALSE]

\* One word of the specification string, after those before it.
Token(wish, word) ==
  CASE word.key = "dbdf" -> [wish EXCEPT !.addr = word.value]
    [] word.key = "bdf" -> [wish EXCEPT !.addr = <<0>> \o word.value]
    [] word.key = "slot" -> [wish EXCEPT !.slot = word.value]
    [] word.key = "instance" ->
         [wish EXCEPT !.stopat = IF word.value = 0 THEN 0 ELSE word.value - 1]
    [] word.key = "unknown" -> wish
    [] OTHER -> [wish EXCEPT !.bad = TRUE]

Parse(spec) == FoldLeft(Token, NoWish, spec)

FindSpec(ids, spec) == [op |-> "find", ids |-> ids, wish |-> Parse(spec), fn |-> "devmatch"]

FindDBDF(ids, domain, b, d, f) ==
  [op |-> "find", ids |-> ids, fn |-> "devmatch",
   wish |-> [NoWish EXCEPT !.addr = <<domain, b, d, f>>]]

\* The older call has the domain in the upper bits of the bus number.
FindBDF(ids, b, d, f) == FindDBDF(ids, b \div 256, b % 256, d, f)

\* devPCIFindCB() with a callback of the device support.
FindCB(ids) == [op |-> "find", ids |-> ids, fn |-> "user", wish |-> NoWish]

\* devmatch(), before it counts.  A device without a label is in no slot.
Wanted(wish, dev) ==
  /\ wish.addr \in {NoAddr, dev.addr}
  /\ wish.slot = NoSlot \/ (dev.slot # NoSlot /\ dev.slot = wish.slot)

-----------------------------------------------------------------------------
(* Registration and selection                                              *)

\* devLibPCIRegisterDriver2(): a name can be taken once.
RegisterDriver(t, d) ==
  /\ pc[t] = "idle"
  /\ \A other \in pciDrivers : NameOf[other] # NameOf[d]
  /\ pciDrivers' = pciDrivers \cup {d}
  /\ UNCHANGED <<pdevLibPCI, initVars, threadVars>>

\* devLibPCIUse() of a registered name, by the application.
Use(t, d) ==
  /\ pc[t] = "idle"
  /\ pdevLibPCI = NoDriver
  /\ d \in pciDrivers
  /\ pdevLibPCI' = d
  /\ UNCHANGED <<pciDrivers, initVars, threadVars>>

-----------------------------------------------------------------------------
(* Calls                                                                   *)

\* The specification is parsed before anything else.  Accesses to the
\* configuration space and the interrupt switch do without PCIINIT.
Call(t, r) ==
  /\ pc[t] = "idle"
  /\ left[t] > 0
  /\ left' = [left EXCEPT ![t] = @ - 1]
  /\ call' = [call EXCEPT ![t] = r]
  /\ IF r.op = "find" /\ r.wish.bad
     THEN Answer(t, "S_dev_badArgument")
     ELSE Goto(t, IF r.op \in {"config", "switch"} THEN "enter" ELSE "once") /\ UNCHANGED ret
  /\ UNCHANGED <<regVars, initVars>>

\* PCIINIT, first half: epicsThreadOnce() starts devInit(), waits for it, or
\* finds that it is over.
StartInit(t) ==
  /\ pc[t] = "once"
  /\ once = "no"
  /\ once' = "running"
  /\ Goto(t, "select")
  /\ UNCHANGED <<regVars, devPCIInit_result, call, ret, left>>

\* Mutant: a thread does not wait for the initialisation of another one.
PastInitAtOnce(t) ==
  /\ pc[t] = "once"
  /\ once # "no"
  /\ IF devPCIInit_result \in {"ok", "unset"}
     THEN Goto(t, "enter") /\ UNCHANGED ret
     ELSE Answer(t, devPCIInit_result)
  /\ UNCHANGED <<regVars, initVars, call, left>>

\* PCIINIT, second half: the first result answers every call.
PastInit(t) ==
  /\ pc[t] = "once"
  /\ once = "done"
  /\ IF devPCIInit_result = "ok"
     THEN Goto(t, "enter") /\ UNCHANGED ret
     ELSE Answer(t, devPCIInit_result)
  /\ UNCHANGED <<regVars, initVars, call, left>>

\* devInit() ends with a result, and epicsThreadOnce() lets the others go.
InitEnds(t, r) ==
  /\ once' = "done"
  /\ devPCIInit_result' = r
  /\ Goto(t, "once")
  /\ UNCHANGED ret

\* devInit(): select the native driver unless one is selected.
SelectDriver(t) ==
  LET natives == {d \in pciDrivers : NameOf[d] = Native} IN
  /\ pc[t] = "select"
  /\ IF pdevLibPCI = NoDriver /\ natives = {}
     THEN InitEnds(t, "S_dev_internal") /\ UNCHANGED pdevLibPCI
     ELSE /\ Goto(t, "init")
          /\ \/ pdevLibPCI # NoDriver /\ UNCHANGED pdevLibPCI
             \/ pdevLibPCI = NoDriver /\ pdevLibPCI' \in natives
          /\ UNCHANGED <<initVars, ret>>
  /\ UNCHANGED <<pciDrivers, call, left>>

\* The call returns to the device support.
Return(t) ==
  /\ pc[t] = "return"
  /\ Goto(t, "idle")
  /\ call' = [call EXCEPT ![t] = NoCall]
  /\ ret' = [ret EXCEPT ![t] = "ok"]
  /\ UNCHANGED <<regVars, initVars, left>>
=============================================================================
