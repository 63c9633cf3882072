------------------------------- MODULE VmeCrate -------------------------------
(***************************************************************************)
(* Interrupts of the VME bus and the cards that raise them: the vector     *)
(* table behind devConnectInterruptVME() (os/RTEMS and os/vxWorks), the    *)
(* shell's dummy handler for a vector (vmesh.c), and device supports that  *)
(* find their card and set its base address (devcsr.c, devcsr.h).          *)
(* Operators read and write the bus from the shell.                        *)
(*                                                                         *)
(* No operation takes a lock.  To connect is to test the vector and then   *)
(* to install the routine; RTEMS disconnects by removing the routine and   *)
(* installing another; a base address is written byte by byte.             *)
(*                                                                         *)
(* An interrupt routine runs between two steps of the threads.             *)
(***************************************************************************)
EXTENDS VmeCsr

CONSTANTS
  Threads,   \* device supports and shells; each has one interrupt routine
  Vectors,
  LevelOf,   \* the level a card uses with its vector
  Requests,  \* interrupt levels the callers ask for
  Functions, \* functions of a card for which a base address is asked
  Windows,   \* <<addr, amod>>: the base addresses asked for
  DevLists,  \* lists of identifiers, each ended by VMECSR_END
  Slots,     \* slots asked for
  Accesses,  \* <<addr, amod, dmod>>: what operators type
  Builds,    \* "RTEMS", "vxWorks", "vxWorksPPC", "vxWorksX86"
  MaxCalls   \* bound on the calls

ASSUME LevelAssumption == LevelOf \in [Vectors -> 1 .. 7]
ASSUME RequestAssumption == Requests \subseteq Int
ASSUME FunctionAssumption == Functions \subseteq Byte
ASSUME WindowAssumption == Windows \subseteq Bytes(4) \X Byte
ASSUME AccessAssumption == Accesses \subseteq (0 .. Word - 1) \X Int \X Int
ASSUME SlotAssumption == Slots \subseteq Int
ASSUME CallsAssumption == MaxCalls \in Nat
ASSUME BuildAssumption == Builds \subseteq {"RTEMS", "vxWorks", "vxWorksPPC", "vxWorksX86"}

VARIABLES
  build,     \* the system at hand
  table,     \* the routine of each vector
  auto,      \* vmeautodisable[]
  enabled,   \* interrupt levels
  regs,      \* the registers of a card for its base addresses, and what is behind them
  pc,        \* where each thread is
  job,       \* its call
  calls,     \* calls begun
  owned,     \* history: routines connected and not disconnected since, by vector
  raced,     \* history: vectors two calls were changing at once
  rora,      \* history: vectors attached as "rora" with the level of their card
  heard,     \* history: how often the handler ran since the level was enabled
  failed,    \* history: levels the BSP did not switch off since they were enabled
  ram,       \* what the operator's memory holds, by space and address
  asked,     \* history: the window last set, by function
  mixed      \* history: functions two calls were setting at once

irqVars == <<table, auto, enabled, owned, raced, rora, heard, failed>>
csrVars == <<regs, asked, mixed, ram>>
vars == <<build, irqVars, csrVars, pc, job, calls>>

Vmesh == "vmesh_handler"
Unsolicited == "unsolicitedHandlerEPICS"
Routines == Threads \cup {Vmesh, Unsolicited, "stub", "none"}
Idle == [op |-> "none"]

\* A thread's routine is none of the others.
ASSUME RoutineAssumption == Threads \cap {Vmesh, Unsolicited, "stub", "none"} = {}

\* The calls that change the vector table, and where a thread is in them.
VectorOps == {"attach", "connect", "disconnect"}
AtVector == {"mark", "test", "install", "remove", "restore"}
Changes(u, v) == job[u].op \in VectorOps /\ job[u].v = v

\* The registers for the base addresses, and the place behind the last.
MaxFunction == 7
Places == 0 .. MaxFunction + 1
ADERs == { ADERAt(n, i) : n \in Places, i \in 1 .. 4 }
ADER(r, n) == [i \in 1 .. 4 |-> r[ADERAt(n, i)]]

Doing(t, op) == job[t].op = op
Begin(t, at, j) ==
  /\ pc[t] = "idle"
  /\ calls < MaxCalls
  /\ calls' = calls + 1
  /\ pc' = [pc EXCEPT ![t] = at]
  /\ job' = [job EXCEPT ![t] = j]
  /\ UNCHANGED build
Go(t, at) == pc' = [pc EXCEPT ![t] = at] /\ UNCHANGED <<build, job, calls>>
Return(t) ==
  /\ pc' = [pc EXCEPT ![t] = "idle"]
  /\ job' = [job EXCEPT ![t] = Idle]
  /\ UNCHANGED <<build, calls>>

-----------------------------------------------------------------------------
(* The vector table                                                        *)

\* defaultHandlerAddr[]: on vxWorks the BSP's stubs are among them.
Defaults == IF build = "RTEMS" THEN {Unsolicited} ELSE {"stub", Unsolicited}

\* rtemsDevInterruptInUseVME(), vxDevInterruptInUseVME()
InUse(v) ==
  CASE build = "vxWorksPPC" -> FALSE
    [] build = "RTEMS" -> table[v] # "none" /\ table[v] \notin Defaults
    [] OTHER -> table[v] \notin Defaults

\* Another thread is in a call that will change the table entry of v.  On
\* vxWorks a disconnect replaces the entry in one step.
Changing(t, v) ==
  \E u \in Threads \ {t} : Changes(u, v) /\ (Doing(u, "disconnect") => build = "RTEMS")
Watch(t, v) == raced' = IF Changing(t, v) THEN raced \cup {v} ELSE raced

\* devConnectInterruptVME() by a driver; the vector is tested in the first step.
ConnectStart(t, v) ==
  /\ Begin(t, "test", [op |-> "connect", v |-> v, routine |-> t])
  /\ Watch(t, v)
  /\ UNCHANGED <<table, auto, enabled, owned, rora, heard, failed, csrVars>>

ConnectTest(t) ==
  /\ pc[t] = "test"
  /\ IF InUse(job[t].v) THEN Return(t) ELSE Go(t, "install")
  /\ UNCHANGED <<irqVars, csrVars>>

\* vmeirqattach() with "rora" and the level at which the card interrupts.
IsRora(j) == j.op = "attach" /\ j.kind = "rora" /\ j.level = LevelOf[j.v]

ConnectInstall(t) ==
  LET v == job[t].v IN
  /\ pc[t] = "install"
  /\ table' = [table EXCEPT ![v] = job[t].routine]
  /\ owned' = [owned EXCEPT ![v] = @ \cup {job[t].routine}]
  /\ rora' = IF IsRora(job[t]) THEN rora \cup {v} ELSE rora
  /\ heard' = [heard EXCEPT ![v] = 0]
  /\ Return(t)
  /\ UNCHANGED <<auto, enabled, raced, failed, csrVars>>

\* The BSP refuses the routine.
InstallFails(t) ==
  /\ pc[t] = "install"
  /\ Return(t)
  /\ UNCHANGED <<irqVars, csrVars>>

\* devDisconnectInterruptVME(): the routine found must be the caller's.
IsConnectedAlways(v, routine) == InUse(v)
IsConnected(v, routine) == table[v] = routine

DisconnectTest(t, v) ==
  /\ build # "vxWorksPPC"
  /\ IsConnected(v, t)
  /\ Begin(t, "remove", [op |-> "disconnect", v |-> v, routine |-> t])
  /\ IF build = "RTEMS" THEN Watch(t, v) ELSE UNCHANGED raced
  /\ UNCHANGED <<table, auto, enabled, owned, rora, heard, failed, csrVars>>

\* RTEMS removes the routine and puts another in its place; vxWorks replaces it.
Remove(t) ==
  LET v == job[t].v IN
  /\ pc[t] = "remove"
  /\ table' = [table EXCEPT ![v] = IF build = "RTEMS" THEN "none" ELSE Unsolicited]
  /\ owned' = [owned EXCEPT ![v] = @ \ {t}]
  /\ IF build = "RTEMS" THEN Go(t, "restore") ELSE Return(t)
  /\ UNCHANGED <<auto, enabled, raced, rora, heard, failed, csrVars>>

Restore(t) ==
  /\ pc[t] = "restore"
  /\ table' = [table EXCEPT ![job[t].v] = Unsolicited]
  /\ Return(t)
  /\ UNCHANGED <<auto, enabled, owned, raced, rora, heard, failed, csrVars>>

\* The BSP fails: the vector may be left without any routine.
RemoveFails(t) ==
  /\ pc[t] \in {"remove", "restore"}
  /\ Return(t)
  /\ UNCHANGED <<irqVars, csrVars>>

-----------------------------------------------------------------------------
(* Interrupt levels                                                        *)

\* vxDevEnableInterruptLevelVME() and its like do nothing on x86.
SwitchesLevels == build # "vxWorksX86"

\* vmeirq(), and device supports that have connected a routine.
EnableLevel(t, l) ==
  /\ l >= 1 /\ l <= 7 /\ SwitchesLevels
  /\ Begin(t, "idle", Idle)
  /\ enabled' = enabled \cup {l}
  /\ heard' = [v \in Vectors |-> IF LevelOf[v] = l THEN 0 ELSE heard[v]]
  /\ failed' = failed \ {l}
  /\ UNCHANGED <<table, auto, owned, raced, rora, csrVars>>

DisableLevel(t, l) ==
  /\ l >= 1 /\ l <= 7 /\ SwitchesLevels
  /\ Begin(t, "idle", Idle)
  /\ enabled' = enabled \ {l}
  /\ UNCHANGED <<table, auto, owned, raced, rora, heard, failed, csrVars>>

-----------------------------------------------------------------------------
(* The shell's dummy handler                                               *)

\* vmeirqattach(): the tests of its arguments and of vmeautodisable[].
AttachTest(t, v, l, kind) ==
  /\ kind \in {"rora", "roak"}
  /\ l >= 1 /\ l <= 7
  /\ auto[v] = 0
  /\ Begin(t, "mark", [op |-> "attach", v |-> v, level |-> l, kind |-> kind, routine |-> Vmesh])
  /\ Watch(t, v)
  /\ UNCHANGED <<table, auto, enabled, owned, rora, heard, failed, csrVars>>

\* The level is noted before the handler is connected, and stays when that fails.
MarkSwapped(v, l, kind) == IF kind = "roak" THEN [auto EXCEPT ![v] = l] ELSE auto
Mark(v, l, kind) == IF kind = "rora" THEN [auto EXCEPT ![v] = l] ELSE auto

AttachMark(t) ==
  /\ pc[t] = "mark"
  /\ auto' = Mark(job[t].v, job[t].level, job[t].kind)
  /\ Go(t, "test")
  /\ UNCHANGED <<table, enabled, owned, raced, rora, heard, failed, csrVars>>

\* A card interrupts; vmesh_handler() switches off the level of its vector, or
\* the BSP fails to and the level stays on.  heard counts to 2.
Interrupt(v) ==
  /\ LevelOf[v] \in enabled
  /\ table[v] = Vmesh
  /\ heard' = [heard EXCEPT ![v] = IF @ < 2 THEN @ + 1 ELSE @]
  /\ \/ /\ enabled' = IF auto[v] # 0 /\ SwitchesLevels THEN enabled \ {auto[v]} ELSE enabled
        /\ UNCHANGED failed
     \/ /\ auto[v] # 0 /\ SwitchesLevels
        /\ failed' = failed \cup {auto[v]}
        /\ UNCHANGED enabled
  /\ UNCHANGED <<build, table, auto, owned, raced, rora, csrVars, pc, job, calls>>

-----------------------------------------------------------------------------
(* Cards                                                                   *)

\* devCSRTestSlot(): it only reads registers that do not change, so the bound
\* is that it is the first call.
Test(t, slot, devs) ==
  /\ calls = 0
  /\ Begin(t, "answered", [op |-> "slot", slot |-> slot, devs |-> devs, answer |-> TestSlot(devs, slot)])
  /\ UNCHANGED <<irqVars, csrVars>>

\* The operator's memory at first.
Blank == [p \in {"A16", "A32"} \X (Answers["A16"] \cup Answers["A32"]) |-> 0]

\* What an operator does at the shell depends on nothing that the others change.
\* The bound: it is alone, nothing happened before the operator writes to the
\* memory, and nothing but memory calls happens after it.
Alone == (\A t \in Threads : pc[t] = "idle") /\ (calls = 0 \/ ram # Blank)

\* The memory at a pointer.
Held(space, addr, n) == [i \in 1 .. n |-> ram[<<space, addr + i - 1>>]]
Little == build = "vxWorksX86"

\* What one step of the loop of vmeread() prints; ones after a bus error.
ReadOne(space, addr, n) ==
  Printed(Little, IF Probe(space, addr, n) THEN Held(space, addr, n) ELSE Ones(n))

\* vmeread(): without a count it reads once.
VmeRead(t, addr, amod, dmod, count) ==
  LET times == IF count < 1 THEN 1 ELSE count
      n == dmod \div 8
      shown == IF ValidWidths(addr, amod, dmod, times)
               THEN [i \in 1 .. times |-> ReadOne(SpaceOf(amod), addr + (i - 1) * n, n)]
               ELSE <<>>
  IN /\ Alone
     /\ Begin(t, "answered", [op |-> "vmeread", addr |-> addr, amod |-> amod, n |-> n,
                              times |-> times, shown |-> shown])
     /\ UNCHANGED <<irqVars, csrVars>>

\* vmewrite()
VmeWrite(t, addr, amod, dmod, value) ==
  LET n == dmod \div 8
      sent == ValidWidths(addr, amod, dmod, 1) /\ Probe(SpaceOf(amod), addr, n)
      bytes == Stored(Little, value, n)
  IN /\ Alone
     /\ Begin(t, "answered", [op |-> "vmewrite", addr |-> addr, amod |-> amod, n |-> n,
                              value |-> value, sent |-> sent, before |-> ram])
     /\ ram' = IF ~sent THEN ram
               ELSE [p \in DOMAIN ram |->
                       IF p[1] = SpaceOf(amod) /\ p[2] \in addr .. addr + n - 1
                       THEN bytes[p[2] - addr + 1] ELSE ram[p]]
     /\ UNCHANGED <<irqVars, regs, asked, mixed>>

Answer(t) ==
  /\ pc[t] = "answered"
  /\ Return(t)
  /\ UNCHANGED <<irqVars, csrVars>>

\* CSRSetBase()
HasRegister1(n) == n <= 8
HasRegister(n) == n <= 7

BaseStart(t, n, w) ==
  LET others == { u \in Threads \ {t} : Doing(u, "base") /\ job[u].n = n } IN
  /\ HasRegister(n)
  /\ Begin(t, "byte1", [op |-> "base", n |-> n, window |-> w])
  /\ mixed' = IF others = {} THEN mixed ELSE mixed \cup {n}
  /\ UNCHANGED <<irqVars, regs, asked, ram>>

\* CSRWrite32(): one byte after the other, the highest first.
ByteStep == <<"byte1", "byte2", "byte3", "byte4">>
ByteSteps == {"byte1", "byte2", "byte3", "byte4"}
WriteByte(t, i) ==
  LET n == job[t].n  w == job[t].window IN
  /\ pc[t] = ByteStep[i]
  /\ regs' = [regs EXCEPT ![ADERAt(n, i)] = CSRADER(w[1], w[2])[i]]
  /\ IF i < 4
     THEN Go(t, ByteStep[i + 1]) /\ UNCHANGED asked
     ELSE Return(t) /\ asked' = [asked EXCEPT ![n] = w]
  /\ UNCHANGED <<irqVars, mixed, ram>>

-----------------------------------------------------------------------------
Init ==
  /\ build \in Builds
  /\ table = [v \in Vectors |-> IF build = "RTEMS" THEN "none" ELSE "stub"]
  /\ auto = [v \in Vectors |-> 0]
  /\ enabled = {}
  /\ regs = [a \in ADERs |-> 0]
  /\ pc = [t \in Threads |-> "idle"]
  /\ job = [t \in Threads |-> Idle]
  /\ calls = 0
  /\ owned = [v \in Vectors |-> {}]
  /\ raced = {} /\ rora = {} /\ failed = {} /\ mixed = {}
  /\ ram = Blank
  /\ heard = [v \in Vectors |-> 0]
  /\ asked = [n \in Places |-> <<>>]

Vector(t) ==
  \/ \E v \in Vectors : ConnectStart(t, v) \/ DisconnectTest(t, v)
  \/ ConnectTest(t) \/ ConnectInstall(t) \/ InstallFails(t)
  \/ Remove(t) \/ Restore(t) \/ RemoveFails(t)

Shell(t) ==
  \/ \E v \in Vectors, l \in Requests, kind \in {"rora", "roak", "other"} : AttachTest(t, v, l, kind)
  \/ AttachMark(t)
  \/ \E l \in Requests : EnableLevel(t, l) \/ DisableLevel(t, l)

Operator(t) ==
  \/ \E a \in Accesses, count \in 0 .. 2 : VmeRead(t, a[1], a[2], a[3], count)
  \/ \E a \in Accesses : VmeWrite(t, a[1], a[2], a[3], <<1, 2, 3, 4>>)
  \/ Answer(t)

Card(t) ==
  \/ \E slot \in Slots, devs \in DevLists : Test(t, slot, devs)
  \/ \E n \in Functions, w \in Windows : BaseStart(t, n, w)
  \/ \E i \in 1 .. 4 : WriteByte(t, i)

Next ==
  \/ \E t \in Threads : Operator(t)
  \/ /\ ram = Blank
     /\ \/ \E t \in Threads : Vector(t) \/ Shell(t) \/ Card(t)
        \/ \E v \in Vectors : Interrupt(v)

Spec == Init /\ [][Next]_vars

-----------------------------------------------------------------------------
(* Properties                                                              *)

TypeOK ==
  /\ enabled \subseteq 1 .. 7
  /\ regs \in [ADERs -> Byte] /\ ram \in [DOMAIN Blank -> Byte]
  /\ \A t \in Threads : job[t].op = "none" <=> pc[t] = "idle"
  /\ calls \in 0 .. MaxCalls

\* A routine that was connected stays in its vector until its owner
\* disconnects it, whatever routines other callers connect or try to
\* disconnect, and whichever step of the BSP fails, if no two calls were
\* changing the vector at once.  On PowerPC vxWorks the vector is not tested.
HandlersKept ==
  build # "vxWorksPPC" =>
    \A v \in Vectors \ raced : \A r \in owned[v] : table[v] = r

\* The call of a thread, and where it is in it.
JobInv(t) ==
  LET j == job[t] IN
  /\ pc[t] \in AtVector <=> j.op \in VectorOps
  /\ j.op \in VectorOps => j.v \in Vectors
  /\ j.op = "connect" => pc[t] \in {"test", "install"} /\ j.routine = t
  /\ j.op = "attach" => pc[t] \in {"mark", "test", "install"} /\ j.routine = Vmesh /\ j.level \in 1 .. 7
  /\ j.op = "disconnect" => \/ pc[t] = "remove" /\ build # "vxWorksPPC"
                            \/ pc[t] = "restore" /\ build = "RTEMS"

\* Two calls work on a vector that is not raced only if one of them is a
\* disconnect of vxWorks.
TakeTurns ==
  \A t, u \in Threads : \A v \in Vectors \ raced :
    t # u /\ Changes(t, v) /\ Changes(u, v) =>
      build # "RTEMS" /\ (Doing(t, "disconnect") \/ Doing(u, "disconnect"))

\* What the table and the history say of a vector, and what a thread has found
\* out about it holds until the thread acts on it.
TableInv ==
  /\ \A v \in Vectors : table[v] \in Threads \cup {Vmesh} => table[v] \in owned[v]
  /\ \A t \in Threads : job[t].op \in VectorOps /\ job[t].v \notin raced /\ build # "vxWorksPPC" =>
       /\ pc[t] \in {"install", "restore"} => owned[job[t].v] = {}
       /\ pc[t] = "remove" => table[job[t].v] = t

\* A level is noted for a vector once.
AutoInv ==
  \A t \in Threads : Doing(t, "attach") /\ job[t].v \notin raced =>
    /\ pc[t] = "mark" => auto[job[t].v] = 0
    /\ pc[t] # "mark" /\ job[t].kind = "rora" => auto[job[t].v] = job[t].level

\* A handler that was heard has switched off the level of its card, if the BSP
\* did what it was asked.
QuietAfter(v) ==
  LevelOf[v] \notin failed => heard[v] <= 1 /\ (heard[v] = 1 => LevelOf[v] \notin enabled)

HeardInv ==
  /\ ~SwitchesLevels => enabled = {}
  /\ \A v \in rora \ raced : auto[v] = LevelOf[v] /\ QuietAfter(v)

VectorTypes ==
  /\ build \in Builds
  /\ table \in [Vectors -> Routines]
  /\ owned \in [Vectors -> SUBSET (Threads \cup {Vmesh})]
  /\ auto \in [Vectors -> 0 .. 7]
  /\ heard \in [Vectors -> 0 .. 2]
  /\ raced \subseteq Vectors /\ rora \subseteq Vectors /\ failed \subseteq 1 .. 7
  /\ pc = [t \in Threads |-> pc[t]] /\ job = [t \in Threads |-> job[t]]

\* All that concerns vectors, inductive.
VectorInv ==
  /\ VectorTypes /\ (\A t \in Threads : JobInv(t)) /\ TakeTurns
  /\ HandlersKept /\ TableInv /\ AutoInv /\ HeardInv

\* The calls that do not change a vector.
CallInv(t) ==
  LET j == job[t] IN
  /\ pc[t] = "answered" <=> j.op \in {"slot", "vmeread", "vmewrite"}
  /\ pc[t] \in ByteSteps <=> j.op = "base"
  /\ j.op = "base" => j.n \in 0 .. MaxFunction /\ j.window \in Windows

\* A register holds the window asked for last, and the bytes that the one who is
\* setting it has written.
RegisterInv ==
  /\ asked \in [Places -> Windows \cup {<<>>}] /\ mixed \subseteq Places
  /\ \A n \in Places : asked[n] # <<>> => n <= MaxFunction
  /\ \A t, u \in Threads : t # u /\ Doing(t, "base") /\ Doing(u, "base") /\ job[t].n = job[u].n =>
       job[t].n \in mixed
  /\ \A n \in Places \ mixed : (\A t \in Threads : ~(Doing(t, "base") /\ job[t].n = n)) =>
       \A i \in 1 .. 4 :
         regs[ADERAt(n, i)] = IF asked[n] = <<>> THEN 0 ELSE CSRADER(asked[n][1], asked[n][2])[i]
  /\ \A t \in Threads : Doing(t, "base") /\ job[t].n \notin mixed =>
       \A i \in 1 .. 4 : pc[t] = ByteStep[i] =>
         \A k \in 1 .. i - 1 :
           regs[ADERAt(job[t].n, k)] = CSRADER(job[t].window[1], job[t].window[2])[k]

IInv == TypeOK /\ VectorInv /\ (\A t \in Threads : CallInv(t)) /\ RegisterInv

\* A card that holds its interrupt until a register is read cannot flood the
\* machine: a vector attached as "rora" is heard once each time its level is
\* enabled, however the other vectors of the level are attached, if no two
\* calls were changing it at once.  It is heard again only on a level that the
\* BSP failed to switch off (vmesh.c:198-199) since it was enabled.
RoraOnce ==
  \A v \in rora \ raced : heard[v] > 1 => LevelOf[v] \in failed

\* devCSRTestSlot() answers with the identity of the card, and only if a card
\* with the standard layout is in the slot and an entry of the list names it;
\* a card whose identifier reads as all ones is named by every entry.
Names(e, id) ==
  \A f \in {"vendor", "board", "revision"} : e[f] \in {id[f], CsrAny} \/ id[f] = CsrAny
FoundExact ==
  \A t \in Threads : Doing(t, "slot") =>
    LET s == job[t].slot IN
    IF s \in 0 .. SlotMax /\ s \in DOMAIN Cards /\ MapAddr("CSR", CSRSlotBase(s)) /\ Cards[s].ascii = <<67, 82>>
    THEN LET id == [vendor |-> <<0>> \o Cards[s].vendor,
                    board |-> Cards[s].board, revision |-> Cards[s].revision]
         IN job[t].answer = IF \E e \in Entries(job[t].devs) : Names(e, id) THEN id ELSE NotFound
    ELSE job[t].answer = NotFound

\* A register between two writes holds the window asked for last, decoded as
\* the card does it (24 bits of the address, 6 of the modifier), and the
\* registers of other functions, and those behind the last, keep their value.
BaseExact ==
  \A n \in Places \ mixed :
    (\A t \in Threads : ~(Doing(t, "base") /\ job[t].n = n)) =>
      LET r == ADER(regs, n) IN
      IF asked[n] = <<>> \/ n > MaxFunction THEN r = <<0, 0, 0, 0>>
      ELSE /\ SubSeq(r, 1, 3) = SubSeq(asked[n][1], 1, 3)
           /\ r[4] \div 4 = asked[n][2] % 64
           /\ r[4] % 4 = 0

\* vmeread() and vmewrite(): on a big endian CPU the operator reads and writes
\* the very bytes at the addresses asked for, and no others; blocks that end
\* behind the space are refused, unless the sum of address and length wraps.
\* On a little endian CPU a read of 8 or 16 bits shows ones whatever is there.
AccessExact ==
  \A t \in Threads :
    LET j == job[t]  there(p) == p[1] = SpaceOf(j.amod) /\ p[2] \in j.addr .. j.addr + j.n - 1 IN
    /\ Doing(t, "vmewrite") /\ ~Little =>
         \A p \in DOMAIN ram :
           ram[p] = IF j.sent /\ there(p) THEN j.value[4 - j.n + (p[2] - j.addr + 1)] ELSE j.before[p]
    /\ Doing(t, "vmeread") /\ j.shown # <<>> =>
         /\ j.addr + j.times * j.n < Word => j.addr + j.times * j.n <= LastOf(SpaceOf(j.amod))
         /\ ~Little => \A i \in 1 .. j.times :
              LET a == j.addr + (i - 1) * j.n IN
              Probe(SpaceOf(j.amod), a, j.n) => j.shown[i] = Held(SpaceOf(j.amod), a, j.n)
         /\ Little /\ j.n < 4 => \A i \in 1 .. j.times : j.shown[i] = Ones(j.n)

\* What the calls say of the bus is what is there.
CsrExact == FoundExact /\ BaseExact /\ AccessExact
=============================================================================
