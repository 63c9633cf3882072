---------------------------- MODULE VmeCrateProofs ----------------------------
(***************************************************************************)
(* For any number of callers, vectors, cards and calls: a routine stays in *)
(* its vector until its owner takes it out, and a vector attached as       *)
(* "rora" is heard once, unless two calls were changing the vector at      *)
(* once; and what the calls say of the bus is what is there.               *)
(***************************************************************************)
EXTENDS VmeCrate, SequenceTheorems, TLAPS

\* A step of t leaves the other threads alone.
Moves(t) ==
  /\ pc' = [pc EXCEPT ![t] = pc'[t]]
  /\ job' = [job EXCEPT ![t] = job'[t]]
  /\ build' = build

LEMMA OthersStay ==
  ASSUME VectorInv, NEW t \in Threads, Moves(t)
  PROVE  /\ pc' = [u \in Threads |-> pc'[u]] /\ job' = [u \in Threads |-> job'[u]]
         /\ \A u \in Threads \ {t} : pc'[u] = pc[u] /\ job'[u] = job[u] /\ JobInv(u)'
BY DEF VectorInv, VectorTypes, JobInv, Moves

\* What a thread does outside of the vector table keeps the invariant.
LEMMA ElsewhereKeeps ==
  ASSUME VectorInv, NEW t \in Threads, Moves(t), pc'[t] \notin AtVector, job'[t].op \notin VectorOps,
         UNCHANGED <<table, auto, owned, raced, rora>>, heard' \in [Vectors -> 0 .. 2], failed' \subseteq 1 .. 7,
         HeardInv'
  PROVE  VectorInv'
<1>0. /\ pc' = [u \in Threads |-> pc'[u]] /\ job' = [u \in Threads |-> job'[u]] /\ build' = build
      /\ \A u \in Threads \ {t} : pc'[u] = pc[u] /\ job'[u] = job[u] /\ JobInv(u)'
  BY OthersStay DEF Moves
<1>1. VectorTypes'
  BY <1>0 DEF VectorInv, VectorTypes
<1>2. \A u \in Threads : JobInv(u)'
  BY <1>0 DEF JobInv, VectorOps
<1>3. TakeTurns'
  BY <1>0 DEF VectorInv, TakeTurns, Changes, Doing
<1>4. HandlersKept'
  BY <1>0 DEF VectorInv, HandlersKept
<1>5. TableInv'
  BY <1>0 DEF VectorInv, TableInv
<1>6. AutoInv'
  BY <1>0 DEF VectorInv, AutoInv, Doing, VectorOps
<1> QED BY <1>1, <1>2, <1>3, <1>4, <1>5, <1>6 DEF VectorInv

LEMMA HeardStays ==
  ASSUME HeardInv, UNCHANGED <<build, auto, enabled, raced, rora, heard, failed>>
  PROVE  HeardInv'
BY DEF HeardInv, QuietAfter, SwitchesLevels

\* A call begins, goes on or returns.
LEMMA BeginMoves ==
  ASSUME VectorInv, NEW t \in Threads, NEW at, NEW j, Begin(t, at, j)
  PROVE  Moves(t) /\ pc[t] = "idle" /\ pc'[t] = at /\ job'[t] = j
BY DEF VectorInv, VectorTypes, Moves, Begin

LEMMA GoMoves ==
  ASSUME VectorInv, NEW t \in Threads, NEW at, Go(t, at)
  PROVE  Moves(t) /\ pc'[t] = at /\ job'[t] = job[t]
BY DEF VectorInv, VectorTypes, Moves, Go

LEMMA ReturnMoves ==
  ASSUME VectorInv, NEW t \in Threads, Return(t)
  PROVE  Moves(t) /\ pc'[t] = "idle" /\ job'[t] = Idle
BY DEF VectorInv, VectorTypes, Moves, Return

LEMMA ElsewhereSteps ==
  ASSUME VectorInv, NEW t \in Threads, Operator(t) \/ Card(t)
  PROVE  VectorInv'
<1>1. Moves(t) /\ UNCHANGED irqVars /\ pc'[t] \notin AtVector /\ job'[t].op \notin VectorOps
  <2> USE DEF Idle, AtVector, VectorOps
  <2>1. CASE Operator(t)
    <3>1. CASE \E a \in Accesses, count \in 0 .. 2 : VmeRead(t, a[1], a[2], a[3], count)
      BY <3>1, BeginMoves DEF VmeRead
    <3>2. CASE \E a \in Accesses : VmeWrite(t, a[1], a[2], a[3], <<1, 2, 3, 4>>)
      BY <3>2, BeginMoves DEF VmeWrite
    <3>3. CASE Answer(t)
      BY <3>3, ReturnMoves DEF Answer
    <3> QED BY <2>1, <3>1, <3>2, <3>3 DEF Operator
  <2>2. CASE \E slot \in Slots, devs \in DevLists : Test(t, slot, devs)
    BY <2>2, BeginMoves DEF Test
  <2>3. CASE \E n \in Functions, w \in Windows : BaseStart(t, n, w)
    BY <2>3, BeginMoves DEF BaseStart
  <2>4. CASE \E i \in 1 .. 4 : WriteByte(t, i)
    <3>1. PICK i \in 1 .. 4 : WriteByte(t, i)
      BY <2>4
    <3>2. pc[t] \in {"byte1", "byte2", "byte3", "byte4"} /\ UNCHANGED irqVars
      BY <3>1 DEF WriteByte, ByteStep
    <3>3. job[t].op \notin VectorOps
      BY <3>2 DEF VectorInv, JobInv
    <3>4. CASE i < 4
      <4>1. PICK at \in {"byte2", "byte3", "byte4"} : Go(t, at)
        BY <3>1, <3>4 DEF WriteByte, ByteStep
      <4> QED BY <3>2, <3>3, <4>1, GoMoves
    <3>5. CASE i = 4
      BY <3>1, <3>2, <3>5, ReturnMoves DEF WriteByte
    <3> QED BY <3>1, <3>4, <3>5
  <2> QED BY <2>1, <2>2, <2>3, <2>4 DEF Card
<1>2. HeardInv'
  BY <1>1, HeardStays DEF VectorInv, irqVars, Moves
<1> QED BY <1>1, <1>2, ElsewhereKeeps DEF irqVars, VectorInv, VectorTypes

LEMMA LevelSteps ==
  ASSUME VectorInv, NEW t \in Threads, NEW l \in Requests, EnableLevel(t, l) \/ DisableLevel(t, l)
  PROVE  VectorInv'
<1>1. Moves(t) /\ pc'[t] = "idle" /\ job'[t] = Idle
  BY BeginMoves DEF EnableLevel, DisableLevel
<1>2. heard' \in [Vectors -> 0 .. 2] /\ failed' \subseteq 1 .. 7
  BY DEF EnableLevel, DisableLevel, VectorInv, VectorTypes
<1>3. HeardInv'
  <2>1. SwitchesLevels /\ (SwitchesLevels' <=> SwitchesLevels) /\ UNCHANGED <<auto, raced, rora>>
    BY <1>1 DEF EnableLevel, DisableLevel, SwitchesLevels, Moves
  <2>2. ASSUME NEW v \in rora \ raced
        PROVE  auto[v] = LevelOf[v] /\ QuietAfter(v)'
    <3>1. v \in Vectors /\ heard[v] \in 0 .. 2 /\ auto[v] = LevelOf[v] /\ QuietAfter(v)
      BY DEF VectorInv, VectorTypes, HeardInv
    <3>2. CASE EnableLevel(t, l)
      BY <3>1, <3>2 DEF EnableLevel, QuietAfter
    <3>3. CASE DisableLevel(t, l)
      BY <3>1, <3>3 DEF DisableLevel, QuietAfter
    <3> QED BY <3>2, <3>3
  <2> QED BY <2>1, <2>2 DEF HeardInv
<1> QED BY <1>1, <1>2, <1>3, ElsewhereKeeps DEF EnableLevel, DisableLevel, Idle, AtVector, VectorOps

LEMMA InterruptKeeps ==
  ASSUME VectorInv, NEW v \in Vectors, Interrupt(v)
  PROVE  VectorInv'
<1>1. VectorTypes'
  BY DEF Interrupt, VectorInv, VectorTypes
<1>2. HeardInv'
  <2>1. SwitchesLevels /\ (SwitchesLevels' <=> SwitchesLevels)
    BY DEF Interrupt, VectorInv, HeardInv, QuietAfter, SwitchesLevels
  <2>2. ASSUME NEW w \in rora \ raced
        PROVE  auto[w] = LevelOf[w] /\ QuietAfter(w)'
    <3>1. w \in Vectors /\ heard[w] \in 0 .. 2 /\ auto[w] = LevelOf[w] /\ QuietAfter(w) /\ LevelOf[w] \in 1 .. 7
      BY LevelAssumption DEF VectorInv, VectorTypes, HeardInv
    <3>2. heard'[w] = IF w = v THEN (IF heard[w] < 2 THEN heard[w] + 1 ELSE heard[w]) ELSE heard[w]
      BY <3>1 DEF Interrupt, VectorInv, VectorTypes
    <3>3. failed \subseteq failed' /\ enabled' \subseteq enabled
      BY DEF Interrupt
    <3>4. CASE w = v
      <4>1. LevelOf[w] \in enabled
        BY <3>4 DEF Interrupt
      <4>2. LevelOf[w] \in failed' \/ LevelOf[w] \notin enabled'
        BY <2>1, <3>1, <3>4 DEF Interrupt
      <4> QED BY <3>1, <3>2, <3>3, <3>4, <4>1, <4>2 DEF QuietAfter
    <3>5. CASE w # v
      BY <3>1, <3>2, <3>3, <3>5 DEF QuietAfter
    <3> QED BY <3>1, <3>4, <3>5
  <2> QED BY <2>1, <2>2 DEF Interrupt, HeardInv
<1>3. \A u \in Threads : JobInv(u)'
  BY DEF Interrupt, VectorInv, JobInv
<1>4. UNCHANGED <<build, table, auto, owned, raced, pc, job>>
  BY DEF Interrupt
<1>5. TakeTurns' /\ HandlersKept' /\ TableInv' /\ AutoInv'
  BY <1>4 DEF VectorInv, TakeTurns, Changes, HandlersKept, TableInv, AutoInv, Doing
<1> QED BY <1>1, <1>2, <1>3, <1>5 DEF VectorInv

-----------------------------------------------------------------------------
(* The steps of the calls that change a vector                             *)

\* A call that goes on, or returns, takes its turn as before.
LEMMA TurnKept ==
  ASSUME VectorInv, NEW t \in Threads, Moves(t), raced' = raced, job'[t] = job[t] \/ job'[t] = Idle
  PROVE  TakeTurns'
<1>1. \A u \in Threads : \A v \in Vectors :
        (Changes(u, v)' => Changes(u, v)) /\ (Changes(u, v)' => job'[u] = job[u])
  BY OthersStay DEF Changes, Idle, VectorOps
<1> QED BY <1>1 DEF VectorInv, TakeTurns, Doing, Moves

\* Two threads cannot both be about to act on a vector that is not raced.
LEMMA NotTwo ==
  ASSUME VectorInv, NEW t \in Threads, NEW u \in Threads \ {t}, job[t].op \in VectorOps, job[u].op \in VectorOps,
         job[u].v = job[t].v, job[t].v \notin raced
  PROVE  build # "RTEMS" /\ (Doing(t, "disconnect") \/ Doing(u, "disconnect"))
BY DEF VectorInv, JobInv, TakeTurns, Changes

\* A call that begins notices the others, but for a disconnect of vxWorks.
LEMMA StartKeeps ==
  ASSUME VectorInv, NEW t \in Threads, NEW v \in Vectors, Moves(t), pc[t] = "idle",
         job'[t].op \in VectorOps, job'[t].v = v, JobInv(t)', UNCHANGED <<table, auto, enabled, owned, rora, heard, failed>>,
         Watch(t, v) \/ (raced' = raced /\ job'[t].op = "disconnect" /\ build # "RTEMS"),
         pc'[t] \notin {"install", "restore"}, pc'[t] = "remove" => table[v] = t,
         job'[t].op = "attach" => pc'[t] = "mark" /\ auto[v] = 0
  PROVE  VectorInv'
<1>0. /\ pc' = [u \in Threads |-> pc'[u]] /\ job' = [u \in Threads |-> job'[u]] /\ build' = build
      /\ \A u \in Threads \ {t} : pc'[u] = pc[u] /\ job'[u] = job[u] /\ JobInv(u)'
  BY OthersStay DEF Moves
<1>1. raced \subseteq raced' /\ raced' \subseteq Vectors
  BY DEF Watch, VectorInv, VectorTypes
<1>2. VectorTypes'
  BY <1>0, <1>1 DEF VectorInv, VectorTypes
<1>3. \A u \in Threads : JobInv(u)'
  BY <1>0
<1>4. TakeTurns'
  <2>1. ASSUME NEW u \in Threads \ {t}, v \notin raced', Changes(u, v)
        PROVE  build # "RTEMS" /\ (job[u].op = "disconnect" \/ job'[t].op = "disconnect")
    BY <2>1 DEF Watch, Changing, Doing
  <2>2. ASSUME NEW u \in Threads, NEW w \in Threads, NEW x \in Vectors \ raced', u # w,
               Changes(u, x)', Changes(w, x)'
        PROVE  build # "RTEMS" /\ (job'[u].op = "disconnect" \/ job'[w].op = "disconnect")
    <3>1. CASE u # t /\ w # t
      BY <1>0, <1>1, <2>2, <3>1 DEF VectorInv, TakeTurns, Changes, Doing
    <3>2. CASE u = t
      BY <1>0, <2>1, <2>2, <3>2 DEF Changes
    <3>3. CASE w = t
      BY <1>0, <2>1, <2>2, <3>3 DEF Changes
    <3> QED BY <3>1, <3>2, <3>3
  <2> QED BY <1>0, <2>2 DEF TakeTurns, Doing
<1>5. HandlersKept'
  BY <1>0, <1>1 DEF VectorInv, HandlersKept
<1>6. TableInv'
  BY <1>0, <1>1 DEF VectorInv, TableInv
<1>7. AutoInv'
  BY <1>0, <1>1 DEF VectorInv, AutoInv, Doing
<1>8. HeardInv'
  BY <1>0, <1>1 DEF VectorInv, HeardInv, QuietAfter, SwitchesLevels
<1> QED BY <1>2, <1>3, <1>4, <1>5, <1>6, <1>7, <1>8 DEF VectorInv

LEMMA StartsKeep ==
  ASSUME VectorInv, NEW t \in Threads,
         \/ \E v \in Vectors : ConnectStart(t, v) \/ DisconnectTest(t, v)
         \/ \E v \in Vectors, l \in Requests, kind \in {"rora", "roak", "other"} : AttachTest(t, v, l, kind)
  PROVE  VectorInv'
<1> USE DEF VectorOps, AtVector
<1>1. ASSUME NEW v \in Vectors, ConnectStart(t, v)
      PROVE  VectorInv'
  <2>1. Moves(t) /\ pc[t] = "idle" /\ pc'[t] = "test" /\ job'[t] = [op |-> "connect", v |-> v, routine |-> t]
    BY <1>1, BeginMoves DEF ConnectStart
  <2>2. JobInv(t)'
    BY <2>1 DEF JobInv
  <2> QED BY <1>1, <2>1, <2>2, StartKeeps DEF ConnectStart
<1>2. ASSUME NEW v \in Vectors, DisconnectTest(t, v)
      PROVE  VectorInv'
  <2>1. Moves(t) /\ pc[t] = "idle" /\ pc'[t] = "remove" /\ job'[t] = [op |-> "disconnect", v |-> v, routine |-> t]
    BY <1>2, BeginMoves DEF DisconnectTest
  <2>2. JobInv(t)'
    BY <1>2, <2>1 DEF JobInv, DisconnectTest, Moves
  <2> QED BY <1>2, <2>1, <2>2, StartKeeps DEF DisconnectTest, IsConnected
<1>3. ASSUME NEW v \in Vectors, NEW l \in Requests, NEW kind \in {"rora", "roak", "other"}, AttachTest(t, v, l, kind)
      PROVE  VectorInv'
  <2>1. /\ Moves(t) /\ pc[t] = "idle" /\ pc'[t] = "mark"
        /\ job'[t] = [op |-> "attach", v |-> v, level |-> l, kind |-> kind, routine |-> Vmesh]
    BY <1>3, BeginMoves DEF AttachTest
  <2>2. JobInv(t)'
    BY <1>3, <2>1, RequestAssumption DEF JobInv, AttachTest
  <2> QED BY <1>3, <2>1, <2>2, StartKeeps DEF AttachTest
<1> QED BY <1>1, <1>2, <1>3

\* A call that returns without having changed anything.
LEMMA GivesUp ==
  ASSUME VectorInv, NEW t \in Threads, Return(t), UNCHANGED irqVars
  PROVE  VectorInv'
<1>1. Moves(t) /\ pc'[t] = "idle" /\ job'[t] = Idle
  BY ReturnMoves
<1>2. HeardInv'
  BY <1>1, HeardStays DEF VectorInv, irqVars, Moves
<1> QED BY <1>1, <1>2, ElsewhereKeeps DEF irqVars, VectorInv, VectorTypes, Idle, AtVector, VectorOps

\* A vector that is not in use, and was not raced, belongs to nobody.
LEMMA FreeIsUnowned ==
  ASSUME VectorInv, NEW v \in Vectors \ raced, ~InUse(v), build # "vxWorksPPC"
  PROVE  owned[v] = {}
<1>1. table[v] \notin Threads \cup {Vmesh}
  <2>1. table[v] \in {"none", "stub", Unsolicited}
    BY DEF InUse, Defaults
  <2>2. Vmesh \notin {"none", "stub", Unsolicited}
    BY DEF Vmesh, Unsolicited
  <2> QED BY <2>1, <2>2, RoutineAssumption
<1>2. owned[v] \subseteq Threads \cup {Vmesh} /\ \A r \in owned[v] : table[v] = r
  BY DEF VectorInv, VectorTypes, HandlersKept
<1> QED BY <1>1, <1>2

LEMMA ConnectTestKeeps ==
  ASSUME VectorInv, NEW t \in Threads, ConnectTest(t)
  PROVE  VectorInv'
<1>1. CASE InUse(job[t].v)
  BY <1>1, GivesUp DEF ConnectTest
<1>2. CASE ~InUse(job[t].v)
  <2>1. Go(t, "install") /\ UNCHANGED irqVars
    BY <1>2 DEF ConnectTest
  <2>2. Moves(t) /\ pc'[t] = "install" /\ job'[t] = job[t] /\ pc[t] = "test"
    BY <2>1, GoMoves DEF ConnectTest
  <2>3. /\ pc' = [u \in Threads |-> pc'[u]] /\ job' = [u \in Threads |-> job'[u]] /\ build' = build
        /\ \A u \in Threads \ {t} : pc'[u] = pc[u] /\ job'[u] = job[u] /\ JobInv(u)'
    BY <2>2, OthersStay DEF Moves
  <2>4. JobInv(t) /\ JobInv(t)' /\ job[t].op \in {"attach", "connect"} /\ job[t].v \in Vectors
    BY <2>2, <2>3 DEF VectorInv, JobInv, AtVector, VectorOps
  <2>5. VectorTypes'
    BY <2>1, <2>3 DEF VectorInv, VectorTypes, irqVars
  <2>6. TakeTurns' /\ HandlersKept' /\ HeardInv'
    BY <2>1, <2>2, <2>3, TurnKept, HeardStays DEF VectorInv, HandlersKept, irqVars
  <2>7. TableInv'
    BY <1>2, <2>1, <2>2, <2>3, <2>4, FreeIsUnowned DEF VectorInv, TableInv, irqVars
  <2>8. AutoInv'
    BY <2>1, <2>2, <2>3 DEF VectorInv, AutoInv, Doing, irqVars
  <2> QED BY <2>3, <2>4, <2>5, <2>6, <2>7, <2>8 DEF VectorInv
<1> QED BY <1>1, <1>2

\* The vector that a thread is about to change, when it is not raced.
LEMMA InstallKeeps ==
  ASSUME VectorInv, NEW t \in Threads, ConnectInstall(t)
  PROVE  VectorInv'
<1> DEFINE v == job[t].v  r == job[t].routine
<1>1. Moves(t) /\ pc'[t] = "idle" /\ job'[t] = Idle /\ pc[t] = "install"
  BY ReturnMoves DEF ConnectInstall
<1>2. /\ pc' = [u \in Threads |-> pc'[u]] /\ job' = [u \in Threads |-> job'[u]] /\ build' = build
      /\ \A u \in Threads \ {t} : pc'[u] = pc[u] /\ job'[u] = job[u] /\ JobInv(u)'
  BY <1>1, OthersStay DEF Moves
<1>3. v \in Vectors /\ r \in Threads \cup {Vmesh} /\ job[t].op \in {"attach", "connect"}
  BY <1>1 DEF VectorInv, JobInv, AtVector, VectorOps
<1>4. /\ table' = [table EXCEPT ![v] = r] /\ owned' = [owned EXCEPT ![v] = @ \cup {r}]
      /\ heard' = [heard EXCEPT ![v] = 0] /\ UNCHANGED <<auto, enabled, raced, failed>>
      /\ rora' = IF IsRora(job[t]) THEN rora \cup {v} ELSE rora
  BY DEF ConnectInstall
<1>5. VectorTypes'
  BY <1>2, <1>3, <1>4 DEF VectorInv, VectorTypes, Routines
<1>6. \A u \in Threads : JobInv(u)'
  BY <1>1, <1>2 DEF JobInv, Idle, AtVector, VectorOps
<1>7. TakeTurns'
  BY <1>1, <1>4, TurnKept
<1>8. v \notin raced /\ build # "vxWorksPPC" => owned[v] = {}
  BY <1>1, <1>3 DEF VectorInv, TableInv, VectorOps
<1>9. HandlersKept'
  BY <1>2, <1>3, <1>4, <1>8 DEF VectorInv, VectorTypes, HandlersKept
<1>10. ASSUME NEW u \in Threads \ {t}, job[u].op \in VectorOps, job[u].v = v, v \notin raced, build # "vxWorksPPC"
       PROVE  pc[u] \notin {"install", "restore", "remove"}
  <2>1. build # "RTEMS" /\ Doing(u, "disconnect")
    BY <1>3, <1>10, NotTwo DEF VectorOps, Doing
  <2>2. pc[u] = "remove" => table[v] = u /\ u \in owned[v]
    BY <1>3, <1>10 DEF VectorInv, TableInv
  <2> QED BY <1>8, <1>10, <2>1, <2>2 DEF VectorInv, JobInv, Doing
<1>11. TableInv'
  <2>1. \A w \in Vectors : table'[w] \in Threads \cup {Vmesh} => table'[w] \in owned'[w]
    BY <1>3, <1>4 DEF VectorInv, VectorTypes, TableInv
  <2>2. ASSUME NEW u \in Threads \ {t}, job[u].op \in VectorOps, job[u].v \notin raced, build # "vxWorksPPC"
        PROVE  /\ pc[u] \in {"install", "restore"} => owned'[job[u].v] = {}
               /\ pc[u] = "remove" => table'[job[u].v] = u
    <3>1. job[u].v \in Vectors
      BY <2>2 DEF VectorInv, JobInv
    <3>2. CASE job[u].v = v
      BY <2>2, <3>2, <1>10
    <3>3. CASE job[u].v # v
      BY <2>2, <3>1, <3>3, <1>4 DEF VectorInv, VectorTypes, TableInv
    <3> QED BY <3>2, <3>3
  <2>3. job'[t].op \notin VectorOps /\ raced' = raced /\ build' = build
    BY <1>1, <1>2, <1>4 DEF Idle, VectorOps
  <2>4. \A u \in Threads \ {t} : pc'[u] = pc[u] /\ job'[u] = job[u]
    BY <1>2
  <2> HIDE DEF v, r
  <2> QED BY <2>1, <2>2, <2>3, <2>4 DEF TableInv
<1>12. AutoInv'
  BY <1>1, <1>2, <1>4 DEF VectorInv, AutoInv, Doing, Idle
<1>13. HeardInv'
  <2>1. ~SwitchesLevels' => enabled' = {}
    BY <1>2, <1>4 DEF VectorInv, HeardInv, QuietAfter, SwitchesLevels
  <2>2. ASSUME NEW w \in rora' \ raced
        PROVE  auto[w] = LevelOf[w] /\ QuietAfter(w)'
    <3>1. CASE w = v
      <4>1. heard'[w] = 0
        BY <1>3, <1>4, <3>1 DEF VectorInv, VectorTypes
      <4>2. IsRora(job[t]) => auto[w] = LevelOf[w]
        BY <1>1, <1>3, <3>1, <2>2 DEF VectorInv, AutoInv, IsRora, Doing
      <4>3. ~IsRora(job[t]) => auto[w] = LevelOf[w]
        BY <1>4, <2>2 DEF VectorInv, HeardInv
      <4> QED BY <4>1, <4>2, <4>3 DEF QuietAfter
    <3>2. CASE w # v
      BY <1>4, <2>2, <3>2 DEF VectorInv, VectorTypes, HeardInv, QuietAfter
    <3> QED BY <3>1, <3>2
  <2> QED BY <1>4, <2>1, <2>2 DEF HeardInv
<1> QED BY <1>5, <1>6, <1>7, <1>9, <1>11, <1>12, <1>13 DEF VectorInv

\* devDisconnectInterruptVME() takes out its own routine and no other.
LEMMA RemoveKeeps ==
  ASSUME VectorInv, NEW t \in Threads, Remove(t) \/ Restore(t)
  PROVE  VectorInv'
<1> DEFINE v == job[t].v
<1>1. /\ Moves(t) /\ pc[t] \in {"remove", "restore"} /\ job[t].op \in VectorOps
      /\ \/ pc'[t] = "idle" /\ job'[t] = Idle
         \/ pc[t] = "remove" /\ pc'[t] = "restore" /\ job'[t] = job[t] /\ build = "RTEMS"
  BY GoMoves, ReturnMoves DEF Remove, Restore, VectorInv, JobInv, AtVector
<1>2. /\ pc' = [u \in Threads |-> pc'[u]] /\ job' = [u \in Threads |-> job'[u]] /\ build' = build
      /\ \A u \in Threads \ {t} : pc'[u] = pc[u] /\ job'[u] = job[u] /\ JobInv(u)'
  BY <1>1, OthersStay DEF Moves
<1>3. v \in Vectors /\ job[t].op = "disconnect" /\ build # "vxWorksPPC" /\ (pc[t] = "restore" => build = "RTEMS")
  BY <1>1 DEF VectorInv, JobInv, VectorOps
<1>4. PICK r \in {"none", Unsolicited} : table' = [table EXCEPT ![v] = r]
  BY DEF Remove, Restore
<1>5. /\ owned' = [owned EXCEPT ![v] = IF pc[t] = "remove" THEN @ \ {t} ELSE @]
      /\ UNCHANGED <<auto, enabled, raced, rora, heard, failed>>
  BY DEF Remove, Restore, VectorInv, VectorTypes
<1>6. r \in Routines /\ r \notin Threads \cup {Vmesh}
  BY RoutineAssumption DEF Routines, Unsolicited, Vmesh
<1>7. VectorTypes'
  BY <1>2, <1>3, <1>4, <1>5, <1>6 DEF VectorInv, VectorTypes
<1>8. \A u \in Threads : JobInv(u)'
  BY <1>1, <1>2, <1>3 DEF JobInv, Idle, AtVector, VectorOps
<1>9. TakeTurns' /\ HeardInv'
  BY <1>1, <1>2, <1>5, TurnKept, HeardStays DEF VectorInv
<1>10. v \notin raced => owned'[v] = {}
  <2> SUFFICES ASSUME v \notin raced PROVE owned'[v] = {}
    OBVIOUS
  <2>1. CASE pc[t] = "remove"
    <3>1. table[v] = t
      BY <1>1, <1>3, <2>1 DEF VectorInv, TableInv
    <3>2. \A x \in owned[v] : x = t
      BY <1>3, <3>1 DEF VectorInv, HandlersKept
    <3> QED BY <1>3, <1>5, <2>1, <3>2 DEF VectorInv, VectorTypes
  <2>2. CASE pc[t] = "restore"
    BY <1>1, <1>3, <1>5, <2>2 DEF VectorInv, TableInv, VectorTypes
  <2> QED BY <1>1, <2>1, <2>2
<1>11. HandlersKept'
  BY <1>2, <1>3, <1>4, <1>5, <1>10 DEF VectorInv, VectorTypes, HandlersKept
<1>12. ASSUME NEW u \in Threads \ {t}, job[u].op \in VectorOps, job[u].v = v, v \notin raced
       PROVE  pc[u] # "remove"
  <2>1. build # "RTEMS" /\ pc[t] = "remove"
    BY <1>1, <1>3, <1>12, NotTwo
  <2>2. table[v] = t
    BY <1>1, <1>3, <1>12, <2>1 DEF VectorInv, TableInv
  <2>3. pc[u] = "remove" => table[v] = u
    BY <1>3, <1>12 DEF VectorInv, TableInv
  <2> QED BY <2>2, <2>3
<1>13. TableInv'
  <2>1. \A w \in Vectors : table'[w] \in Threads \cup {Vmesh} => table'[w] \in owned'[w]
    BY <1>3, <1>4, <1>5, <1>6 DEF VectorInv, VectorTypes, TableInv
  <2>2. ASSUME NEW u \in Threads \ {t}, job[u].op \in VectorOps, job[u].v \notin raced
        PROVE  /\ pc[u] \in {"install", "restore"} => owned'[job[u].v] = {}
               /\ pc[u] = "remove" => table'[job[u].v] = u
    <3>1. job[u].v \in Vectors
      BY <2>2 DEF VectorInv, JobInv
    <3>2. CASE job[u].v = v
      BY <2>2, <3>2, <1>10, <1>12
    <3>3. CASE job[u].v # v
      BY <2>2, <3>1, <3>3, <1>3, <1>4, <1>5 DEF VectorInv, VectorTypes, TableInv
    <3> QED BY <3>2, <3>3
  <2>3. pc'[t] = "restore" /\ v \notin raced => owned'[v] = {}
    BY <1>10
  <2>4. pc'[t] \notin {"install", "remove"} /\ (pc'[t] = "restore" => job'[t].v = v)
    BY <1>1
  <2>5. raced' = raced
    BY <1>5
  <2>6. \A u \in Threads \ {t} : pc'[u] = pc[u] /\ job'[u] = job[u]
    BY <1>2
  <2> QED BY <2>1, <2>2, <2>3, <2>4, <2>5, <2>6 DEF TableInv
<1>14. AutoInv'
  BY <1>1, <1>2, <1>3, <1>5 DEF VectorInv, AutoInv, Doing, Idle
<1> QED BY <1>7, <1>8, <1>9, <1>11, <1>13, <1>14 DEF VectorInv

\* vmeirqattach() notes a level only for a vector that has none.
LEMMA AttachMarkKeeps ==
  ASSUME VectorInv, NEW t \in Threads, AttachMark(t)
  PROVE  VectorInv'
<1> DEFINE v == job[t].v
<1>1. Moves(t) /\ pc'[t] = "test" /\ job'[t] = job[t] /\ pc[t] = "mark" /\ job[t].op \in VectorOps
  BY GoMoves DEF AttachMark, VectorInv, JobInv, AtVector
<1>2. /\ pc' = [u \in Threads |-> pc'[u]] /\ job' = [u \in Threads |-> job'[u]] /\ build' = build
      /\ \A u \in Threads \ {t} : pc'[u] = pc[u] /\ job'[u] = job[u] /\ JobInv(u)'
  BY <1>1, OthersStay DEF Moves
<1>3. v \in Vectors /\ job[t].op = "attach" /\ job[t].level \in 1 .. 7 /\ JobInv(t)
  BY <1>1 DEF VectorInv, JobInv, VectorOps
<1>4. /\ UNCHANGED <<table, enabled, owned, raced, rora, heard, failed>>
      /\ auto' = IF job[t].kind = "rora" THEN [auto EXCEPT ![v] = job[t].level] ELSE auto
  BY DEF AttachMark, Mark
<1>5. VectorTypes'
  BY <1>2, <1>3, <1>4 DEF VectorInv, VectorTypes
<1>6. \A u \in Threads : JobInv(u)'
  BY <1>1, <1>2, <1>3 DEF JobInv, AtVector, VectorOps
<1>7. TakeTurns'
  BY <1>1, <1>4, TurnKept
<1>8. HandlersKept'
  BY <1>2, <1>4 DEF VectorInv, HandlersKept
<1>9. TableInv'
  <2>1. ASSUME NEW u \in Threads, job'[u].op \in VectorOps, job'[u].v \notin raced, build # "vxWorksPPC"
        PROVE  /\ pc'[u] \in {"install", "restore"} => owned[job'[u].v] = {}
               /\ pc'[u] = "remove" => table[job'[u].v] = u
    <3>1. CASE u = t
      BY <1>1, <3>1
    <3>2. CASE u # t
      BY <1>2, <2>1, <3>2 DEF VectorInv, TableInv
    <3> QED BY <3>1, <3>2
  <2>2. \A w \in Vectors : table[w] \in Threads \cup {Vmesh} => table[w] \in owned[w]
    BY DEF VectorInv, TableInv
  <2> QED BY <1>2, <1>4, <2>1, <2>2 DEF TableInv
<1>10. AutoInv'
  <2>1. ASSUME NEW u \in Threads \ {t}, Doing(u, "attach"), job[u].v \notin raced
        PROVE  /\ pc[u] = "mark" => auto'[job[u].v] = 0
               /\ pc[u] # "mark" /\ job[u].kind = "rora" => auto'[job[u].v] = job[u].level
    <3>1. job[u].v # v
      BY <1>3, <2>1, NotTwo DEF Doing, VectorOps
    <3>2. auto'[job[u].v] = auto[job[u].v]
      BY <1>3, <1>4, <3>1 DEF VectorInv, VectorTypes
    <3> QED BY <2>1, <3>2 DEF VectorInv, AutoInv
  <2>2. job[t].kind = "rora" => auto'[v] = job[t].level
    BY <1>3, <1>4 DEF VectorInv, VectorTypes
  <2> QED BY <1>1, <1>2, <1>4, <2>1, <2>2 DEF AutoInv, Doing
<1>11. HeardInv'
  <2>1. ASSUME NEW w \in rora \ raced
        PROVE  auto'[w] = LevelOf[w]
    <3>1. auto[w] = LevelOf[w] /\ w \in Vectors /\ LevelOf[w] \in 1 .. 7
      BY LevelAssumption DEF VectorInv, VectorTypes, HeardInv
    <3>2. w # v
      BY <1>1, <1>3, <3>1 DEF VectorInv, AutoInv, Doing
    <3> QED BY <1>3, <1>4, <3>1, <3>2 DEF VectorInv, VectorTypes
  <2> QED BY <1>2, <1>4, <2>1 DEF VectorInv, HeardInv, QuietAfter, SwitchesLevels
<1> QED BY <1>5, <1>6, <1>7, <1>8, <1>9, <1>10, <1>11 DEF VectorInv

-----------------------------------------------------------------------------
LEMMA InitHolds == Init => VectorInv
<1> SUFFICES ASSUME Init PROVE VectorInv
  OBVIOUS
<1> USE DEF Init, Idle
<1>1. VectorTypes
  BY DEF VectorTypes, Routines
<1>2. \A t \in Threads : JobInv(t)
  BY DEF JobInv, AtVector, VectorOps
<1>3. TakeTurns /\ AutoInv /\ HeardInv /\ HandlersKept
  BY DEF TakeTurns, AutoInv, HeardInv, HandlersKept, Changes, Doing, VectorOps
<1>4. TableInv
  BY RoutineAssumption DEF TableInv, VectorOps, Vmesh
<1> QED BY <1>1, <1>2, <1>3, <1>4 DEF VectorInv

LEMMA NextKeeps ==
  ASSUME VectorInv, [Next]_vars
  PROVE  VectorInv'
<1>1. CASE UNCHANGED vars
  BY <1>1 DEF vars, irqVars, VectorInv, VectorTypes, JobInv, TakeTurns, Changes, Doing, HandlersKept, TableInv,
     AutoInv, HeardInv, QuietAfter, SwitchesLevels
<1>2. ASSUME NEW t \in Threads, Vector(t)
      PROVE  VectorInv'
  <2>1. CASE InstallFails(t) \/ RemoveFails(t)
    BY <2>1, GivesUp DEF InstallFails, RemoveFails
  <2> QED BY <1>2, <2>1, StartsKeep, ConnectTestKeeps, InstallKeeps, RemoveKeeps DEF Vector
<1>3. ASSUME NEW t \in Threads, Shell(t)
      PROVE  VectorInv'
  BY <1>3, StartsKeep, AttachMarkKeeps, LevelSteps DEF Shell
<1> QED BY <1>1, <1>2, <1>3, ElsewhereSteps, InterruptKeeps DEF Next

\* The vector table, the levels noted for its vectors and what the callers
\* have found out about them, whatever they do meanwhile.
THEOREM Inductive == Spec => []VectorInv
<1>1. VectorInv /\ [Next]_vars => VectorInv'
  BY NextKeeps
<1> QED BY <1>1, InitHolds, PTL DEF Spec

\* A routine stays in its vector until its owner takes it out.
THEOREM HandlersStay == Spec => []HandlersKept
<1>1. VectorInv => HandlersKept
  BY DEF VectorInv
<1> QED BY <1>1, Inductive, PTL

\* A vector attached as "rora" interrupts once each time its level is enabled,
\* unless the BSP failed to switch the level off since.
THEOREM HeardOnce == Spec => []RoraOnce
<1>1. VectorInv => RoraOnce
  BY DEF VectorInv, HeardInv, QuietAfter, RoraOnce, VectorTypes
<1> QED BY <1>1, Inductive, PTL

-----------------------------------------------------------------------------
(* What is on the bus                                                      *)

\* A register of a card is the bytes that the card has at its offsets.
LEMMA RomRead ==
  ASSUME NEW s \in DOMAIN Cards
  PROVE  /\ CSRRead(Cards[s], CR_IEEE_OUI, 3) = Cards[s].vendor
         /\ CSRRead(Cards[s], CR_BOARD_ID, 4) = Cards[s].board
         /\ CSRRead(Cards[s], CR_REVISION_ID, 4) = Cards[s].revision
         /\ Rom(Cards[s], CR_ASCII_C) = Cards[s].ascii[1] /\ Rom(Cards[s], CR_ASCII_R) = Cards[s].ascii[2]
<1> DEFINE c == Cards[s]
<1>1. c.vendor \in Bytes(3) /\ c.board \in Bytes(4) /\ c.revision \in Bytes(4)
  BY CardAssumption
<1> HIDE DEF c
<1>2. \A i \in 1 .. 3 : Rom(c, 39 + 4 * (i - 1)) = c.vendor[i]
  <2>1. Rom(c, 39) = c.vendor[1] /\ Rom(c, 43) = c.vendor[2] /\ Rom(c, 47) = c.vendor[3]
    BY DEF Rom
  <2> QED BY <2>1
<1>3. \A i \in 1 .. 4 : Rom(c, 51 + 4 * (i - 1)) = c.board[i]
  <2>1. Rom(c, 51) = c.board[1] /\ Rom(c, 55) = c.board[2] /\ Rom(c, 59) = c.board[3] /\ Rom(c, 63) = c.board[4]
    BY DEF Rom
  <2> QED BY <2>1
<1>4. \A i \in 1 .. 4 : Rom(c, 67 + 4 * (i - 1)) = c.revision[i]
  <2>1. /\ Rom(c, 67) = c.revision[1] /\ Rom(c, 71) = c.revision[2]
        /\ Rom(c, 75) = c.revision[3] /\ Rom(c, 79) = c.revision[4]
    BY DEF Rom
  <2> QED BY <2>1
<1>5. Rom(c, 31) = c.ascii[1] /\ Rom(c, 35) = c.ascii[2]
  BY DEF Rom
<1>6. /\ CSRRead(c, 39, 3) = c.vendor /\ CSRRead(c, 51, 4) = c.board /\ CSRRead(c, 67, 4) = c.revision
  BY <1>1, <1>2, <1>3, <1>4 DEF CSRRead, Bytes
<1> QED BY <1>5, <1>6 DEF CR_IEEE_OUI, CR_BOARD_ID, CR_REVISION_ID, CR_ASCII_C, CR_ASCII_R, c

\* A slot is probed well if a card with the standard layout answers there.
LEMMA SlotProbed ==
  ASSUME NEW s \in Int
  PROVE  ProbeSlot(s) <=> /\ s \in 0 .. SlotMax /\ s \in DOMAIN Cards /\ MapAddr("CSR", CSRSlotBase(s))
                          /\ Cards[s].ascii = <<67, 82>>
<1>1. LastOf("CSR") = 16777215
  BY DEF LastOf
<1>2. s \in 0 .. SlotMax => AddrVerify("CSR", CSRSlotBase(s), 4)
  BY <1>1 DEF AddrVerify, CSRSlotBase, SlotMax
<1>3. ASSUME s \in DOMAIN Cards
      PROVE  /\ Rom(Cards[s], CR_ASCII_C) = 67 /\ Rom(Cards[s], CR_ASCII_R) = 82
             <=> Cards[s].ascii = <<67, 82>>
  <2>1. Cards[s].ascii \in [1 .. 2 -> Byte]
    BY <1>3, CardAssumption DEF Bytes
  <2> DEFINE a == Cards[s].ascii
  <2> HIDE DEF a
  <2>2. a = <<67, 82>> <=> a[1] = 67 /\ a[2] = 82
    <3>1. a \in [1 .. 2 -> Byte] /\ <<67, 82>> \in [1 .. 2 -> {67, 82}]
      BY <2>1 DEF a
    <3> QED BY <3>1
  <2> QED BY <1>3, <2>2, RomRead DEF a
<1> QED BY <1>2, <1>3 DEF ProbeSlot, BusToLocal, SlotMax

LEMMA NamesIs ==
  ASSUME NEW e, NEW id
  PROVE  csrMatch(e, id) <=> Names(e, id)
BY DEF csrMatch, SameOrAny, Names

\* The answer of devCSRTestSlot() is the card in the slot.
LEMMA AnswerIs ==
  ASSUME NEW s \in Int, NEW devs
  PROVE  TestSlot(devs, s) =
           IF s \in 0 .. SlotMax /\ s \in DOMAIN Cards /\ MapAddr("CSR", CSRSlotBase(s)) /\ Cards[s].ascii = <<67, 82>>
           THEN LET id == [vendor |-> <<0>> \o Cards[s].vendor,
                           board |-> Cards[s].board, revision |-> Cards[s].revision]
                IN IF \E e \in Entries(devs) : Names(e, id) THEN id ELSE NotFound
           ELSE NotFound
<1>1. CASE ~ProbeSlot(s)
  BY <1>1, SlotProbed DEF TestSlot
<1>2. CASE ProbeSlot(s)
  <2>1. s \in DOMAIN Cards
    BY <1>2, SlotProbed
  <2> DEFINE id == [vendor |-> <<0>> \o Cards[s].vendor, board |-> Cards[s].board, revision |-> Cards[s].revision]
  <2>2. TestSlot(devs, s) = IF \E e \in Entries(devs) : csrMatch(e, id) THEN id ELSE NotFound
    BY <1>2, <2>1, RomRead DEF TestSlot
  <2>3. (\E e \in Entries(devs) : csrMatch(e, id)) <=> \E e \in Entries(devs) : Names(e, id)
    <3> HIDE DEF id
    <3> QED BY NamesIs
  <2> HIDE DEF id
  <2>4. TestSlot(devs, s) = IF \E e \in Entries(devs) : Names(e, id) THEN id ELSE NotFound
    BY <2>2, <2>3
  <2> QED BY <1>2, <2>4, SlotProbed DEF id
<1> QED BY <1>1, <1>2

\* The registers of two functions do not share a byte.
LEMMA PlacesApart ==
  ASSUME NEW n \in Places, NEW m \in Places, NEW i \in 1 .. 4, NEW k \in 1 .. 4, ADERAt(n, i) = ADERAt(m, k)
  PROVE  n = m /\ i = k
BY DEF ADERAt, Places, MaxFunction

\* The bytes of a base address register.
LEMMA WindowBytes ==
  ASSUME NEW w \in Windows
  PROVE  /\ \A k \in 1 .. 3 : CSRADER(w[1], w[2])[k] = w[1][k]
         /\ CSRADER(w[1], w[2])[4] = (w[2] % 64) * 4
         /\ \A k \in 1 .. 4 : CSRADER(w[1], w[2])[k] \in Byte
<1>1. w[1] \in [1 .. 4 -> Byte] /\ w[2] \in Byte
  BY WindowAssumption DEF Bytes
<1> DEFINE a == w[1]  m == w[2] % 64
<1>2. a \in [1 .. 4 -> Byte] /\ m \in 0 .. 63
  BY <1>1 DEF Byte
<1> HIDE DEF a, m
<1>4. SubSeq(a, 1, 3) \in Seq(Byte) /\ Len(SubSeq(a, 1, 3)) = 3 /\ \A k \in 1 .. 3 : SubSeq(a, 1, 3)[k] = a[k]
  <2>1. \A k \in 1 .. 3 : a[k] \in Byte
    BY <1>2
  <2> QED BY <2>1, SubSeqProperties
<1> DEFINE s == SubSeq(a, 1, 3)
<1> HIDE DEF s
<1>5. m * 4 \in Byte
  BY <1>2 DEF Byte
<1>6. (\A k \in 1 .. 3 : (s \o <<m * 4>>)[k] = s[k]) /\ (s \o <<m * 4>>)[4] = m * 4
  BY <1>4, <1>5 DEF s
<1>7. \A k \in 1 .. 4 : (s \o <<m * 4>>)[k] \in Byte
  BY <1>2, <1>4, <1>5, <1>6 DEF s
<1> QED BY <1>4, <1>6, <1>7 DEF CSRADER, a, m, s

-----------------------------------------------------------------------------
(* The calls and the registers                                             *)

IdleInv(t) == job[t].op = "none" <=> pc[t] = "idle"

RestInv == VectorInv /\ TypeOK /\ (\A t \in Threads : CallInv(t)) /\ RegisterInv

LEMMA RestIsAll == RestInv <=> IInv
BY DEF RestInv, IInv

\* A step that does not work on a base address.
Aside(t) ==
  /\ Moves(t) /\ IdleInv(t)' /\ CallInv(t)'
  /\ job[t].op # "base" /\ job'[t].op # "base"
  /\ UNCHANGED <<regs, asked, mixed>>
  /\ calls' \in 0 .. MaxCalls

LEMMA AsideKeeps ==
  ASSUME RestInv, NEW t \in Threads, Aside(t)
  PROVE  (\A u \in Threads : IdleInv(u)' /\ CallInv(u)') /\ RegisterInv'
<1>1. /\ \A u \in Threads \ {t} : pc'[u] = pc[u] /\ job'[u] = job[u]
      /\ job[t].op # "base" /\ job'[t].op # "base" /\ UNCHANGED <<regs, asked, mixed>>
      /\ IdleInv(t)' /\ CallInv(t)'
  BY OthersStay DEF RestInv, Aside
<1>2. ASSUME NEW u \in Threads \ {t}
      PROVE  IdleInv(u)' /\ CallInv(u)'
  BY <1>1 DEF RestInv, TypeOK, IdleInv, CallInv
<1>3. \A u \in Threads : (Doing(u, "base")' <=> Doing(u, "base")) /\ (Doing(u, "base") => job'[u] = job[u] /\ pc'[u] = pc[u])
  BY <1>1 DEF Doing
<1>4. RegisterInv'
  <2>1. /\ asked' \in [Places -> Windows \cup {<<>>}] /\ mixed' \subseteq Places
        /\ \A n \in Places : asked'[n] # <<>> => n <= MaxFunction
    BY <1>1 DEF RestInv, RegisterInv
  <2>2. \A u, v \in Threads : u # v /\ Doing(u, "base")' /\ Doing(v, "base")' /\ job'[u].n = job'[v].n =>
          job'[u].n \in mixed'
    BY <1>1, <1>3 DEF RestInv, RegisterInv
  <2>3. ASSUME NEW n \in Places \ mixed', \A u \in Threads : ~(Doing(u, "base")' /\ job'[u].n = n)
        PROVE  \A i \in 1 .. 4 :
                 regs'[ADERAt(n, i)] = IF asked'[n] = <<>> THEN 0 ELSE CSRADER(asked'[n][1], asked'[n][2])[i]
    <3>1. \A u \in Threads : ~(Doing(u, "base") /\ job[u].n = n)
      BY <1>3, <2>3
    <3> QED BY <1>1, <2>3, <3>1 DEF RestInv, RegisterInv
  <2>4. ASSUME NEW u \in Threads, Doing(u, "base")', job'[u].n \notin mixed', NEW i \in 1 .. 4, pc'[u] = ByteStep[i]
        PROVE  \A k \in 1 .. i - 1 :
                 regs'[ADERAt(job'[u].n, k)] = CSRADER(job'[u].window[1], job'[u].window[2])[k]
    <3>1. Doing(u, "base") /\ job'[u] = job[u] /\ pc[u] = ByteStep[i] /\ job[u].n \notin mixed
      BY <1>1, <1>3, <2>4
    <3>2. \A k \in 1 .. i - 1 :
            regs[ADERAt(job[u].n, k)] = CSRADER(job[u].window[1], job[u].window[2])[k]
      BY <3>1 DEF RestInv, RegisterInv
    <3> QED BY <1>1, <3>1, <3>2
  <2> QED BY <2>1, <2>2, <2>3, <2>4 DEF RegisterInv
<1> QED BY <1>1, <1>2, <1>4

\* A thread that is idle, or in a call on a vector, sets no base address.
LEMMA NotBase ==
  ASSUME RestInv, NEW t \in Threads
  PROVE  /\ pc[t] = "idle" \/ pc[t] \in AtVector \/ pc[t] = "answered" => job[t].op # "base"
         /\ pc[t] \in AtVector => pc[t] \notin {"idle", "answered"} \cup ByteSteps /\ job[t].op \in VectorOps
         /\ calls \in Nat /\ MaxCalls \in Nat /\ calls <= MaxCalls
BY CallsAssumption DEF RestInv, VectorInv, TypeOK, CallInv, JobInv, AtVector, VectorOps, ByteSteps

LEMMA BeginAside ==
  ASSUME RestInv, NEW t \in Threads, NEW at, NEW j, Begin(t, at, j), UNCHANGED <<regs, asked, mixed>>,
         \/ at \in AtVector /\ j.op \in VectorOps
         \/ at = "idle" /\ j = Idle
         \/ at = "answered" /\ j.op \in {"slot", "vmeread", "vmewrite"}
  PROVE  Aside(t)
<1>1. Moves(t) /\ pc[t] = "idle" /\ pc'[t] = at /\ job'[t] = j
  BY BeginMoves DEF RestInv
<1>2. job[t].op # "base" /\ calls' \in 0 .. MaxCalls
  BY <1>1, NotBase DEF Begin
<1>3. IdleInv(t)' /\ CallInv(t)' /\ job'[t].op # "base"
  BY <1>1 DEF IdleInv, CallInv, AtVector, VectorOps, ByteSteps, Idle
<1> QED BY <1>1, <1>2, <1>3 DEF Aside

LEMMA GoAside ==
  ASSUME RestInv, NEW t \in Threads, NEW at \in AtVector, Go(t, at), pc[t] \in AtVector,
         UNCHANGED <<regs, asked, mixed>>
  PROVE  Aside(t)
<1>1. Moves(t) /\ pc'[t] = at /\ job'[t] = job[t] /\ calls' = calls
  BY GoMoves DEF RestInv, Go
<1>2. job[t].op # "base" /\ job[t].op \in VectorOps /\ calls' \in 0 .. MaxCalls
  BY <1>1, NotBase
<1>3. IdleInv(t)' /\ CallInv(t)' /\ job'[t].op # "base"
  BY <1>1, <1>2 DEF IdleInv, CallInv, AtVector, VectorOps, ByteSteps
<1> QED BY <1>1, <1>2, <1>3 DEF Aside

LEMMA ReturnAside ==
  ASSUME RestInv, NEW t \in Threads, Return(t), pc[t] \in AtVector \cup {"answered"},
         UNCHANGED <<regs, asked, mixed>>
  PROVE  Aside(t)
<1>1. Moves(t) /\ pc'[t] = "idle" /\ job'[t] = Idle /\ calls' = calls
  BY ReturnMoves DEF RestInv, Return
<1>2. job[t].op # "base" /\ calls' \in 0 .. MaxCalls
  BY <1>1, NotBase
<1>3. IdleInv(t)' /\ CallInv(t)' /\ job'[t].op # "base"
  BY <1>1 DEF IdleInv, CallInv, ByteSteps, Idle
<1> QED BY <1>1, <1>2, <1>3 DEF Aside

\* What drivers and shells do with vectors and levels.
LEMMA VectorAside ==
  ASSUME RestInv, NEW t \in Threads, Vector(t) \/ Shell(t)
  PROVE  Aside(t) /\ enabled' \subseteq 1 .. 7 /\ UNCHANGED <<ram, build>>
<1> USE DEF csrVars, irqVars
<1>0. enabled \subseteq 1 .. 7
  BY DEF RestInv, TypeOK
<1>1. ASSUME NEW v \in Vectors, ConnectStart(t, v) \/ DisconnectTest(t, v)
      PROVE  Aside(t) /\ UNCHANGED <<enabled, ram, build>>
  BY <1>1, BeginAside DEF ConnectStart, DisconnectTest, AtVector, VectorOps, Begin
<1>2. ASSUME ConnectTest(t) \/ ConnectInstall(t) \/ InstallFails(t)
      PROVE  Aside(t) /\ UNCHANGED <<enabled, ram, build>>
  BY <1>2, GoAside, ReturnAside DEF ConnectTest, ConnectInstall, InstallFails, AtVector, Go, Return
<1>3. ASSUME Remove(t) \/ Restore(t) \/ RemoveFails(t)
      PROVE  Aside(t) /\ UNCHANGED <<enabled, ram, build>>
  BY <1>3, GoAside, ReturnAside DEF Remove, Restore, RemoveFails, AtVector, Go, Return
<1>4. ASSUME NEW v \in Vectors, NEW l \in Requests, NEW kind, AttachTest(t, v, l, kind)
      PROVE  Aside(t) /\ UNCHANGED <<enabled, ram, build>>
  BY <1>4, BeginAside DEF AttachTest, AtVector, VectorOps, Begin
<1>5. ASSUME AttachMark(t)
      PROVE  Aside(t) /\ UNCHANGED <<enabled, ram, build>>
  BY <1>5, GoAside DEF AttachMark, AtVector, Go
<1>6. ASSUME NEW l \in Requests, EnableLevel(t, l) \/ DisableLevel(t, l)
      PROVE  Aside(t) /\ enabled' \subseteq 1 .. 7 /\ UNCHANGED <<ram, build>>
  <2>1. Aside(t) /\ UNCHANGED <<ram, build>>
    BY <1>6, BeginAside DEF EnableLevel, DisableLevel, Begin
  <2>2. enabled' \subseteq 1 .. 7
    <3>1. l \in 1 .. 7
      BY <1>6, RequestAssumption DEF EnableLevel, DisableLevel
    <3>2. enabled' = enabled \cup {l} \/ enabled' = enabled \ {l}
      BY <1>6 DEF EnableLevel, DisableLevel
    <3> QED BY <1>0, <3>1, <3>2
  <2> QED BY <2>1, <2>2
<1>7. CASE Vector(t)
  BY <1>0, <1>1, <1>2, <1>3, <1>7 DEF Vector
<1>8. CASE Shell(t)
  BY <1>0, <1>4, <1>5, <1>6, <1>8 DEF Shell
<1> QED BY <1>7, <1>8

LEMMA OperatorAside ==
  ASSUME RestInv, NEW t \in Threads,
         Operator(t) \/ \E slot \in Slots, devs \in DevLists : Test(t, slot, devs)
  PROVE  Aside(t) /\ UNCHANGED irqVars
<1> USE DEF csrVars
<1>1. CASE \E a \in Accesses, count \in 0 .. 2 : VmeRead(t, a[1], a[2], a[3], count)
  BY <1>1, BeginAside DEF VmeRead
<1>2. CASE \E a \in Accesses : VmeWrite(t, a[1], a[2], a[3], <<1, 2, 3, 4>>)
  BY <1>2, BeginAside DEF VmeWrite
<1>3. CASE Answer(t)
  BY <1>3, ReturnAside DEF Answer
<1>4. CASE \E slot \in Slots, devs \in DevLists : Test(t, slot, devs)
  BY <1>4, BeginAside DEF Test
<1> QED BY <1>1, <1>2, <1>3, <1>4 DEF Operator

\* CSRSetBase() begins.
LEMMA BaseStartKeeps ==
  ASSUME RestInv, NEW t \in Threads, NEW n \in Functions, NEW w \in Windows, BaseStart(t, n, w)
  PROVE  (\A u \in Threads : IdleInv(u)' /\ CallInv(u)') /\ RegisterInv' /\ calls' \in 0 .. MaxCalls
<1>1. /\ Moves(t) /\ pc[t] = "idle" /\ pc'[t] = "byte1" /\ job'[t] = [op |-> "base", n |-> n, window |-> w]
      /\ calls < MaxCalls /\ calls' = calls + 1
  BY BeginMoves DEF BaseStart, RestInv, Begin
<1>2. \A u \in Threads \ {t} : pc'[u] = pc[u] /\ job'[u] = job[u]
  BY <1>1, OthersStay DEF RestInv
<1>3. n \in 0 .. MaxFunction
  BY FunctionAssumption DEF BaseStart, HasRegister, MaxFunction, Byte
<1>4. job[t].op # "base" /\ calls' \in 0 .. MaxCalls
  BY <1>1, NotBase
<1>5. UNCHANGED <<regs, asked>>
  BY DEF BaseStart
<1>6. mixed' = mixed \/ mixed' = mixed \cup {n}
  BY DEF BaseStart
<1>7. ASSUME NEW u \in Threads \ {t}, Doing(u, "base"), job[u].n = n
      PROVE  n \in mixed'
  BY <1>7 DEF BaseStart
<1>8. ASSUME NEW u \in Threads
      PROVE  IdleInv(u)' /\ CallInv(u)'
  <2>1. CASE u = t
    BY <1>1, <1>3, <2>1 DEF IdleInv, CallInv, ByteSteps
  <2>2. CASE u # t
    BY <1>2, <2>2 DEF RestInv, TypeOK, IdleInv, CallInv
  <2> QED BY <2>1, <2>2
<1>9. /\ asked' \in [Places -> Windows \cup {<<>>}] /\ mixed' \subseteq Places
      /\ \A m \in Places : asked'[m] # <<>> => m <= MaxFunction
  <2>1. /\ asked \in [Places -> Windows \cup {<<>>}] /\ mixed \subseteq Places
        /\ \A m \in Places : asked[m] # <<>> => m <= MaxFunction
    BY DEF RestInv, RegisterInv
  <2>2. n \in Places
    BY <1>3 DEF Places, MaxFunction
  <2> QED BY <1>5, <1>6, <2>1, <2>2
<1>10. ASSUME NEW u \in Threads, NEW v \in Threads, u # v, Doing(u, "base")', Doing(v, "base")', job'[u].n = job'[v].n
       PROVE  job'[u].n \in mixed'
  <2>1. CASE u = t
    BY <1>1, <1>2, <1>7, <1>10, <2>1 DEF Doing
  <2>2. CASE v = t
    BY <1>1, <1>2, <1>7, <1>10, <2>2 DEF Doing
  <2>3. CASE u # t /\ v # t
    <3>1. Doing(u, "base") /\ Doing(v, "base") /\ job[u].n = job[v].n /\ job'[u].n = job[u].n
      BY <1>2, <1>10, <2>3 DEF Doing
    <3> QED BY <1>6, <1>10, <3>1 DEF RestInv, RegisterInv
  <2> QED BY <2>1, <2>2, <2>3
<1>11. ASSUME NEW m \in Places \ mixed', \A u \in Threads : ~(Doing(u, "base")' /\ job'[u].n = m)
       PROVE  \A i \in 1 .. 4 :
                regs'[ADERAt(m, i)] = IF asked'[m] = <<>> THEN 0 ELSE CSRADER(asked'[m][1], asked'[m][2])[i]
  <2>1. \A u \in Threads : ~(Doing(u, "base") /\ job[u].n = m)
    BY <1>2, <1>4, <1>11 DEF Doing
  <2>2. m \in Places \ mixed
    BY <1>6, <1>11
  <2> QED BY <1>5, <2>1, <2>2 DEF RestInv, RegisterInv
<1>12. ASSUME NEW u \in Threads, Doing(u, "base")', job'[u].n \notin mixed', NEW i \in 1 .. 4, pc'[u] = ByteStep[i]
       PROVE  \A k \in 1 .. i - 1 :
                regs'[ADERAt(job'[u].n, k)] = CSRADER(job'[u].window[1], job'[u].window[2])[k]
  <2>1. CASE u = t
    <3>1. i = 1
      BY <1>1, <1>12, <2>1 DEF ByteStep
    <3> QED BY <3>1
  <2>2. CASE u # t
    <3>1. Doing(u, "base") /\ job'[u] = job[u] /\ pc[u] = ByteStep[i] /\ job[u].n \notin mixed
      BY <1>2, <1>6, <1>12, <2>2 DEF Doing
    <3>2. \A k \in 1 .. i - 1 :
            regs[ADERAt(job[u].n, k)] = CSRADER(job[u].window[1], job[u].window[2])[k]
      BY <3>1 DEF RestInv, RegisterInv
    <3> QED BY <1>5, <3>1, <3>2
  <2> QED BY <2>1, <2>2
<1>13. RegisterInv'
  BY <1>9, <1>10, <1>11, <1>12 DEF RegisterInv
<1> QED BY <1>4, <1>8, <1>13

\* CSRWrite32(): one byte more.
LEMMA WriteByteKeeps ==
  ASSUME RestInv, NEW t \in Threads, NEW i \in 1 .. 4, WriteByte(t, i)
  PROVE  /\ \A u \in Threads : IdleInv(u)' /\ CallInv(u)'
         /\ RegisterInv' /\ calls' \in 0 .. MaxCalls /\ regs' \in [ADERs -> Byte]
<1> DEFINE n == job[t].n  w == job[t].window  b == CSRADER(w[1], w[2])
<1>1. /\ pc[t] = ByteStep[i] /\ regs' = [regs EXCEPT ![ADERAt(n, i)] = b[i]] /\ mixed' = mixed
  BY DEF WriteByte
<1>2. pc[t] \in ByteSteps /\ \A k \in 1 .. 4 : pc[t] = ByteStep[k] => k = i
  BY <1>1 DEF ByteStep, ByteSteps
<1>3. Doing(t, "base") /\ n \in 0 .. MaxFunction /\ n \in Places /\ w \in Windows
  BY <1>2 DEF RestInv, CallInv, Doing, Places, MaxFunction
<1>4. /\ Moves(t) /\ calls' = calls
      /\ IF i < 4 THEN pc'[t] = ByteStep[i + 1] /\ job'[t] = job[t] /\ asked' = asked
                  ELSE pc'[t] = "idle" /\ job'[t] = Idle /\ asked' = [asked EXCEPT ![n] = w]
  <2>1. CASE i < 4
    <3>1. Go(t, ByteStep[i + 1]) /\ asked' = asked
      BY <2>1 DEF WriteByte
    <3> QED BY <2>1, <3>1, GoMoves DEF RestInv, Go
  <2>2. CASE ~(i < 4)
    <3>1. Return(t) /\ asked' = [asked EXCEPT ![n] = w]
      BY <2>2 DEF WriteByte
    <3> QED BY <2>2, <3>1, ReturnMoves DEF RestInv, Return
  <2> QED BY <2>1, <2>2
<1>5. \A u \in Threads \ {t} : pc'[u] = pc[u] /\ job'[u] = job[u]
  BY <1>4, OthersStay DEF RestInv
<1>6. calls' \in 0 .. MaxCalls
  BY <1>4, NotBase
<1>7. \A k \in 1 .. 4 : b[k] \in Byte
  BY <1>3, WindowBytes
<1>8. regs \in [ADERs -> Byte] /\ ADERAt(n, i) \in ADERs
  BY <1>3 DEF RestInv, TypeOK, ADERs
<1>9. regs' \in [ADERs -> Byte]
  BY <1>1, <1>7, <1>8
<1>10. ASSUME NEW m \in Places, NEW k \in 1 .. 4
       PROVE  regs'[ADERAt(m, k)] = IF m = n /\ k = i THEN b[i] ELSE regs[ADERAt(m, k)]
  <2>1. ADERAt(m, k) \in ADERs
    BY DEF ADERs
  <2>2. ADERAt(m, k) = ADERAt(n, i) <=> m = n /\ k = i
    BY <1>3, PlacesApart
  <2> QED BY <1>1, <1>8, <2>1, <2>2
<1> HIDE DEF b
<1>11. ASSUME NEW u \in Threads
       PROVE  IdleInv(u)' /\ CallInv(u)'
  <2>1. CASE u # t
    BY <1>5, <2>1 DEF RestInv, TypeOK, IdleInv, CallInv
  <2>2. CASE u = t /\ i < 4
    <3>1. pc'[t] \in ByteSteps /\ job'[t] = job[t]
      BY <1>4, <2>2 DEF ByteStep, ByteSteps
    <3> QED BY <1>3, <2>2, <3>1 DEF IdleInv, CallInv, Doing, ByteSteps
  <2>3. CASE u = t /\ i = 4
    BY <1>4, <2>3 DEF IdleInv, CallInv, Idle, ByteSteps
  <2> QED BY <2>1, <2>2, <2>3
<1>12. /\ asked' \in [Places -> Windows \cup {<<>>}] /\ mixed' \subseteq Places
       /\ \A m \in Places : asked'[m] # <<>> => m <= MaxFunction
  <2>1. /\ asked \in [Places -> Windows \cup {<<>>}] /\ mixed \subseteq Places
        /\ \A m \in Places : asked[m] # <<>> => m <= MaxFunction
    BY DEF RestInv, RegisterInv
  <2>2. asked' = asked \/ asked' = [asked EXCEPT ![n] = w]
    BY <1>4
  <2>3. n <= MaxFunction
    BY <1>3
  <2> HIDE DEF n, w
  <2> QED BY <1>1, <1>3, <2>1, <2>2, <2>3
<1>13. \A u \in Threads : Doing(u, "base")' => Doing(u, "base") /\ job'[u] = job[u]
  BY <1>4, <1>5 DEF Doing, Idle
<1>14. ASSUME NEW u \in Threads, NEW v \in Threads, u # v, Doing(u, "base")', Doing(v, "base")', job'[u].n = job'[v].n
       PROVE  job'[u].n \in mixed'
  BY <1>1, <1>13, <1>14 DEF RestInv, RegisterInv
<1>15. ASSUME NEW m \in Places \ mixed', \A u \in Threads : ~(Doing(u, "base")' /\ job'[u].n = m)
       PROVE  \A k \in 1 .. 4 :
                regs'[ADERAt(m, k)] = IF asked'[m] = <<>> THEN 0 ELSE CSRADER(asked'[m][1], asked'[m][2])[k]
  <2>1. CASE m # n
    <3>1. \A u \in Threads : ~(Doing(u, "base") /\ job[u].n = m)
      BY <1>5, <1>15, <2>1 DEF Doing
    <3>2. \A k \in 1 .. 4 :
            regs[ADERAt(m, k)] = IF asked[m] = <<>> THEN 0 ELSE CSRADER(asked[m][1], asked[m][2])[k]
      BY <1>1, <1>15, <3>1 DEF RestInv, RegisterInv
    <3>3. asked'[m] = asked[m]
      BY <1>4, <2>1 DEF RestInv, RegisterInv
    <3>4. \A k \in 1 .. 4 : regs'[ADERAt(m, k)] = regs[ADERAt(m, k)]
      BY <1>10, <2>1
    <3> QED BY <3>2, <3>3, <3>4
  <2>2. CASE m = n
    <3>1. i = 4
      BY <1>3, <1>4, <1>15, <2>2 DEF Doing
    <3>2. asked'[n] = w
      BY <1>3, <1>4, <3>1 DEF RestInv, RegisterInv
    <3>3. w # <<>>
      <4>1. w = <<w[1], w[2]>>
        BY <1>3, WindowAssumption
      <4> DEFINE x == w[1]  y == w[2]
      <4> HIDE DEF x, y
      <4>2. <<x, y>> # <<>>
        OBVIOUS
      <4> QED BY <4>1, <4>2 DEF x, y
    <3>4. \A k \in 1 .. 3 : regs[ADERAt(n, k)] = b[k]
      BY <1>1, <1>3, <1>15, <2>2, <3>1 DEF RestInv, RegisterInv, b
    <3>5. \A k \in 1 .. 4 : regs'[ADERAt(n, k)] = b[k]
      BY <1>3, <1>10, <3>1, <3>4
    <3> QED BY <2>2, <3>2, <3>3, <3>5 DEF b
  <2> QED BY <2>1, <2>2
<1>16. ASSUME NEW u \in Threads, Doing(u, "base")', job'[u].n \notin mixed', NEW j \in 1 .. 4, pc'[u] = ByteStep[j]
       PROVE  \A k \in 1 .. j - 1 :
                regs'[ADERAt(job'[u].n, k)] = CSRADER(job'[u].window[1], job'[u].window[2])[k]
  <2>1. Doing(u, "base") /\ job'[u] = job[u] /\ job[u].n \notin mixed /\ job[u].n \in Places
    BY <1>1, <1>13, <1>16 DEF RestInv, CallInv, Doing, Places, MaxFunction
  <2>2. CASE u = t
    <3>1. i < 4 /\ pc'[t] = ByteStep[i + 1]
      BY <1>4, <1>16, <2>2 DEF Doing, Idle
    <3>2. j = i + 1
      BY <1>16, <2>2, <3>1 DEF ByteStep
    <3>3. \A k \in 1 .. i - 1 : regs[ADERAt(n, k)] = b[k]
      BY <1>1, <2>1, <2>2 DEF RestInv, RegisterInv, b
    <3>4. \A k \in 1 .. i : regs'[ADERAt(n, k)] = b[k]
      BY <1>3, <1>10, <3>1, <3>3
    <3> QED BY <2>1, <2>2, <3>2, <3>4 DEF b
  <2>3. CASE u # t
    <3>1. job[u].n # n
      BY <1>3, <2>1, <2>3 DEF RestInv, RegisterInv
    <3>2. \A k \in 1 .. j - 1 :
            regs[ADERAt(job[u].n, k)] = CSRADER(job[u].window[1], job[u].window[2])[k]
      BY <1>5, <1>16, <2>1, <2>3 DEF RestInv, RegisterInv
    <3>3. \A k \in 1 .. j - 1 : regs'[ADERAt(job[u].n, k)] = regs[ADERAt(job[u].n, k)]
      BY <1>10, <2>1, <3>1
    <3> QED BY <2>1, <3>2, <3>3
  <2> QED BY <2>2, <2>3
<1>17. RegisterInv'
  BY <1>12, <1>14, <1>15, <1>16 DEF RegisterInv
<1> QED BY <1>6, <1>9, <1>11, <1>17

-----------------------------------------------------------------------------
(* What operators read and write                                           *)

\* The word that vmewrite() makes of a value.
LEMMA StoredBytes ==
  ASSUME NEW v \in Bytes(4), NEW n \in {1, 2, 4}, NEW little \in BOOLEAN
  PROVE  \A k \in 1 .. n : /\ Stored(little, v, n)[k] \in Byte
                           /\ ~little => Stored(little, v, n)[k] = v[4 - n + k]
<1> DEFINE a == SubSeq(v, 5 - n, 4)  z == Zeros(4 - n)  s == a \o z  m == InMemory(little, s)
<1>1. /\ a \in Seq(Byte) /\ Len(a) = n /\ \A k \in 1 .. n : a[k] = v[4 - n + k]
  <2>1. \A k \in 5 - n .. 4 : v[k] \in Byte
    BY DEF Bytes
  <2> QED BY <2>1, SubSeqProperties
<1>2. /\ z \in Seq(Byte) /\ Len(z) = 4 - n
  <2>1. 0 \in Byte /\ 4 - n \in Nat
    BY DEF Byte
  <2> QED BY <2>1 DEF Zeros
<1> HIDE DEF a, z
<1>3. Len(s) = 4 /\ s \in Seq(Byte) /\ \A k \in 1 .. n : s[k] = a[k]
  <2>1. /\ s \in Seq(Byte) /\ Len(s) = Len(a) + Len(z)
        /\ \A k \in 1 .. Len(a) + Len(z) : s[k] = IF k <= Len(a) THEN a[k] ELSE z[k - Len(a)]
    BY <1>1, <1>2, ConcatProperties
  <2> QED BY <1>1, <1>2, <2>1
<1> HIDE DEF s
<1>4. \A k \in 1 .. 4 : m[k] \in Byte /\ (~little => m[k] = s[k])
  <2>1. \A k \in 1 .. 4 : s[k] \in Byte
    BY <1>3, ElementOfSeq
  <2> QED BY <2>1 DEF InMemory
<1> HIDE DEF m
<1>5. \A k \in 1 .. n : SubSeq(m, 1, n)[k] = m[k]
  <2>1. \A k \in 1 .. n : m[k] \in Byte
    BY <1>4
  <2> QED BY <2>1, SubSeqProperties
<1>6. Stored(little, v, n) = SubSeq(m, 1, n)
  BY DEF Stored, m, s, a, z
<1> QED BY <1>1, <1>3, <1>4, <1>5, <1>6

\* The value that vmeread() makes of bytes in memory.
LEMMA PrintedBytes ==
  ASSUME NEW n \in {1, 2, 4}, NEW f, f = [i \in 1 .. n |-> f[i]]
  PROVE  Printed(FALSE, f) = f /\ (n < 4 => Printed(TRUE, f) = Ones(n))
<1> DEFINE S == {f[i] : i \in 1 .. n} \cup {255}  o == Ones(4 - n)  s == f \o o
           m == [i \in 1 .. 4 |-> s[5 - i]]
<1>1. f \in [1 .. n -> S]
  OBVIOUS
<1>2. f \in Seq(S) /\ Len(f) = n
  <2> HIDE DEF S
  <2> QED BY <1>1
<1>3. o \in Seq(S) /\ Len(o) = 4 - n /\ \A k \in 1 .. 4 - n : o[k] = 255
  <2>1. 255 \in S /\ 4 - n \in Nat
    OBVIOUS
  <2> HIDE DEF S
  <2> QED BY <2>1 DEF Ones
<1> HIDE DEF o, S
<1>4. /\ \A k \in 1 .. 4 : s[k] \in S
      /\ \A k \in 1 .. n : s[k] = f[k]
      /\ \A k \in n + 1 .. 4 : s[k] = 255
  <2>1. /\ s \in Seq(S) /\ Len(s) = Len(f) + Len(o)
        /\ \A k \in 1 .. Len(f) + Len(o) : s[k] = IF k <= Len(f) THEN f[k] ELSE o[k - Len(f)]
    BY <1>2, <1>3, ConcatProperties
  <2>2. \A k \in 1 .. 4 : s[k] \in S
    BY <1>2, <1>3, <2>1, ElementOfSeq
  <2>3. \A k \in 1 .. n : s[k] = f[k]
    BY <1>2, <1>3, <2>1
  <2>4. \A k \in n + 1 .. 4 : s[k] = 255
    BY <1>2, <1>3, <2>1
  <2> QED BY <2>2, <2>3, <2>4
<1> HIDE DEF s
<1>5. SubSeq(s, 1, n) = f
  <2>1. \A k \in 1 .. n : s[k] \in S
    BY <1>4
  <2>2. /\ SubSeq(s, 1, n) \in Seq(S) /\ Len(SubSeq(s, 1, n)) = n
        /\ \A k \in 1 .. n : SubSeq(s, 1, n)[k] = s[k]
    BY <2>1, SubSeqProperties
  <2>3. SubSeq(s, 1, n) \in [1 .. n -> S]
    BY <2>2, LenProperties
  <2> QED BY <1>1, <1>4, <2>2, <2>3
<1>6. ASSUME n < 4 PROVE SubSeq(m, 1, n) = Ones(n)
  <2>1. \A k \in 1 .. 4 : m[k] \in S
    BY <1>4
  <2>2. \A k \in 1 .. n : m[k] = 255
    BY <1>4, <1>6
  <2> HIDE DEF m
  <2>3. /\ SubSeq(m, 1, n) \in Seq(S) /\ Len(SubSeq(m, 1, n)) = n
        /\ \A k \in 1 .. n : SubSeq(m, 1, n)[k] = m[k]
    <3>1. \A k \in 1 .. n : m[k] \in S
      BY <2>1
    <3> QED BY <3>1, SubSeqProperties
  <2>4. SubSeq(m, 1, n) \in [1 .. n -> S]
    BY <2>3, LenProperties
  <2> QED BY <2>2, <2>3, <2>4 DEF Ones
<1>7. Printed(FALSE, f) = SubSeq(s, 1, n) /\ Printed(TRUE, f) = SubSeq(m, 1, n)
  BY <1>2 DEF Printed, InMemory, s, o
<1> QED BY <1>5, <1>6, <1>7

\* What validate_widths() lets through.
LEMMA WidthsValid ==
  ASSUME NEW addr \in 0 .. Word - 1, NEW amod \in Int, NEW dmod \in Int, NEW count \in 1 .. 2,
         ValidWidths(addr, amod, dmod, count)
  PROVE  /\ dmod \div 8 \in {1, 2, 4}
         /\ addr + count * (dmod \div 8) < Word => addr + count * (dmod \div 8) <= LastOf(SpaceOf(amod))
<1>1. dmod \in {8, 16, 32} /\ amod \in {16, 24, 32}
  BY DEF ValidWidths
<1>2. dmod \div 8 \in {1, 2, 4}
  BY <1>1
<1> DEFINE n == dmod \div 8
<1> HIDE DEF n
<1>3. count * n \in Nat
  BY <1>2 DEF n
<1> DEFINE x == addr + count * n  last == LastOf(SpaceOf(amod))
<1>4. x \in Nat /\ last \in Int
  <2>1. last \in Int
    BY <1>1, WordAssumption DEF LastOf, SpaceOf
  <2> QED BY <1>3, <2>1, WordAssumption
<1>5. x % Word < last
  BY DEF ValidWidths, n
<1> HIDE DEF x, last
<1>6. x < Word => x % Word = x
  BY <1>4, WordAssumption
<1>7. x < Word => x <= last
  BY <1>4, <1>5, <1>6
<1> QED BY <1>2, <1>7 DEF x, last, n

-----------------------------------------------------------------------------
(* What the calls say                                                      *)

\* The parts of AccessExact and FoundExact that concern one thread.
WriteExact(t) ==
  Doing(t, "vmewrite") /\ ~Little =>
    \A p \in DOMAIN ram :
      ram[p] = IF job[t].sent /\ p[1] = SpaceOf(job[t].amod) /\ p[2] \in job[t].addr .. job[t].addr + job[t].n - 1
               THEN job[t].value[4 - job[t].n + (p[2] - job[t].addr + 1)] ELSE job[t].before[p]
ReadExact(t) ==
  Doing(t, "vmeread") /\ job[t].shown # <<>> =>
    /\ job[t].addr + job[t].times * job[t].n < Word =>
         job[t].addr + job[t].times * job[t].n <= LastOf(SpaceOf(job[t].amod))
    /\ ~Little => \A i \in 1 .. job[t].times :
         Probe(SpaceOf(job[t].amod), job[t].addr + (i - 1) * job[t].n, job[t].n) =>
           job[t].shown[i] = Held(SpaceOf(job[t].amod), job[t].addr + (i - 1) * job[t].n, job[t].n)
    /\ Little /\ job[t].n < 4 => \A i \in 1 .. job[t].times : job[t].shown[i] = Ones(job[t].n)
SlotExact(t) ==
  Doing(t, "slot") => job[t].slot \in Int /\ job[t].answer = TestSlot(job[t].devs, job[t].slot)

AnswerInv == \A t \in Threads : WriteExact(t) /\ ReadExact(t) /\ SlotExact(t)

LEMMA AccessParts == AccessExact <=> \A t \in Threads : WriteExact(t) /\ ReadExact(t)
BY DEF AccessExact, WriteExact, ReadExact

\* A step that does not write to the memory keeps what the other calls found.
LEMMA AnswersStay ==
  ASSUME AnswerInv, NEW t \in Threads, UNCHANGED <<ram, build>>, job'[t] = job[t]
  PROVE  WriteExact(t)' /\ ReadExact(t)' /\ SlotExact(t)'
<1>1. ram' = ram /\ build' = build /\ (Little' <=> Little) /\ job'[t] = job[t]
  BY DEF Little
<1>2. \A space, a, n : Held(space, a, n)' = Held(space, a, n)
  BY <1>1 DEF Held
<1>3. WriteExact(t)'
  BY <1>1 DEF AnswerInv, WriteExact, Doing
<1>4. ReadExact(t)'
  BY <1>1, <1>2 DEF AnswerInv, ReadExact, Doing
<1>5. SlotExact(t)'
  BY <1>1 DEF AnswerInv, SlotExact, Doing
<1> QED BY <1>3, <1>4, <1>5

LEMMA NoAnswer ==
  ASSUME NEW t \in Threads, job'[t].op \notin {"vmewrite", "vmeread", "slot"}
  PROVE  WriteExact(t)' /\ ReadExact(t)' /\ SlotExact(t)'
BY DEF WriteExact, ReadExact, SlotExact, Doing

LEMMA ReadAnswer ==
  ASSUME RestInv, NEW t \in Threads, NEW a \in Accesses, NEW count \in 0 .. 2, VmeRead(t, a[1], a[2], a[3], count)
  PROVE  ReadExact(t)' /\ job'[t].op = "vmeread" /\ UNCHANGED <<ram, build>>
<1> DEFINE times == IF count < 1 THEN 1 ELSE count
           n == a[3] \div 8
           space == SpaceOf(a[2])
           shown == IF ValidWidths(a[1], a[2], a[3], times)
                    THEN [i \in 1 .. times |-> ReadOne(space, a[1] + (i - 1) * n, n)]
                    ELSE <<>>
<1>1. /\ Moves(t) /\ UNCHANGED <<ram, build>>
      /\ job'[t] = [op |-> "vmeread", addr |-> a[1], amod |-> a[2], n |-> n, times |-> times, shown |-> shown]
  BY BeginMoves DEF VmeRead, RestInv, csrVars, Begin
<1>2. a[1] \in 0 .. Word - 1 /\ a[2] \in Int /\ a[3] \in Int /\ times \in 1 .. 2
  BY AccessAssumption
<1>3. ASSUME shown # <<>>
      PROVE  /\ n \in {1, 2, 4} /\ (a[1] + times * n < Word => a[1] + times * n <= LastOf(space))
             /\ \A i \in 1 .. times : shown[i] = ReadOne(space, a[1] + (i - 1) * n, n)
  <2>1. ValidWidths(a[1], a[2], a[3], times)
    BY <1>3
  <2> HIDE DEF times
  <2>2. n \in {1, 2, 4} /\ (a[1] + times * n < Word => a[1] + times * n <= LastOf(space))
    BY <1>2, <2>1, WidthsValid
  <2>3. shown = [i \in 1 .. times |-> ReadOne(space, a[1] + (i - 1) * n, n)]
    BY <2>1
  <2> QED BY <2>2, <2>3
<1> HIDE DEF times, n, space, shown
<1>4. ASSUME n \in {1, 2, 4}, NEW addr
      PROVE  /\ ~Little /\ Probe(space, addr, n) => ReadOne(space, addr, n) = Held(space, addr, n)
             /\ Little /\ n < 4 => ReadOne(space, addr, n) = Ones(n)
  <2> DEFINE f == IF Probe(space, addr, n) THEN Held(space, addr, n) ELSE Ones(n)
  <2>1. f = [i \in 1 .. n |-> f[i]]
    BY DEF Held, Ones
  <2>2. ReadOne(space, addr, n) = Printed(Little, f)
    BY DEF ReadOne
  <2>3. Little \in BOOLEAN
    BY DEF Little
  <2>4. Probe(space, addr, n) => f = Held(space, addr, n)
    OBVIOUS
  <2> HIDE DEF f
  <2>5. Printed(FALSE, f) = f /\ (n < 4 => Printed(TRUE, f) = Ones(n))
    BY <1>4, <2>1, PrintedBytes
  <2>6. (Little => Printed(Little, f) = Printed(TRUE, f)) /\ (~Little => Printed(Little, f) = Printed(FALSE, f))
    BY <2>3
  <2> QED BY <2>2, <2>4, <2>5, <2>6
<1>5. ReadExact(t)'
  <2>1. Little' <=> Little
    BY <1>1 DEF Little
  <2>2. \A b : Held(space, b, n)' = Held(space, b, n)
    BY <1>1 DEF Held
  <2>3. ASSUME shown # <<>>
        PROVE  /\ a[1] + times * n < Word => a[1] + times * n <= LastOf(space)
               /\ ~Little' => \A i \in 1 .. times :
                    Probe(space, a[1] + (i - 1) * n, n) =>
                      shown[i] = Held(space, a[1] + (i - 1) * n, n)'
               /\ Little' /\ n < 4 => \A i \in 1 .. times : shown[i] = Ones(n)
    BY <1>3, <1>4, <2>1, <2>2, <2>3
  <2>4. /\ job'[t].shown = shown /\ job'[t].addr = a[1] /\ job'[t].times = times /\ job'[t].n = n
        /\ SpaceOf(job'[t].amod) = space
    BY <1>1 DEF space
  <2> QED BY <2>3, <2>4 DEF ReadExact
<1> QED BY <1>1, <1>5

LEMMA WriteAnswer ==
  ASSUME RestInv, NEW t \in Threads, NEW a \in Accesses, VmeWrite(t, a[1], a[2], a[3], <<1, 2, 3, 4>>)
  PROVE  WriteExact(t)' /\ job'[t].op = "vmewrite" /\ ram' \in [DOMAIN Blank -> Byte]
<1> DEFINE v == <<1, 2, 3, 4>>
           n == a[3] \div 8
           sent == ValidWidths(a[1], a[2], a[3], 1) /\ Probe(SpaceOf(a[2]), a[1], n)
           bytes == Stored(Little, v, n)
           Into(p) == p[1] = SpaceOf(a[2]) /\ p[2] \in a[1] .. a[1] + n - 1
<1>1. /\ Moves(t)
      /\ job'[t] = [op |-> "vmewrite", addr |-> a[1], amod |-> a[2], n |-> n, value |-> v, sent |-> sent, before |-> ram]
  BY BeginMoves DEF VmeWrite, RestInv
<1>2. ram' = IF ~sent THEN ram ELSE [p \in DOMAIN ram |-> IF Into(p) THEN bytes[p[2] - a[1] + 1] ELSE ram[p]]
  BY DEF VmeWrite
<1>3. v \in Bytes(4)
  <2>1. v \in [1 .. 4 -> {1, 2, 3, 4}]
    OBVIOUS
  <2> QED BY <2>1 DEF Bytes, Byte
<1>4. a[1] \in 0 .. Word - 1 /\ a[2] \in Int /\ a[3] \in Int /\ a[1] \in Int
  BY AccessAssumption, WordAssumption
<1>5. sent => n \in {1, 2, 4}
  <2>1. 1 \in 1 .. 2
    OBVIOUS
  <2> QED BY <1>4, <2>1, WidthsValid
<1>6. ram \in [DOMAIN Blank -> Byte] /\ Little \in BOOLEAN
  BY DEF RestInv, TypeOK, Little
<1> HIDE DEF v
<1>7. sent => \A k \in 1 .. n : bytes[k] \in Byte /\ (~Little => bytes[k] = v[4 - n + k])
  <2> HIDE DEF n
  <2> QED BY <1>3, <1>5, <1>6, StoredBytes
<1> HIDE DEF n, sent, bytes
<1>8. \A p \in DOMAIN Blank : sent /\ Into(p) => p[2] - a[1] + 1 \in 1 .. n
  BY <1>4, <1>5
<1>9. ram' \in [DOMAIN Blank -> Byte]
  <2> DEFINE new == [p \in DOMAIN ram |-> IF Into(p) THEN bytes[p[2] - a[1] + 1] ELSE ram[p]]
  <2>1. sent => new \in [DOMAIN Blank -> Byte]
    <3>1. DOMAIN ram = DOMAIN Blank /\ \A p \in DOMAIN Blank : ram[p] \in Byte
      BY <1>6
    <3>2. \A p \in DOMAIN Blank : sent /\ Into(p) => bytes[p[2] - a[1] + 1] \in Byte
      BY <1>7, <1>8
    <3> HIDE DEF Into
    <3> QED BY <3>1, <3>2
  <2> QED BY <1>2, <1>6, <2>1
<1>10. DOMAIN ram' = DOMAIN ram
  BY <1>6, <1>9
<1>11. ASSUME ~Little, NEW p \in DOMAIN ram
       PROVE  ram'[p] = IF sent /\ Into(p) THEN v[4 - n + (p[2] - a[1] + 1)] ELSE ram[p]
  <2>1. sent /\ Into(p) => bytes[p[2] - a[1] + 1] = v[4 - n + (p[2] - a[1] + 1)]
    BY <1>6, <1>7, <1>8, <1>11
  <2> HIDE DEF Into
  <2> QED BY <1>2, <2>1
<1>12. WriteExact(t)'
  <2>1. /\ job'[t].sent = sent /\ job'[t].addr = a[1] /\ job'[t].n = n /\ job'[t].amod = a[2]
        /\ job'[t].value = v /\ job'[t].before = ram
    BY <1>1
  <2>2. Little' <=> Little
    BY <1>1 DEF Moves, Little
  <2> QED BY <1>10, <1>11, <2>1, <2>2 DEF WriteExact
<1> QED BY <1>1, <1>9, <1>12

LEMMA AnswerKeeps ==
  ASSUME RestInv, AnswerInv, [Next]_vars
  PROVE  AnswerInv'
<1> USE DEF csrVars
<1>1. CASE UNCHANGED vars
  BY <1>1, AnswersStay DEF vars, AnswerInv
<1>2. ASSUME NEW v \in Vectors, Interrupt(v)
      PROVE  AnswerInv'
  BY <1>2, AnswersStay DEF Interrupt, AnswerInv
<1>3. ASSUME NEW t \in Threads, Moves(t), UNCHANGED ram, WriteExact(t)', ReadExact(t)', SlotExact(t)'
      PROVE  AnswerInv'
  <2>1. build' = build /\ \A u \in Threads \ {t} : job'[u] = job[u]
    BY <1>3, OthersStay DEF RestInv, Moves
  <2> QED BY <1>3, <2>1, AnswersStay DEF AnswerInv
<1>4. ASSUME NEW t \in Threads, Aside(t), UNCHANGED ram, pc'[t] # "answered"
      PROVE  AnswerInv'
  <2>1. Moves(t) /\ job'[t].op \notin {"vmewrite", "vmeread", "slot"}
    BY <1>4 DEF Aside, CallInv
  <2> QED BY <1>3, <1>4, <2>1, NoAnswer
<1>5. ASSUME NEW t \in Threads, Vector(t) \/ Shell(t)
      PROVE  AnswerInv'
  <2>1. Aside(t) /\ UNCHANGED ram
    BY <1>5, VectorAside
  <2>2. pc'[t] # "answered"
    <3>1. CASE \E at \in AtVector \cup {"idle"} : \E j : Begin(t, at, j)
      BY <3>1, BeginMoves DEF RestInv, AtVector
    <3>2. CASE \E at \in AtVector : Go(t, at)
      BY <3>2, GoMoves DEF RestInv, AtVector
    <3>3. CASE Return(t)
      BY <3>3, ReturnMoves DEF RestInv
    <3>4. CASE Vector(t)
      <4>1. CASE \E v \in Vectors : ConnectStart(t, v) \/ DisconnectTest(t, v)
        BY <3>1, <4>1 DEF ConnectStart, DisconnectTest, AtVector
      <4>2. CASE ConnectTest(t) \/ ConnectInstall(t) \/ InstallFails(t)
        BY <3>2, <3>3, <4>2 DEF ConnectTest, ConnectInstall, InstallFails, AtVector
      <4>3. CASE Remove(t) \/ Restore(t) \/ RemoveFails(t)
        BY <3>2, <3>3, <4>3 DEF Remove, Restore, RemoveFails, AtVector
      <4> QED BY <3>4, <4>1, <4>2, <4>3 DEF Vector
    <3>5. CASE Shell(t)
      <4>1. CASE AttachMark(t)
        BY <3>2, <4>1 DEF AttachMark, AtVector
      <4>2. ASSUME NEW v \in Vectors, NEW l \in Requests, NEW kind, AttachTest(t, v, l, kind)
            PROVE  pc'[t] # "answered"
        BY <3>1, <4>2 DEF AttachTest, AtVector
      <4>3. ASSUME NEW l \in Requests, EnableLevel(t, l) \/ DisableLevel(t, l)
            PROVE  pc'[t] # "answered"
        BY <3>1, <4>3 DEF EnableLevel, DisableLevel
      <4> QED BY <3>5, <4>1, <4>2, <4>3 DEF Shell
    <3> QED BY <1>5, <3>4, <3>5
  <2> QED BY <1>4, <2>1, <2>2
<1>6. ASSUME NEW t \in Threads, NEW a \in Accesses, NEW count \in 0 .. 2, VmeRead(t, a[1], a[2], a[3], count)
      PROVE  AnswerInv'
  <2>1. Moves(t)
    BY <1>6, BeginMoves DEF VmeRead, RestInv
  <2>2. ReadExact(t)' /\ job'[t].op = "vmeread" /\ UNCHANGED ram
    BY <1>6, ReadAnswer
  <2>3. WriteExact(t)' /\ SlotExact(t)'
    BY <2>2 DEF WriteExact, SlotExact, Doing
  <2> QED BY <1>3, <2>1, <2>2, <2>3
<1>7. ASSUME NEW t \in Threads, NEW a \in Accesses, VmeWrite(t, a[1], a[2], a[3], <<1, 2, 3, 4>>)
      PROVE  AnswerInv'
  <2>1. Moves(t) /\ \A u \in Threads \ {t} : job'[u] = job[u]
    BY <1>7, BeginMoves, OthersStay DEF VmeWrite, RestInv
  <2>2. \A u \in Threads : job[u].op = "none"
    BY <1>7 DEF VmeWrite, Alone, RestInv, TypeOK
  <2>3. WriteExact(t)' /\ job'[t].op = "vmewrite"
    BY <1>7, WriteAnswer
  <2>4. ReadExact(t)' /\ SlotExact(t)'
    BY <2>3 DEF ReadExact, SlotExact, Doing
  <2>5. \A u \in Threads \ {t} : WriteExact(u)' /\ ReadExact(u)' /\ SlotExact(u)'
    BY <2>1, <2>2, NoAnswer
  <2> QED BY <2>3, <2>4, <2>5 DEF AnswerInv
<1>8. ASSUME NEW t \in Threads, Answer(t)
      PROVE  AnswerInv'
  <2>1. Moves(t) /\ job'[t] = Idle /\ UNCHANGED ram
    BY <1>8, ReturnMoves DEF Answer, RestInv
  <2> QED BY <1>3, <2>1, NoAnswer DEF Idle
<1>9. ASSUME NEW t \in Threads, NEW slot \in Slots, NEW devs \in DevLists, Test(t, slot, devs)
      PROVE  AnswerInv'
  <2>1. /\ Moves(t) /\ UNCHANGED ram
        /\ job'[t] = [op |-> "slot", slot |-> slot, devs |-> devs, answer |-> TestSlot(devs, slot)]
    BY <1>9, BeginMoves DEF Test, RestInv
  <2>2. SlotExact(t)'
    BY <2>1, SlotAssumption DEF SlotExact
  <2>3. WriteExact(t)' /\ ReadExact(t)'
    BY <2>1 DEF WriteExact, ReadExact, Doing
  <2> QED BY <1>3, <2>1, <2>2, <2>3
<1>10. ASSUME NEW t \in Threads, NEW n \in Functions, NEW w \in Windows, BaseStart(t, n, w)
       PROVE  AnswerInv'
  <2>1. Moves(t) /\ job'[t].op = "base" /\ UNCHANGED ram
    BY <1>10, BeginMoves DEF BaseStart, RestInv
  <2> QED BY <1>3, <2>1, NoAnswer
<1>11. ASSUME NEW t \in Threads, NEW i \in 1 .. 4, WriteByte(t, i)
       PROVE  AnswerInv'
  <2>1. UNCHANGED ram /\ (Go(t, ByteStep[i + 1]) \/ Return(t)) /\ pc[t] \in ByteSteps
    BY <1>11 DEF WriteByte, ByteStep, ByteSteps
  <2>2. Moves(t) /\ job'[t].op \in {"base", "none"}
    BY <2>1, GoMoves, ReturnMoves DEF RestInv, CallInv, Idle
  <2> QED BY <1>3, <2>1, <2>2, NoAnswer
<1> QED BY <1>1, <1>2, <1>5, <1>6, <1>7, <1>8, <1>9, <1>10, <1>11 DEF Next, Operator, Card

-----------------------------------------------------------------------------
(* All of it                                                               *)

LEMMA RestKeeps ==
  ASSUME RestInv, [Next]_vars
  PROVE  RestInv'
<1>1. VectorInv'
  BY NextKeeps DEF RestInv
<1>2. ASSUME enabled' \subseteq 1 .. 7, regs' \in [ADERs -> Byte], ram' \in [DOMAIN Blank -> Byte],
             calls' \in 0 .. MaxCalls, \A u \in Threads : IdleInv(u)' /\ CallInv(u)', RegisterInv'
      PROVE  RestInv'
  BY <1>1, <1>2 DEF RestInv, TypeOK, IdleInv
<1>3. /\ enabled \subseteq 1 .. 7 /\ regs \in [ADERs -> Byte] /\ ram \in [DOMAIN Blank -> Byte]
      /\ calls \in 0 .. MaxCalls
  BY DEF RestInv, TypeOK
<1>4. ASSUME UNCHANGED <<pc, job, calls, csrVars>>, enabled' \subseteq 1 .. 7
      PROVE  RestInv'
  <2>1. pc' = pc /\ job' = job /\ calls' = calls /\ regs' = regs /\ asked' = asked /\ mixed' = mixed /\ ram' = ram
    BY <1>4 DEF csrVars
  <2>2. \A u \in Threads : IdleInv(u)' /\ CallInv(u)'
    BY <2>1 DEF RestInv, TypeOK, IdleInv, CallInv
  <2>3. RegisterInv'
    BY <2>1 DEF RestInv, RegisterInv, Doing
  <2> QED BY <1>2, <1>3, <1>4, <2>1, <2>2, <2>3
<1>5. CASE UNCHANGED vars
  BY <1>3, <1>4, <1>5 DEF vars, irqVars
<1>6. ASSUME NEW v \in Vectors, Interrupt(v)
      PROVE  RestInv'
  BY <1>3, <1>4, <1>6 DEF Interrupt
<1>7. ASSUME NEW t \in Threads, Aside(t), enabled' \subseteq 1 .. 7, ram' \in [DOMAIN Blank -> Byte]
      PROVE  RestInv'
  <2>1. (\A u \in Threads : IdleInv(u)' /\ CallInv(u)') /\ RegisterInv'
    BY <1>7, AsideKeeps
  <2>2. regs' \in [ADERs -> Byte] /\ calls' \in 0 .. MaxCalls
    BY <1>3, <1>7 DEF Aside
  <2> QED BY <1>2, <1>7, <2>1, <2>2
<1>8. ASSUME NEW t \in Threads, Vector(t) \/ Shell(t)
      PROVE  RestInv'
  BY <1>3, <1>7, <1>8, VectorAside
<1>9. ASSUME NEW t \in Threads, Operator(t) \/ \E slot \in Slots, devs \in DevLists : Test(t, slot, devs)
      PROVE  RestInv'
  <2>1. Aside(t) /\ enabled' \subseteq 1 .. 7
    BY <1>3, <1>9, OperatorAside DEF irqVars
  <2>2. ram' \in [DOMAIN Blank -> Byte]
    <3>1. CASE \E a \in Accesses : VmeWrite(t, a[1], a[2], a[3], <<1, 2, 3, 4>>)
      BY <3>1, WriteAnswer
    <3>2. CASE ~\E a \in Accesses : VmeWrite(t, a[1], a[2], a[3], <<1, 2, 3, 4>>)
      BY <1>3, <1>9, <3>2 DEF Operator, VmeRead, Answer, Test, csrVars
    <3> QED BY <3>1, <3>2
  <2> QED BY <1>7, <2>1, <2>2
<1>10. ASSUME NEW t \in Threads, NEW n \in Functions, NEW w \in Windows, BaseStart(t, n, w)
       PROVE  RestInv'
  <2>1. UNCHANGED <<enabled, regs, ram>>
    BY <1>10 DEF BaseStart, irqVars
  <2> QED BY <1>2, <1>3, <1>10, <2>1, BaseStartKeeps
<1>11. ASSUME NEW t \in Threads, NEW i \in 1 .. 4, WriteByte(t, i)
       PROVE  RestInv'
  <2>1. UNCHANGED <<enabled, ram>>
    BY <1>11 DEF WriteByte, irqVars
  <2> QED BY <1>2, <1>3, <1>11, <2>1, WriteByteKeeps
<1> QED BY <1>5, <1>6, <1>8, <1>9, <1>10, <1>11 DEF Next, Card

LEMMA RestInit == Init => RestInv /\ AnswerInv
<1> SUFFICES ASSUME Init PROVE RestInv /\ AnswerInv
  OBVIOUS
<1>1. VectorInv
  BY InitHolds
<1>2. \A t \in Threads : pc[t] = "idle" /\ job[t] = Idle
  BY DEF Init
<1>3. TypeOK
  <2>1. 0 \in Byte
    BY DEF Byte
  <2>2. ram \in [DOMAIN Blank -> Byte]
    BY <2>1 DEF Init, Blank
  <2> QED BY <1>2, <2>1, <2>2, CallsAssumption DEF Init, TypeOK, Idle
<1>4. \A t \in Threads : CallInv(t)
  BY <1>2 DEF CallInv, Idle, ByteSteps
<1>5. RegisterInv
  <2>1. \A n \in Places, i \in 1 .. 4 : regs[ADERAt(n, i)] = 0 /\ asked[n] = <<>>
    BY DEF Init, ADERs
  <2>2. asked \in [Places -> Windows \cup {<<>>}] /\ mixed \subseteq Places
    BY DEF Init
  <2>3. \A t \in Threads : ~Doing(t, "base")
    BY <1>2 DEF Doing, Idle
  <2> QED BY <2>1, <2>2, <2>3 DEF RegisterInv
<1>6. AnswerInv
  BY <1>2 DEF AnswerInv, WriteExact, ReadExact, SlotExact, Doing, Idle
<1> QED BY <1>1, <1>3, <1>4, <1>5, <1>6 DEF RestInv

\* The types, the vector table, and the registers of a card between any two bytes
\* that CSRSetBase() writes to them.
THEOREM CrateSound == Spec => []IInv
<1>1. Init => RestInv
  BY RestInit
<1>2. RestInv /\ [Next]_vars => RestInv'
  BY RestKeeps
<1>3. RestInv => IInv
  BY RestIsAll
<1> QED BY <1>1, <1>2, <1>3, PTL DEF Spec

LEMMA BaseIs ==
  ASSUME RestInv
  PROVE  BaseExact
<1> SUFFICES ASSUME NEW n \in Places \ mixed, \A t \in Threads : ~(Doing(t, "base") /\ job[t].n = n)
             PROVE  IF asked[n] = <<>> \/ n > MaxFunction THEN ADER(regs, n) = <<0, 0, 0, 0>>
                    ELSE /\ SubSeq(ADER(regs, n), 1, 3) = SubSeq(asked[n][1], 1, 3)
                         /\ ADER(regs, n)[4] \div 4 = asked[n][2] % 64
                         /\ ADER(regs, n)[4] % 4 = 0
  BY DEF BaseExact
<1> DEFINE r == ADER(regs, n)
<1>1. /\ \A i \in 1 .. 4 : r[i] = IF asked[n] = <<>> THEN 0 ELSE CSRADER(asked[n][1], asked[n][2])[i]
      /\ asked[n] # <<>> => n <= MaxFunction /\ asked[n] \in Windows
      /\ n \in Int
  BY DEF RestInv, RegisterInv, ADER, Places
<1>2. r = [i \in 1 .. 4 |-> r[i]]
  BY DEF ADER
<1> HIDE DEF r
<1>3. CASE asked[n] = <<>>
  <2>1. r = [i \in 1 .. 4 |-> 0]
    BY <1>1, <1>2, <1>3
  <2>2. <<0, 0, 0, 0>> = [i \in 1 .. 4 |-> 0]
    OBVIOUS
  <2> QED BY <1>3, <2>1, <2>2 DEF r
<1>4. CASE asked[n] # <<>>
  <2> DEFINE w == asked[n]
  <2>1. w \in Windows /\ ~(n > MaxFunction)
    BY <1>1, <1>4 DEF MaxFunction
  <2>2. w[1] \in [1 .. 4 -> Byte] /\ w[2] \in Byte
    BY <2>1, WindowAssumption DEF Bytes
  <2>3. \A k \in 1 .. 3 : r[k] = w[1][k]
    BY <1>1, <1>4, <2>1, WindowBytes
  <2>4. r[4] = (w[2] % 64) * 4
    BY <1>1, <1>4, <2>1, WindowBytes
  <2> DEFINE a == w[1]  m == w[2] % 64
  <2>5. m \in 0 .. 63
    BY <2>2 DEF Byte
  <2> HIDE DEF w
  <2>6. r[4] \div 4 = m /\ r[4] % 4 = 0
    <3> HIDE DEF m
    <3>1. r[4] = m * 4
      BY <2>4 DEF m
    <3> QED BY <2>5, <3>1
  <2>7. SubSeq(r, 1, 3) = SubSeq(a, 1, 3)
    <3>1. \A k \in 1 .. 3 : a[k] \in Byte /\ r[k] = a[k]
      BY <2>2, <2>3
    <3> HIDE DEF a
    <3>2. /\ SubSeq(r, 1, 3) \in Seq(Byte) /\ Len(SubSeq(r, 1, 3)) = 3
          /\ \A k \in 1 .. 3 : SubSeq(r, 1, 3)[k] = r[k]
      <4>1. \A k \in 1 .. 3 : r[k] \in Byte
        BY <3>1
      <4> QED BY <4>1, SubSeqProperties
    <3>3. /\ SubSeq(a, 1, 3) \in Seq(Byte) /\ Len(SubSeq(a, 1, 3)) = 3
          /\ \A k \in 1 .. 3 : SubSeq(a, 1, 3)[k] = a[k]
      <4>1. \A k \in 1 .. 3 : a[k] \in Byte
        BY <3>1
      <4> QED BY <4>1, SubSeqProperties
    <3>4. SubSeq(r, 1, 3) \in [1 .. 3 -> Byte] /\ SubSeq(a, 1, 3) \in [1 .. 3 -> Byte]
      BY <3>2, <3>3, LenProperties
    <3> QED BY <3>1, <3>2, <3>3, <3>4
  <2> QED BY <1>4, <2>1, <2>6, <2>7 DEF r, w
<1> QED BY <1>3, <1>4

LEMMA FoundIs ==
  ASSUME AnswerInv
  PROVE  FoundExact
<1> SUFFICES ASSUME NEW t \in Threads, Doing(t, "slot")
             PROVE  LET s == job[t].slot IN
                    IF s \in 0 .. SlotMax /\ s \in DOMAIN Cards /\ MapAddr("CSR", CSRSlotBase(s)) /\ Cards[s].ascii = <<67, 82>>
                    THEN LET id == [vendor |-> <<0>> \o Cards[s].vendor,
                                    board |-> Cards[s].board, revision |-> Cards[s].revision]
                         IN job[t].answer = IF \E e \in Entries(job[t].devs) : Names(e, id) THEN id ELSE NotFound
                    ELSE job[t].answer = NotFound
  BY DEF FoundExact
<1>1. job[t].slot \in Int /\ job[t].answer = TestSlot(job[t].devs, job[t].slot)
  BY DEF AnswerInv, SlotExact
<1> QED BY <1>1, AnswerIs

\* devCSRTestSlot() names the card that is in the slot, a register that nobody
\* is setting holds what was asked for, and operators see and change the bytes
\* at the addresses they type, for any crate, CPU, caller and window.
THEOREM BusIsTold == Spec => []CsrExact
<1>1. Init => RestInv /\ AnswerInv
  BY RestInit
<1>2. RestInv /\ AnswerInv /\ [Next]_vars => RestInv' /\ AnswerInv'
  BY RestKeeps, AnswerKeeps
<1>3. RestInv /\ AnswerInv => CsrExact
  BY BaseIs, FoundIs, AccessParts DEF CsrExact, AnswerInv
<1> QED BY <1>1, <1>2, <1>3, PTL DEF Spec
=============================================================================
