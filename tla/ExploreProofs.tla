----------------------------- MODULE ExploreProofs -----------------------------
(***************************************************************************)
(* Proofs about the two device supports of the Explore application.        *)
(*                                                                         *)
(* ExploreIrq, for any set of priorities, any width of the counters and    *)
(* any number of interrupts: the handler never has more than one request   *)
(* at a time in a callback queue, a queued interrupt is never forgotten,   *)
(* and no interrupt is counted twice or not at all.                        *)
(*                                                                         *)
(* ExploreReg, for every BAR, link, array, step, mask, byte order and CPU: *)
(* the types, the records that leave the BAR and why (RecordsSound); what  *)
(* a record that reads shows (ShowsTheBar); and what a record that writes  *)
(* leaves in the register, whoever else writes there (FieldsKept).         *)
(***************************************************************************)
EXTENDS ExploreIrq, ExploreReg, Integers, FiniteSetTheorems, TLAPS

-----------------------------------------------------------------------------
(* ExploreIrq                                                              *)

\* What a new scan request does to wait_for and to the callback queues.
LEMMA DoScanExact ==
  ASSUME IrqTypeOK, DoScan
  PROVE  /\ waitFor' \in SUBSET Prios /\ disturbed' \in BOOLEAN
         /\ requests' \in [Prios -> Nat]
         /\ \A p \in Prios : requests'[p] = requests[p] + IF p \in waitFor' THEN 1 ELSE 0
<1>1. waitFor' \in SUBSET Prios /\ disturbed' \in BOOLEAN
  BY PriosAssumption DEF IrqTypeOK, DoScan, ScanIoRequest
<1> QED
  BY <1>1 DEF IrqTypeOK, DoScan

\* A counter stays within its width.
LEMMA IncrementType ==
  ASSUME NEW n \in Nat
  PROVE  Increment(n) \in 0 .. Modulo - 1
BY ModuloAssumption DEF Increment

\* Zero is a value of a counter, and the values are natural numbers.
LEMMA ZeroType == 0 \in 0 .. Modulo - 1 /\ 0 .. Modulo - 1 \subseteq Nat
BY ModuloAssumption

\* read_irq() leaves every variable it touches within its type.
LEMMA ReadIrqType ==
  ASSUME IrqTypeOK, ReadIrq
  PROVE  /\ shown' \in 0 .. Modulo - 1 /\ lost' \in 0 .. Modulo - 1
         /\ reported' \in Nat /\ unseen' \in BOOLEAN
<1>1. CASE UNCHANGED <<lost, reported>>
  BY <1>1 DEF IrqTypeOK, ReadIrq
<1>2. CASE lost' = 0 /\ reported' = reported + lost
  <2>1. lost \in Nat /\ reported \in Nat
    BY ZeroType DEF IrqTypeOK
  <2>2. shown' \in 0 .. Modulo - 1 /\ lost' \in 0 .. Modulo - 1 /\ reported' \in Nat
    BY <1>2, <2>1, ZeroType DEF IrqTypeOK, ReadIrq
  <2> QED
    BY <2>2 DEF ReadIrq
<1> QED
  BY <1>1, <1>2 DEF ReadIrq

\* Every action keeps the type invariant.
LEMMA TypeStep ==
  ASSUME IrqTypeOK, [IrqNext]_irqVars
  PROVE  IrqTypeOK'
<1> USE DEF IrqTypeOK, Phases, initVars, iocVars, privVars, scanVars, histVars, countVars
<1>1. CASE InitConnectFails \/ InitConnect \/ InitEnableFails \/ InitDone \/ IsrStop
  BY <1>1 DEF InitConnectFails, InitConnect, InitEnableFails, InitDone, IsrStop
<1>2. CASE ScanRun \/ ScanPause \/ MoveRecord
  BY <1>2 DEF ScanRun, ScanPause, MoveRecord
<1>3. CASE Isrfn
  <2>1. Increment(irqs) \in 0 .. Modulo - 1 /\ Increment(lost) \in 0 .. Modulo - 1
    BY IncrementType
  <2>2. waitFor' \in SUBSET Prios /\ requests' \in [Prios -> Nat] /\ disturbed' \in BOOLEAN
    BY <1>3, DoScanExact DEF Isrfn, IsrLost, IsrCounted
  <2>3. unseen' \in BOOLEAN /\ queued' \in BOOLEAN
    BY <1>3 DEF Isrfn, IsrLost, IsrCounted
  <2> QED
    BY <1>3, <2>1, <2>2, <2>3 DEF Isrfn, IsrLost, IsrCounted
<1>4. CASE ProcessRecord
  BY <1>4, ReadIrqType DEF ProcessRecord
<1>5. ASSUME NEW p \in Prios, ScanRecord(p)
      PROVE  IrqTypeOK'
  BY <1>5, ReadIrqType DEF ScanRecord
<1>6. ASSUME NEW p \in Prios, IrqScanComplete(p)
      PROVE  IrqTypeOK'
  <2>1. /\ waitFor' \in SUBSET Prios /\ requests' \in [Prios -> Nat]
        /\ queued' \in BOOLEAN /\ disturbed' \in BOOLEAN
    BY <1>6, DoScanExact DEF IrqScanComplete, Complete
  <2> QED
    BY <1>6, <2>1 DEF IrqScanComplete
<1>7. CASE UNCHANGED irqVars
  BY <1>7 DEF irqVars
<1> QED
  BY <1>1, <1>2, <1>3, <1>4, <1>5, <1>6, <1>7 DEF IrqNext, CallbackStep

\* The type invariant of the IRQ record holds in every state.
THEOREM IrqTypeCorrect == IrqSpec => []IrqTypeOK
<1>1. IrqInit => IrqTypeOK
  BY ZeroType DEF IrqInit, IrqTypeOK, Phases
<1> QED
  BY <1>1, TypeStep, PTL DEF IrqSpec

\* Every action keeps wait_for equal to what is still outstanding.
LEMMA WaitForStep ==
  ASSUME IrqTypeOK, WaitForExact, [IrqNext]_irqVars
  PROVE  WaitForExact'
<1> USE DEF WaitForExact, Outstanding
<1>0. requests \in [Prios -> Nat] /\ thread \in [Prios -> {"idle", "complete"}]
      /\ waitFor \in SUBSET Prios
  BY DEF IrqTypeOK
<1>1. CASE Isrfn
  <2>1. CASE waitFor # {}
    BY <1>1, <2>1 DEF Isrfn, IsrLost
  <2>2. CASE waitFor = {}
    BY <1>0, <1>1, <2>2, DoScanExact DEF Isrfn, IsrCounted
  <2> QED
    BY <2>1, <2>2
<1>2. ASSUME NEW p \in Prios, ScanRecord(p)
      PROVE  WaitForExact'
  BY <1>0, <1>2 DEF ScanRecord
<1>3. ASSUME NEW p \in Prios, IrqScanComplete(p)
      PROVE  WaitForExact'
  <2>1. /\ thread[p] = "complete" /\ thread' = [thread EXCEPT ![p] = "idle"]
        /\ Complete(p)
    BY <1>3 DEF IrqScanComplete
  <2>2. CASE waitFor \ {p} = {} /\ queued
    <3>1. \A q \in Prios : requests[q] = 0
      BY <1>0, <2>1, <2>2
    <3> QED
      BY <1>0, <2>1, <2>2, <3>1, DoScanExact DEF Complete
  <2>3. CASE ~(waitFor \ {p} = {} /\ queued)
    BY <1>0, <2>1, <2>3 DEF Complete
  <2> QED
    BY <2>2, <2>3
<1>4. CASE UNCHANGED <<waitFor, requests, thread>>
  BY <1>4
<1>5. Isrfn \/ (\E p \in Prios : CallbackStep(p)) \/ UNCHANGED <<waitFor, requests, thread>>
  BY DEF IrqNext, irqVars, InitConnectFails, InitConnect, InitEnableFails, InitDone, IsrStop,
     ScanRun, ScanPause, MoveRecord, ProcessRecord, privVars, scanVars
<1> QED
  BY <1>1, <1>2, <1>3, <1>4, <1>5 DEF CallbackStep

\* priv.wait_for holds exactly the priorities with a request on its way, one
\* request each: no interrupt rate fills a callback queue, and irq_scan_complete()
\* never gets an "extra callback".
THEOREM NoExtraCallback == IrqSpec => []WaitForExact
<1>1. IrqInit => WaitForExact
  BY DEF IrqInit, WaitForExact, Outstanding
<1> QED
  BY <1>1, WaitForStep, IrqTypeCorrect, PTL DEF IrqSpec

\* Whenever an interrupt is left behind in priv.queued a completion is still to
\* come, which starts its scan.
THEOREM QueuedHasCompletion == IrqSpec => []QueuedIsSeen
<1>1. IrqInit => QueuedIsSeen
  BY DEF IrqInit, QueuedIsSeen
<1>2. ASSUME QueuedIsSeen, [IrqNext]_irqVars
      PROVE  QueuedIsSeen'
  <2>1. CASE Isrfn
    BY <1>2, <2>1 DEF QueuedIsSeen, Isrfn, IsrLost, IsrCounted
  <2>2. ASSUME NEW p \in Prios, CallbackStep(p)
        PROVE  QueuedIsSeen'
    BY <1>2, <2>2 DEF QueuedIsSeen, CallbackStep, ScanRecord, IrqScanComplete, Complete
  <2>3. CASE UNCHANGED <<waitFor, queued>>
    BY <1>2, <2>3 DEF QueuedIsSeen
  <2>4. Isrfn \/ (\E p \in Prios : CallbackStep(p)) \/ UNCHANGED <<waitFor, queued>>
    BY <1>2 DEF IrqNext, irqVars, InitConnectFails, InitConnect, InitEnableFails, InitDone, IsrStop,
       ScanRun, ScanPause, MoveRecord, ProcessRecord, privVars
  <2> QED
    BY <2>1, <2>2, <2>3, <2>4
<1> QED
  BY <1>1, <1>2, PTL DEF IrqSpec

-----------------------------------------------------------------------------
(* Congruence modulo the width of the counters.                            *)

\* Two numbers have the same remainder if and only if they differ by a multiple.
LEMMA RemainderOf ==
  ASSUME NEW x \in Int, NEW m \in Nat \ {0}
  PROVE  x % m \in Int /\ x \div m \in Int /\ x = m * (x \div m) + (x % m)
OBVIOUS

LEMMA SameRemainder ==
  ASSUME NEW y \in Int, NEW k \in Int, NEW m \in Nat \ {0}
  PROVE  (y + m * k) % m = y % m
<1> DEFINE x == y + m * k
           d == (x \div m) - (y \div m) - k
<1>1. x \in Int /\ m * k \in Int
  OBVIOUS
<1>2. /\ x % m \in 0 .. m - 1 /\ y % m \in 0 .. m - 1
      /\ x \div m \in Int /\ y \div m \in Int
      /\ x = m * (x \div m) + (x % m) /\ y = m * (y \div m) + (y % m)
  BY <1>1
<1>3. d \in Int /\ (y % m) - (x % m) = m * d
  BY <1>1, <1>2
<1> HIDE DEF x, d
<1>4. (y % m) - (x % m) < m /\ (x % m) - (y % m) < m
  BY <1>2
<1>5. d = 0
  <2>1. CASE d >= 1
    <3>1. m * (d - 1) >= 0 /\ m * (d - 1) = m * d - m
      BY <1>3, <2>1
    <3> QED BY <1>2, <1>3, <1>4, <3>1
  <2>2. CASE d <= -1
    <3>1. m * (-1 - d) >= 0 /\ m * (-1 - d) = -m - m * d
      BY <1>3, <2>2
    <3>2. m * d <= -m
      BY <1>2, <1>3, <3>1
    <3>3. (y % m) - (x % m) <= -m
      BY <1>3, <3>2
    <3> QED BY <1>2, <1>4, <3>3
  <2> QED BY <1>3, <2>1, <2>2
<1>6. x % m = y % m
  BY <1>2, <1>3, <1>5
<1> QED BY <1>6 DEF x

\* An interrupt that is counted moves the sum of the counters and the number of
\* calls to the next class.
LEMMA CountedOnce ==
  ASSUME NEW n \in Int, NEW rest \in Int, NEW c \in Int, (n + rest) % Modulo = c % Modulo
  PROVE  (Increment(n) + rest) % Modulo = (c + 1) % Modulo
<1> DEFINE m == Modulo
<1>0. m \in Nat \ {0}
  BY ModuloAssumption
<1> DEFINE i == (n + 1) \div m  x == (n + rest) \div m  y == c \div m  r == c % m
<1>1. i \in Int /\ x \in Int /\ y \in Int /\ r \in Int /\ Increment(n) \in Int
  BY <1>0, RemainderOf DEF Increment
<1>2. /\ n + 1 = m * i + Increment(n)
      /\ n + rest = m * x + r
      /\ c = m * y + r
  BY <1>0, RemainderOf DEF Increment
<1> HIDE DEF m, i, x, y, r
<1>3. Increment(n) + rest = (c + 1) + m * (x - y - i)
  BY <1>0, <1>1, <1>2
<1>4. ((c + 1) + m * (x - y - i)) % m = (c + 1) % m
  <2>1. c + 1 \in Int /\ x - y - i \in Int
    BY <1>1
  <2> QED BY <1>0, <2>1, SameRemainder, Zenon
<1> QED BY <1>3, <1>4 DEF m

\* Each call of isrfn() is counted as an interrupt or as a lost one, and a report
\* moves lost ones to those that were reported.
LEMMA CountStep ==
  ASSUME IrqTypeOK, IrqTypeOK', EachCallCounted, [IrqNext]_irqVars
  PROVE  EachCallCounted'
<1>0. irqs \in Int /\ lost \in Int /\ reported \in Int /\ calls \in Int
  BY ZeroType DEF IrqTypeOK
<1>1. CASE Isrfn
  <2>1. calls' = calls + 1 /\ reported' = reported
    BY <1>1 DEF Isrfn
  <2>2. CASE lost' = Increment(lost) /\ irqs' = irqs
    <3>1. lost + (irqs + reported) = irqs + lost + reported
      BY <1>0
    <3>2. (Increment(lost) + (irqs + reported)) % Modulo = (calls + 1) % Modulo
      BY <1>0, <3>1, CountedOnce DEF EachCallCounted
    <3>3. lost' \in Int
      BY ZeroType DEF IrqTypeOK
    <3>4. irqs' + lost' + reported' = Increment(lost) + (irqs + reported)
      BY <1>0, <2>1, <2>2, <3>3
    <3> QED BY <2>1, <3>2, <3>4 DEF EachCallCounted
  <2>3. CASE irqs' = Increment(irqs) /\ lost' = lost
    <3>1. irqs + (lost + reported) = irqs + lost + reported
      BY <1>0
    <3>2. (Increment(irqs) + (lost + reported)) % Modulo = (calls + 1) % Modulo
      BY <1>0, <3>1, CountedOnce DEF EachCallCounted
    <3>3. irqs' \in Int
      BY ZeroType DEF IrqTypeOK
    <3>4. irqs' + lost' + reported' = Increment(irqs) + (lost + reported)
      BY <1>0, <2>1, <2>3, <3>3
    <3> QED BY <2>1, <3>2, <3>4 DEF EachCallCounted
  <2> QED BY <1>1, <2>2, <2>3 DEF Isrfn, IsrLost, IsrCounted
<1>2. CASE ReadIrq /\ UNCHANGED <<irqs, calls>>
  <2>1. irqs' + lost' + reported' = irqs + lost + reported
    BY <1>0, <1>2 DEF ReadIrq
  <2> QED BY <1>2, <2>1 DEF EachCallCounted
<1>3. CASE UNCHANGED <<irqs, lost, reported, calls>>
  BY <1>3 DEF EachCallCounted
<1>4. \/ Isrfn
      \/ ReadIrq /\ UNCHANGED <<irqs, calls>>
      \/ UNCHANGED <<irqs, lost, reported, calls>>
  BY DEF IrqNext, irqVars, InitConnectFails, InitConnect, InitEnableFails, InitDone, IsrStop, ScanRun,
     ScanPause, MoveRecord, ProcessRecord, CallbackStep, ScanRecord, IrqScanComplete,
     privVars, histVars, countVars
<1> QED BY <1>1, <1>2, <1>3, <1>4

-----------------------------------------------------------------------------
\* What QuietIsCurrent rests on.  Requests are made while the scan system runs,
\* so an IOC that was not disturbed still runs when one is taken, and the record is
\* where the requests go; a value that is not current has a request that will
\* read it.
ScanIsComing ==
  ~disturbed =>
    /\ \A p \in Prios : requests[p] > 0 => scanning
    /\ scans > 0 => /\ scanning /\ place \in Prios
                    /\ shown = irqs \/ requests[place] > 0

\* A new request.
LEMMA DoScanComes ==
  ASSUME IrqTypeOK, ScanIsComing, DoScan, ~disturbed', scanning' = scanning, place' = place
  PROVE  /\ ~disturbed
         /\ \A p \in Prios : requests'[p] > 0 => scanning'
         /\ \A p \in Prios : requests'[p] >= requests[p]
         /\ scans > 0 => requests'[place] > 0
<1>1. ~disturbed /\ waitFor' = ScanIoRequest
  BY DEF DoScan
<1>2. \A p \in Prios : requests[p] \in Nat
  BY DEF IrqTypeOK
<1>3. \A p \in Prios : requests'[p] = requests[p] + IF p \in ScanIoRequest THEN 1 ELSE 0
  BY <1>1, DoScanExact
<1>4. \A p \in ScanIoRequest : scanning
  BY DEF ScanIoRequest
<1>5. scans > 0 => place \in Prios /\ place \in ScanIoRequest
  BY <1>1, PriosAssumption DEF ScanIsComing, ScanIoRequest
<1> QED BY <1>1, <1>2, <1>3, <1>4, <1>5 DEF ScanIsComing

LEMMA ComingStep ==
  ASSUME IrqTypeOK, IrqTypeOK', ScanIsComing, [IrqNext]_irqVars
  PROVE  ScanIsComing'
<1> SUFFICES ASSUME ~disturbed' PROVE ScanIsComing'
  BY DEF ScanIsComing
<1>1. CASE Isrfn
  <2>1. scanning' = scanning /\ place' = place /\ scans' = scans /\ shown' = shown
    BY <1>1 DEF Isrfn, iocVars
  <2>2. CASE IsrLost
    BY <1>1, <2>1, <2>2 DEF IsrLost, ScanIsComing
  <2>3. CASE DoScan
    BY <2>1, <2>3, DoScanComes DEF ScanIsComing
  <2> QED BY <1>1, <2>2, <2>3 DEF Isrfn, IsrCounted
<1>2. ASSUME NEW p \in Prios, ScanRecord(p) PROVE ScanIsComing'
  <2>1. /\ scanning' = scanning /\ place' = place /\ irqs' = irqs /\ disturbed' = disturbed
        /\ requests[p] > 0 /\ requests' = [requests EXCEPT ![p] = @ - 1]
    BY <1>2 DEF ScanRecord, iocVars
  <2>2. \A q \in Prios : requests[q] \in Nat /\ (requests'[q] > 0 => requests[q] > 0)
    BY <2>1 DEF IrqTypeOK
  <2>3. scanning
    BY <2>1 DEF ScanIsComing
  <2>4. CASE place = p
    <3>1. shown' = irqs
      BY <1>2, <2>4 DEF ScanRecord, ReadIrq
    <3> QED BY <2>1, <2>2, <2>3, <2>4, <3>1 DEF ScanIsComing
  <2>5. CASE place # p
    <3>1. shown' = shown /\ scans' = scans
      BY <1>2, <2>5 DEF ScanRecord
    <3>2. place \in Prios => requests'[place] = requests[place]
      BY <2>1, <2>5 DEF IrqTypeOK
    <3> QED BY <2>1, <2>2, <2>3, <3>1, <3>2 DEF ScanIsComing
  <2> QED BY <2>4, <2>5
<1>3. ASSUME NEW p \in Prios, IrqScanComplete(p) PROVE ScanIsComing'
  <2>1. scanning' = scanning /\ place' = place /\ irqs' = irqs /\ shown' = shown /\ scans' = scans
    BY <1>3 DEF IrqScanComplete, iocVars, countVars
  <2>2. CASE DoScan
    BY <2>1, <2>2, DoScanComes DEF ScanIsComing
  <2>3. CASE UNCHANGED <<requests, disturbed>>
    BY <2>1, <2>3 DEF ScanIsComing
  <2> QED BY <1>3, <2>2, <2>3 DEF IrqScanComplete, Complete
<1>4. CASE ProcessRecord
  BY <1>4 DEF ProcessRecord, ReadIrq, scanVars, iocVars, ScanIsComing
<1>5. CASE ScanRun \/ ScanPause \/ MoveRecord
  BY <1>5 DEF ScanRun, ScanPause, MoveRecord, privVars, scanVars, histVars, countVars, ScanIsComing
<1>6. CASE UNCHANGED <<scanning, place, irqs, requests, shown, scans, disturbed>>
  BY <1>6 DEF ScanIsComing
<1> QED
  BY <1>1, <1>2, <1>3, <1>4, <1>5, <1>6
  DEF IrqNext, CallbackStep, irqVars, InitConnectFails, InitConnect, InitEnableFails, InitDone, IsrStop,
      iocVars, privVars, scanVars, histVars, countVars

\* Every interrupt is counted once, as one or as lost, at every width of the
\* counters; on an IOC that is not disturbed, whenever no scan is on its way the
\* value of the record lacks just the lost ones.
THEOREM CountIsCurrent == IrqSpec => []QuietIsCurrent
<1> DEFINE Inv == IrqTypeOK /\ EachCallCounted /\ ScanIsComing
<1>1. IrqInit => Inv
  <2> SUFFICES ASSUME IrqInit PROVE Inv OBVIOUS
  <2>1. IrqTypeOK
    BY ZeroType DEF IrqInit, IrqTypeOK, Phases
  <2>2. EachCallCounted /\ ScanIsComing
    BY DEF IrqInit, EachCallCounted, ScanIsComing
  <2> QED BY <2>1, <2>2
<1>2. Inv /\ [IrqNext]_irqVars => Inv'
  BY TypeStep, CountStep, ComingStep
<1>3. Inv /\ WaitForExact => QuietIsCurrent
  <2> SUFFICES ASSUME Inv, WaitForExact, waitFor = {}, scans > 0, ~disturbed
               PROVE  (shown + lost + reported) % Modulo = calls % Modulo
    BY DEF QuietIsCurrent
  <2>1. \A p \in Prios : requests[p] = 0
    BY DEF WaitForExact, Outstanding, IrqTypeOK
  <2>2. shown = irqs
    BY <2>1 DEF ScanIsComing
  <2> QED BY <2>2 DEF EachCallCounted
<1> QED BY <1>1, <1>2, <1>3, NoExtraCallback, PTL DEF IrqSpec

-----------------------------------------------------------------------------
(* ExploreReg                                                              *)

LEMMA Division ==
  ASSUME NEW x \in Int, NEW b \in Nat \ {0}, x % b = 0
  PROVE  x \div b \in Int /\ x = b * (x \div b)
OBVIOUS

LEMMA MultipleOf ==
  ASSUME NEW k \in Int, NEW b \in Nat \ {0}
  PROVE  (b * k) % b = 0
OBVIOUS

\* The next multiple is no more than any greater one.
LEMMA NextMultiple ==
  ASSUME NEW x \in Int, NEW y \in Int, NEW b \in Nat \ {0}, x % b = 0, y % b = 0, x < y
  PROVE  x + b <= y
<1> DEFINE i == x \div b  j == y \div b
<1>1. i \in Int /\ j \in Int /\ x = b * i /\ y = b * j
  BY Division
<1>2. i < j
  BY <1>1
<1>3. b * (j - i - 1) >= 0
  BY <1>1, <1>2
<1> QED BY <1>1, <1>3

\* offset + i * step, in words of w, stays a multiple of b.
LEMMA ElementIsMultiple ==
  ASSUME NEW off \in Int, NEW step \in Int, NEW i \in Nat, NEW w \in Nat \ {0}, NEW b \in Nat \ {0},
         off % b = 0, step % b = 0, w % b = 0
  PROVE  (off + ((i * step) % w)) % b = 0 /\ (off + ((i * step) % w)) \in Int
<1> DEFINE x == i * step
<1>1. x \in Int
  OBVIOUS
<1>2. x % b = 0
  <2>1. (b * (i * (step \div b))) % b = 0
    BY Division, MultipleOf
  <2>2. x = b * (i * (step \div b))
    BY Division
  <2> QED BY <2>1, <2>2
<1> HIDE DEF x
<1> DEFINE m == x % w  q == x \div w
<1>3. m \in Int /\ q \in Int /\ x = w * q + m
  BY <1>1
<1> HIDE DEF m, q
<1> DEFINE o == off \div b  y == x \div b  v == w \div b
<1>4. o \in Int /\ y \in Int /\ v \in Int /\ off = b * o /\ x = b * y /\ w = b * v
  BY <1>1, <1>2, Division
<1> HIDE DEF o, y, v
<1>5. o + y - v * q \in Int /\ off + m = b * (o + y - v * q)
  BY <1>3, <1>4
<1>6. (b * (o + y - v * q)) % b = 0
  BY <1>5, MultipleOf
<1>7. (off + m) % b = 0 /\ off + m \in Int
  BY <1>5, <1>6, <1>3
<1> QED BY <1>7 DEF m, x

\* The link of a record that could be initialised.
LEMMA LinkKnown ==
  ASSUME NEW d \in Databases, NEW r \in Records, ~Throws(d[r])
  PROVE  /\ d[r].size \in {1, 2, 4} /\ Wrap % d[r].size = 0
         /\ Options(d[r]).offset \in Nat /\ Options(d[r]).step \in Nat
<1>1. d[r].size \in {1, 2, 4}
  BY DatabasesAssumption DEF Supports
<1>2. Wrap % 1 = 0 /\ Wrap % 2 = 0 /\ Wrap % 4 = 0
  BY SizesAssumption
<1>3. Options(d[r]).offset \in Nat /\ Options(d[r]).step \in Nat
  BY OptionsAssumption, SizesAssumption
<1> QED BY <1>1, <1>2, <1>3

\* readArray(), writeArray(): an element of the loop lies in the BAR if all
\* that its address is made of are multiples of its size.
LEMMA ElementInside ==
  ASSUME NEW d \in Databases, NEW r \in Records, ~Throws(d[r]), NEW i \in Nat,
         Within(Options(d[r]), i),
         \A n \in {Options(d[r]).offset, Options(d[r]).step, BarSize} : n % d[r].size = 0
  PROVE  ~Outside(d[r], Options(d[r]), ElemAddr(Options(d[r]), i))
<1> DEFINE p == Options(d[r])  b == d[r].size  off == p.offset  step == p.step
<1>1. b \in Nat \ {0} /\ Wrap % b = 0 /\ off \in Int /\ step \in Int
  BY LinkKnown
<1>2. off % b = 0 /\ step % b = 0 /\ BarSize % b = 0 /\ BarSize \in Int /\ Wrap \in Nat \ {0}
  BY SizesAssumption
<1>3. (i * step) % Wrap < BarSize - off
  BY DEF Within, ElemAddr
<1> DEFINE at == off + ((i * step) % Wrap)
<1>4. at % b = 0 /\ at \in Int
  BY <1>1, <1>2, ElementIsMultiple, Zenon
<1>5. (i * step) % Wrap \in Int
  BY <1>1, <1>2
<1>6. at < BarSize
  <2> DEFINE m == (i * step) % Wrap
  <2>1. m \in Int /\ m < BarSize - off /\ off \in Int /\ BarSize \in Int
    BY <1>1, <1>2, <1>3, <1>5
  <2>2. at = off + m
    BY DEF at, m
  <2> HIDE DEF m, at, off
  <2> QED BY <2>1, <2>2
<1>7. at + b <= BarSize
  <2> HIDE DEF at
  <2> QED BY <1>1, <1>2, <1>4, <1>6, NextMultiple, Zenon
<1>8. p.offset + ElemAddr(p, i) + d[r].size = at + b
  BY DEF ElemAddr
<1> HIDE DEF at, b, p
<1>9. ~(at + b > BarSize)
  BY <1>1, <1>2, <1>4, <1>7
<1>10. ~Outside(d[r], p, ElemAddr(p, i))
  BY <1>8, <1>9 DEF Outside
<1> QED BY <1>10 DEF p

-----------------------------------------------------------------------------
\* What the proof needs of the state.
BarInv ==
  /\ cpu \in Cpus /\ db \in Databases
  /\ PvtInv /\ InsideBar
  /\ wild \subseteq Records /\ \A r \in wild : status[r] = "ready"
  /\ status = [r \in Records |-> status[r]] /\ pvt = [r \in Records |-> pvt[r]]
  /\ busy = [r \in Records |-> busy[r]]

LEMMA InitHolds == Init => BarInv
BY DEF Init, BarInv, PvtInv, InsideBar, Idle

\* An access of the loops.
LEMMA TouchKeeps ==
  ASSUME BarInv, NEW r \in Records, More(r), Touch(r)
  PROVE  \A q \in wild' : q \in wild \/ (q = r /\ ~(\A n \in {pvt[r].offset, pvt[r].step, BarSize} : n % db[r].size = 0))
<1>1. status[r] = "ready" /\ pvt[r] = Options(db[r]) /\ ~Throws(db[r]) /\ busy[r].i \in Nat /\ db \in Databases
  BY DEF BarInv, PvtInv, More
<1>2. Within(pvt[r], busy[r].i)
  BY DEF More
<1> QED BY <1>1, <1>2, ElementInside DEF Touch

LEMMA ElementsKeep ==
  ASSUME BarInv, NEW r \in Records, ReadElement(r) \/ ReadOld(r) \/ WriteElement(r)
  PROVE  BarInv'
<1>1. More(r) /\ Touch(r) /\ UNCHANGED dbVars
  BY DEF ReadElement, ReadOld, WriteElement
<1>2. /\ busy' = [q \in Records |-> busy'[q]]
      /\ \A q \in Records : busy'[q].on = busy[q].on /\ busy'[q].i \in Nat
  <2> USE DEF BarInv, PvtInv
  <2>1. CASE ReadElement(r)
    BY <2>1 DEF ReadElement
  <2>2. CASE ReadOld(r)
    BY <2>2 DEF ReadOld
  <2>3. CASE WriteElement(r)
    <3> DEFINE b1 == [busy EXCEPT ![r].i = @ + 1]
    <3>1. b1 = [q \in Records |-> b1[q]] /\ \A q \in Records : b1[q].on = busy[q].on /\ b1[q].i \in Nat
      OBVIOUS
    <3>2. busy' = [b1 EXCEPT ![r].old = <<>>]
      BY <2>3 DEF WriteElement
    <3> HIDE DEF b1
    <3> QED BY <3>1, <3>2
  <2> QED BY <2>1, <2>2, <2>3
<1>3. PvtInv'
  BY <1>1, <1>2 DEF BarInv, PvtInv, dbVars, OutOfRange
<1>4. status[r] = "ready"
  BY <1>1 DEF BarInv, PvtInv, More
<1>5. wild' \subseteq Records /\ InsideBar' /\ \A q \in wild' : status'[q] = "ready"
  BY <1>1, <1>4, TouchKeeps DEF BarInv, InsideBar, dbVars
<1> QED BY <1>1, <1>2, <1>3, <1>5 DEF BarInv, dbVars

LEMMA InitRecordKeeps ==
  ASSUME BarInv, NEW r \in Records, InitRecord(r)
  PROVE  BarInv'
<1> DEFINE c == db[r]  p == Options(db[r])
<1>1. /\ status[r] = "new" /\ ~Throws(c) /\ ~OutOfRange(c) /\ UNCHANGED <<cpu, db, busy>>
      /\ status' = [status EXCEPT ![r] = "ready"] /\ pvt' = [pvt EXCEPT ![r] = p]
  BY DEF InitRecord
<1>2. /\ status'[r] = "ready" /\ pvt'[r] = p
      /\ \A q \in Records \ {r} : status'[q] = status[q] /\ pvt'[q] = pvt[q]
      /\ status' = [q \in Records |-> status'[q]] /\ pvt' = [q \in Records |-> pvt'[q]]
  BY <1>1 DEF BarInv
<1>3. PvtInv'
  BY <1>1, <1>2 DEF BarInv, PvtInv, OutOfRange
<1>4. wild' = wild \/ (wild' = wild \cup {r} /\ \E i \in 0 .. c.nelm - 1 : Within(p, i) /\ Outside(c, p, ElemAddr(p, i)))
  BY DEF InitRecord
<1>5. r \in wild' \ wild => ~(\A n \in {p.offset, p.step, BarSize} : n % c.size = 0)
  BY <1>1, <1>4, ElementInside DEF BarInv
<1>6. r \notin wild
  BY <1>1 DEF BarInv
<1>7. wild' \subseteq Records /\ InsideBar' /\ \A q \in wild' : status'[q] = "ready"
  BY <1>1, <1>2, <1>4, <1>5, <1>6 DEF BarInv, InsideBar
<1> QED BY <1>1, <1>2, <1>3, <1>7 DEF BarInv

LEMMA NextKeeps ==
  ASSUME BarInv, [Next]_vars
  PROVE  BarInv'
<1> USE DEF BarInv, PvtInv, InsideBar, OutOfRange, dbVars
<1>1. CASE UNCHANGED vars
  BY <1>1 DEF vars
<1>2. ASSUME NEW r \in Records, InitFails(r)
      PROVE  BarInv'
  BY <1>2 DEF InitFails
<1>3. ASSUME NEW r \in Records, ProcessBadType(r)
      PROVE  BarInv'
  BY <1>3 DEF ProcessBadType
<1>4. ASSUME NEW r \in Records, ReadBegin(r) \/ \E v \in Values : WriteBegin(r, v)
      PROVE  BarInv'
  <2>1. status[r] = "ready" /\ busy' = [busy EXCEPT ![r] = [Idle EXCEPT !.on = TRUE]] /\ UNCHANGED <<dbVars, wild>>
    BY <1>4 DEF ReadBegin, WriteBegin, CanProcess
  <2> QED BY <2>1 DEF Idle
<1>5. ASSUME NEW r \in Records, Finish(r)
      PROVE  BarInv'
  BY <1>5 DEF Finish, Idle
<1> QED BY <1>1, <1>2, <1>3, <1>4, <1>5, InitRecordKeeps, ElementsKeep DEF Next

\* parseLink(), readArray(), writeArray(): only a record with an offset, a step
\* or a BAR that is no multiple of its size leaves the BAR, on every CPU, for
\* arrays of every length, with steps that wrap, and whatever is processed meanwhile.
THEOREM StaysInside == Spec => []InsideBar
<1>1. BarInv /\ [Next]_vars => BarInv'
  BY NextKeeps
<1>2. BarInv => InsideBar
  BY DEF BarInv
<1> QED BY <1>1, <1>2, InitHolds, PTL DEF Spec

-----------------------------------------------------------------------------
(* The bits of a register and the bytes that hold them.                    *)

\* A number is made of its byte and its place there in one way only.
LEMMA PlaceIsUnique ==
  ASSUME NEW m \in Nat \ {0}, NEW q \in Int, NEW b \in 0 .. m - 1
  PROVE  (q * m + b) % m = b /\ (q * m + b) \div m = q
<1> DEFINE n == q * m + b
           d == (n \div m) - q
<1>1. n \in Int /\ q * m \in Int
  OBVIOUS
<1>2. n \div m \in Int /\ n % m \in 0 .. m - 1 /\ n = m * (n \div m) + (n % m)
  BY <1>1
<1>3. d \in Int /\ b - (n % m) = m * d
  BY <1>1, <1>2
<1> DEFINE x == n % m  y == n \div m
<1>4. x \in Int /\ y \in Int /\ 0 <= x /\ x < m /\ d = y - q
  BY <1>2
<1>5. b - x = m * d
  BY <1>3
<1> HIDE DEF n, d, x, y
<1>6. d = 0
  <2>1. CASE d >= 1
    <3>1. m * (d - 1) >= 0 /\ m * (d - 1) = m * d - m
      BY <1>3, <2>1
    <3> QED BY <1>3, <1>4, <1>5, <3>1
  <2>2. CASE d <= -1
    <3>1. m * (-1 - d) >= 0 /\ m * (-1 - d) = -m - m * d
      BY <1>3, <2>2
    <3> QED BY <1>3, <1>4, <1>5, <3>1
  <2> QED BY <1>3, <2>1, <2>2
<1>7. x = b /\ y = q
  <2>1. m * d = 0
    BY <1>6
  <2> QED BY <1>4, <1>5, <1>6, <2>1
<1> QED BY <1>7 DEF x, y, n

\* Bit n of a register of some bytes is in one of them.
LEMMA PlaceOf ==
  ASSUME NEW size \in Nat, NEW n \in Bits(size)
  PROVE  /\ n % ByteBits \in 0 .. ByteBits - 1
         /\ n \div ByteBits \in 0 .. size - 1
         /\ n = (n \div ByteBits) * ByteBits + (n % ByteBits)
<1> DEFINE x == n % ByteBits  y == n \div ByteBits
<1>1. n \in Int /\ 0 <= n /\ n < size * ByteBits
  <2>1. size * ByteBits \in Int
    BY ByteBitsAssumption
  <2> QED BY <2>1 DEF Bits
<1>2. x \in 0 .. ByteBits - 1 /\ y \in Int /\ n = ByteBits * y + x
  BY <1>1, ByteBitsAssumption
<1> HIDE DEF x, y
<1>3. y >= 0
  <2> SUFFICES ASSUME y <= -1 PROVE FALSE
    BY <1>2
  <2>1. ByteBits * (-1 - y) >= 0 /\ ByteBits * (-1 - y) = -ByteBits - ByteBits * y
    BY <1>2, ByteBitsAssumption
  <2> QED BY <1>1, <1>2, <2>1, ByteBitsAssumption
<1>4. y <= size - 1
  <2> SUFFICES ASSUME y >= size PROVE FALSE
    BY <1>2
  <2>1. ByteBits * (y - size) >= 0 /\ ByteBits * (y - size) = ByteBits * y - size * ByteBits
    BY <1>2, ByteBitsAssumption
  <2> QED BY <1>1, <1>2, <2>1, ByteBitsAssumption
<1>5. y \in 0 .. size - 1 /\ n = y * ByteBits + x
  BY <1>2, <1>3, <1>4, ByteBitsAssumption
<1> QED BY <1>2, <1>5 DEF x, y

\* A place in one of the bytes is a bit of the register.
LEMMA PlaceIsBit ==
  ASSUME NEW size \in Nat, NEW y \in 0 .. size - 1, NEW b \in 0 .. ByteBits - 1
  PROVE  /\ y * ByteBits + b \in Bits(size)
         /\ (y * ByteBits + b) % ByteBits = b /\ (y * ByteBits + b) \div ByteBits = y
<1>1. (y * ByteBits + b) % ByteBits = b /\ (y * ByteBits + b) \div ByteBits = y
  BY PlaceIsUnique, ByteBitsAssumption
<1>2. y * ByteBits \in Int /\ size * ByteBits \in Int /\ y * ByteBits >= 0
  BY ByteBitsAssumption
<1>3. (size - 1 - y) * ByteBits >= 0 /\ (size - 1 - y) * ByteBits = size * ByteBits - ByteBits - y * ByteBits
  BY ByteBitsAssumption
<1>4. y * ByteBits + b \in 0 .. size * ByteBits - 1
  BY <1>2, <1>3, ByteBitsAssumption
<1> QED BY <1>1, <1>4 DEF Bits

\* The bytes of a register.
Memory(size) == [1 .. size -> SUBSET (0 .. ByteBits - 1)]

LEMMA BytesType ==
  ASSUME NEW size \in Nat, NEW v
  PROVE  Bytes(size, v) \in Memory(size)
BY DEF Bytes, Memory

LEMMA ReverseType ==
  ASSUME NEW size \in Nat, NEW bytes \in Memory(size)
  PROVE  /\ Len(bytes) = size /\ Reverse(bytes) \in Memory(size)
         /\ \A i \in 1 .. size : Reverse(bytes)[i] = bytes[size - i + 1]
         /\ Reverse(Reverse(bytes)) = bytes
<1>1. Len(bytes) = size
  BY DEF Memory
<1>2. Reverse(bytes) = [i \in 1 .. size |-> bytes[size - i + 1]]
  BY <1>1 DEF Reverse
<1>3. Reverse(bytes) \in Memory(size)
  BY <1>2 DEF Memory
<1>4. Len(Reverse(bytes)) = size
  BY <1>3 DEF Memory
<1>5. Reverse(Reverse(bytes)) = [i \in 1 .. size |-> Reverse(bytes)[size - i + 1]]
  BY <1>4 DEF Reverse
<1>6. \A i \in 1 .. size : Reverse(bytes)[size - i + 1] = bytes[i]
  BY <1>2
<1>7. Reverse(Reverse(bytes)) = bytes
  BY <1>5, <1>6 DEF Memory
<1> QED BY <1>1, <1>2, <1>3, <1>7

\* The bytes of the value of some bytes are these bytes.
LEMMA BytesOfValue ==
  ASSUME NEW size \in Nat, NEW bytes \in Memory(size)
  PROVE  Bytes(size, Value(bytes)) = bytes
<1>1. Len(bytes) = size
  BY ReverseType
<1>2. ASSUME NEW i \in 1 .. size
      PROVE  {b \in 0 .. ByteBits - 1 : (i - 1) * ByteBits + b \in Value(bytes)} = bytes[i]
  <2>1. bytes[i] \subseteq 0 .. ByteBits - 1
    BY DEF Memory
  <2>2. ASSUME NEW b \in 0 .. ByteBits - 1
        PROVE  (i - 1) * ByteBits + b \in Value(bytes) <=> b \in bytes[i]
    <3> DEFINE n == (i - 1) * ByteBits + b
    <3>1. i - 1 \in 0 .. size - 1
      OBVIOUS
    <3>2. n \in Bits(size) /\ n % ByteBits = b /\ n \div ByteBits = i - 1
      BY <3>1, PlaceIsBit
    <3>3. 1 + (i - 1) = i
      OBVIOUS
    <3> HIDE DEF n
    <3>4. n \in Value(bytes) <=> b \in bytes[i]
      BY <1>1, <3>2, <3>3 DEF Value
    <3> QED BY <3>4 DEF n
  <2> QED BY <2>1, <2>2
<1>3. Bytes(size, Value(bytes)) = [i \in 1 .. size |-> bytes[i]]
  BY <1>2 DEF Bytes
<1> QED BY <1>3 DEF Memory

\* The byte order in which a register is read and written.
Big(c, ord) == ord = "BE" \/ (ord = "NAT" /\ BigEndian(c))

LEMMA BswapOf ==
  ASSUME NEW size \in Nat, NEW bytes \in Memory(size)
  PROVE  /\ Bswap(size, Value(bytes)) = Value(Reverse(bytes))
         /\ Bswap(size, Value(Reverse(bytes))) = Value(bytes)
BY BytesOfValue, ReverseType DEF Bswap

\* Each macro reads the bytes in the order that its name says.
LEMMA IoReadIs ==
  ASSUME NEW c \in Cpus, NEW ord \in {"NAT", "BE", "LE"}, NEW size \in Nat, NEW bytes \in Memory(size)
  PROVE  IoRead(c, ord, bytes) = IF Big(c, ord) THEN Value(Reverse(bytes)) ELSE Value(bytes)
<1>1. Len(bytes) = size
  BY ReverseType
<1>2. NatRead(c, bytes) = IF BigEndian(c) THEN Value(Reverse(bytes)) ELSE Value(bytes)
  BY <1>1, BswapOf DEF NatRead, SysPciIn, Load, BigEndian
<1>3. BeRead(c, bytes) = Value(Reverse(bytes))
  BY <1>1, <1>2, BswapOf DEF BeRead
<1>4. LeRead(c, bytes) = Value(bytes)
  BY <1>1, <1>2, BswapOf DEF LeRead, SysPciIn, BigEndian
<1> QED BY <1>2, <1>3, <1>4 DEF IoRead, Big

LEMMA SwappedBytes ==
  ASSUME NEW size \in Nat, NEW v
  PROVE  Bytes(size, Bswap(size, v)) = Reverse(Bytes(size, v))
BY BytesType, ReverseType, BytesOfValue DEF Bswap

\* Each macro writes the bytes in the order that its name says.
LEMMA IoWriteIs ==
  ASSUME NEW c \in Cpus, NEW ord \in {"NAT", "BE", "LE"}, NEW size \in Nat, NEW v
  PROVE  IoWrite(c, ord, size, v) = IF Big(c, ord) THEN Reverse(Bytes(size, v)) ELSE Bytes(size, v)
<1>1. Reverse(Reverse(Bytes(size, v))) = Bytes(size, v)
  BY BytesType, ReverseType
<1>2. \A x : NatWrite(c, size, x) = IF BigEndian(c) THEN Reverse(Bytes(size, x)) ELSE Bytes(size, x)
  BY SwappedBytes DEF NatWrite, SysPciOut, Store, BigEndian
<1>3. BeWrite(c, size, v) = Reverse(Bytes(size, v))
  BY <1>2, SwappedBytes DEF BeWrite
<1>4. LeWrite(c, size, v) = Bytes(size, v)
  BY <1>1, <1>2, SwappedBytes DEF LeWrite, SysPciOut, BigEndian
<1> QED BY <1>2, <1>3, <1>4 DEF IoWrite, Big

-----------------------------------------------------------------------------
(* The cells of a register.                                                *)

MemType == mem \in [0 .. BarSize - 1 -> SUBSET (0 .. ByteBits - 1)]

\* The links of records that could be initialised.
LEMMA LinkTypes ==
  ASSUME NEW d \in Databases, NEW r \in Records
  PROVE  /\ d[r].size \in {1, 2, 4} /\ d[r].ord \in {"NAT", "BE", "LE"}
         /\ d[r].dir \in {"read", "write"} /\ d[r].nelm \in Nat
BY DatabasesAssumption DEF Supports

LEMMA OptionTypes ==
  ASSUME NEW d \in Databases, NEW r \in Records, ~Throws(d[r]), NEW i \in Nat
  PROVE  /\ Options(d[r]).shift \in Nat /\ Options(d[r]).offset \in Nat
         /\ ElemAddr(Options(d[r]), i) \in Nat
<1>1. Options(d[r]).shift \in Nat /\ Options(d[r]).offset \in Nat /\ Options(d[r]).step \in Nat
  BY OptionsAssumption, SizesAssumption
<1> DEFINE step == Options(d[r]).step
<1>2. i * step \in Int
  BY <1>1
<1>3. (i * step) % Wrap \in Nat
  BY <1>2, SizesAssumption
<1> QED BY <1>1, <1>3 DEF ElemAddr

\* The byte of a register that holds bit n, from its lowest address.
ByteOf(c, n) == IF Big(cpu, c.ord) THEN c.size - 1 - n \div ByteBits ELSE n \div ByteBits
CellAt(c, at, n) == <<at + ByteOf(c, n), n % ByteBits>>

LEMMA CellIs ==
  ASSUME NEW r, NEW i, NEW n
  PROVE  Cell(r, i, n) = CellAt(db[r], pvt[r].offset + ElemAddr(pvt[r], i), n)
BY DEF Cell, CellAt, ByteOf, Big

LEMMA ByteInRegister ==
  ASSUME NEW c, c.size \in Nat, NEW n \in Bits(c.size)
  PROVE  /\ ByteOf(c, n) \in 0 .. c.size - 1 /\ n % ByteBits \in 0 .. ByteBits - 1
         /\ n \div ByteBits \in 0 .. c.size - 1
<1>1. n \div ByteBits \in 0 .. c.size - 1 /\ n % ByteBits \in 0 .. ByteBits - 1
  BY PlaceOf
<1> QED BY <1>1 DEF ByteOf

\* Every place in a register holds one of its bits.
LEMMA BitAt ==
  ASSUME NEW c, c.size \in Nat, NEW y \in 0 .. c.size - 1, NEW b \in 0 .. ByteBits - 1
  PROVE  \E n \in Bits(c.size) : ByteOf(c, n) = y /\ n % ByteBits = b
<1> DEFINE s == c.size
           z == IF Big(cpu, c.ord) THEN s - 1 - y ELSE y
           n == z * ByteBits + b
<1>1. z \in 0 .. s - 1
  OBVIOUS
<1>2. n \in Bits(s) /\ n % ByteBits = b /\ n \div ByteBits = z
  BY <1>1, PlaceIsBit
<1> HIDE DEF n
<1>3. ByteOf(c, n) = y
  BY <1>2 DEF ByteOf
<1> QED BY <1>2, <1>3

\* A bit of what readraw() returns is the cell of the bit.
LEMMA RawBit ==
  ASSUME cpu \in Cpus, MemType,
         NEW c, c.size \in Nat, c.ord \in {"NAT", "BE", "LE"},
         NEW p, NEW off, p.offset + off \in Nat
  PROVE  /\ Readraw(c, p, off) \subseteq Bits(c.size)
         /\ \A n \in Bits(c.size) :
              n \in Readraw(c, p, off) <=> IsSet(CellAt(c, p.offset + off, n))
<1> DEFINE s == c.size
           at == p.offset + off
           bytes == BytesAt(c, p, off)
           raw == Readraw(c, p, off)
<1>1. BarSize \in Nat
  BY SizesAssumption
<1>2. bytes = [k \in 1 .. s |-> IF at + k <= BarSize THEN mem[at + k - 1] ELSE {}]
  BY DEF BytesAt
<1>3. bytes \in Memory(s)
  <2>1. ASSUME NEW k \in 1 .. s, at + k <= BarSize PROVE at + k - 1 \in 0 .. BarSize - 1
    BY <1>1, <2>1
  <2> HIDE DEF bytes, at
  <2> QED BY <1>1, <1>2, <2>1 DEF Memory, MemType
<1>4. raw = IF Big(cpu, c.ord) THEN Value(Reverse(bytes)) ELSE Value(bytes)
  BY <1>3, IoReadIs DEF Readraw
<1>5. Len(bytes) = s /\ Len(Reverse(bytes)) = s
  BY <1>3, ReverseType
<1>6. raw \subseteq Bits(s)
  BY <1>4, <1>5 DEF Value
<1>7. ASSUME NEW n \in Bits(s)
      PROVE  n \in raw <=> IsSet(CellAt(c, at, n))
  <2> DEFINE b == n % ByteBits  d == n \div ByteBits  y == ByteOf(c, n)
  <2>1. y \in 0 .. s - 1 /\ d \in 0 .. s - 1 /\ b \in 0 .. ByteBits - 1
    BY ByteInRegister
  <2>2. n \in raw <=> b \in bytes[1 + y]
    <3>1. CASE Big(cpu, c.ord)
      <4>1. n \in raw <=> b \in Reverse(bytes)[1 + d]
        BY <1>4, <1>5, <3>1 DEF Value
      <4>2. 1 + d \in 1 .. s /\ s - (1 + d) + 1 = 1 + y
        BY <2>1, <3>1 DEF ByteOf
      <4>3. Reverse(bytes)[1 + d] = bytes[1 + y]
        BY <1>3, <4>2, ReverseType
      <4> QED BY <4>1, <4>3
    <3>2. CASE ~Big(cpu, c.ord)
      BY <1>4, <1>5, <3>2 DEF Value, ByteOf
    <3> QED BY <3>1, <3>2
  <2>3. CellAt(c, at, n) = <<at + y, b>>
    BY DEF CellAt
  <2>4. at \in Nat
    OBVIOUS
  <2> HIDE DEF at, b, y, bytes, raw
  <2>5. 1 + y \in 1 .. s /\ at + (1 + y) - 1 = at + y
    BY <2>1, <2>4
  <2>6. at + (1 + y) <= BarSize <=> at + y < BarSize
    BY <1>1, <2>1, <2>4
  <2>7. b \in bytes[1 + y] <=> at + y < BarSize /\ b \in mem[at + y]
    BY <1>2, <2>5, <2>6
  <2> QED BY <2>2, <2>3, <2>7 DEF IsSet
<1> QED BY <1>6, <1>7

\* After a write the cell of a bit is as the bit, if it lies in the BAR, and
\* nothing else has changed.
LEMMA WrittenBit ==
  ASSUME cpu \in Cpus, MemType,
         NEW c, c.size \in Nat, c.ord \in {"NAT", "BE", "LE"},
         NEW p, NEW off, p.offset + off \in Nat, NEW v,
         mem' = Written(c, p, off, v)
  PROVE  /\ MemType'
         /\ \A a \in 0 .. BarSize - 1 :
              a \notin p.offset + off .. p.offset + off + c.size - 1 => mem'[a] = mem[a]
         /\ \A n \in Bits(c.size) :
              p.offset + off + ByteOf(c, n) < BarSize =>
                (n % ByteBits \in mem'[p.offset + off + ByteOf(c, n)] <=> n \in v)
<1> DEFINE s == c.size
           at == p.offset + off
           bytes == Bytes(s, v)
           new == IoWrite(cpu, c.ord, s, v)
<1>1. BarSize \in Nat /\ at \in Nat /\ s \in Nat
  BY SizesAssumption
<1>2. bytes \in Memory(s) /\ Reverse(bytes) \in Memory(s)
  BY BytesType, ReverseType
<1>3. new = IF Big(cpu, c.ord) THEN Reverse(bytes) ELSE bytes
  BY IoWriteIs
<1>4. new \in Memory(s) /\ DOMAIN new = 1 .. s
  BY <1>2, <1>3 DEF Memory
<1>5. mem' = [a \in 0 .. BarSize - 1 |-> IF a - at + 1 \in 1 .. s THEN new[a - at + 1] ELSE mem[a]]
  <2>1. DOMAIN mem = 0 .. BarSize - 1
    BY DEF MemType
  <2> QED BY <1>4, <2>1 DEF Written
<1>6. MemType'
  <2> HIDE DEF new, at
  <2> QED BY <1>4, <1>5 DEF Memory, MemType
<1>7. ASSUME NEW a \in 0 .. BarSize - 1, a \notin at .. at + s - 1
      PROVE  mem'[a] = mem[a]
  <2>1. a - at + 1 \notin 1 .. s
    BY <1>1, <1>7
  <2> QED BY <1>5, <2>1
<1>8. ASSUME NEW n \in Bits(s), at + ByteOf(c, n) < BarSize
      PROVE  n % ByteBits \in mem'[at + ByteOf(c, n)] <=> n \in v
  <2> DEFINE b == n % ByteBits  d == n \div ByteBits  y == ByteOf(c, n)
  <2>1. y \in 0 .. s - 1 /\ d \in 0 .. s - 1 /\ b \in 0 .. ByteBits - 1
    BY ByteInRegister
  <2>2. b \in bytes[1 + d] <=> n \in v
    <3>1. 1 + d \in 1 .. s /\ (1 + d) - 1 = d
      BY <2>1
    <3>2. n = d * ByteBits + b
      BY <1>1, PlaceOf
    <3> HIDE DEF b, d
    <3>3. bytes[1 + d] = {x \in 0 .. ByteBits - 1 : d * ByteBits + x \in v}
      BY <3>1 DEF Bytes
    <3> HIDE DEF bytes
    <3> QED BY <2>1, <3>2, <3>3
  <2>3. new[1 + y] = bytes[1 + d]
    <3>1. CASE Big(cpu, c.ord)
      <4>1. 1 + y \in 1 .. s /\ s - (1 + y) + 1 = 1 + d
        BY <2>1, <3>1 DEF ByteOf
      <4> QED BY <1>2, <1>3, <3>1, <4>1, ReverseType
    <3>2. CASE ~Big(cpu, c.ord)
      BY <1>3, <3>2 DEF ByteOf
    <3> QED BY <3>1, <3>2
  <2>4. at + y < BarSize
    BY <1>8
  <2> HIDE DEF at, b, d, y, new, bytes
  <2>5. at + y \in 0 .. BarSize - 1 /\ (at + y) - at + 1 = 1 + y /\ 1 + y \in 1 .. s
    BY <1>1, <2>1, <2>4
  <2>6. mem'[at + y] = new[1 + y]
    BY <1>5, <2>5
  <2>7. b \in mem'[at + y] <=> n \in v
    BY <2>2, <2>3, <2>6
  <2> QED BY <2>7 DEF b, y
<1> QED BY <1>6, <1>7, <1>8

-----------------------------------------------------------------------------
(* Types, and the elements of the records.                                 *)

LastType == {<<>>} \cup {<<v>> : v \in SUBSET Nat}
BusyType == [on : BOOLEAN, i : Nat, old : LastType]

\* A record that reads has got one value for each element it has been at.
ElementsInv ==
  \A r \in Records :
    /\ busy[r].i <= db[r].nelm /\ Len(val[r]) <= db[r].nelm
    /\ busy[r].on /\ db[r].dir = "read" => Len(val[r]) = busy[r].i

TypeInv ==
  /\ MemType
  /\ status \in [Records -> {"new", "failed", "ready"}]
  /\ busy \in [Records -> BusyType]
  /\ val \in [Records -> Seq(SUBSET Nat)]
  /\ last \in [Records -> LastType]
  /\ alarm \subseteq Ready /\ fresh \subseteq Ready
  /\ ElementsInv

LEMMA IdleType ==
  /\ <<>> \in LastType
  /\ Idle \in BusyType /\ ~Idle.on /\ Idle.i = 0 /\ Idle.old = <<>>
  /\ [Idle EXCEPT !.on = TRUE] \in BusyType
  /\ [Idle EXCEPT !.on = TRUE].on /\ [Idle EXCEPT !.on = TRUE].i = 0 /\ [Idle EXCEPT !.on = TRUE].old = <<>>
<1>1. <<>> \in LastType
  BY DEF LastType
<1> QED BY <1>1 DEF Idle, BusyType

LEMMA InitTypes == Init => TypeInv
<1> SUFFICES ASSUME Init PROVE TypeInv OBVIOUS
<1>1. MemType
  BY ByteBitsAssumption DEF Init, MemType
<1>2. db \in Databases /\ status = [r \in Records |-> "new"] /\ busy = [r \in Records |-> Idle]
      /\ val = [r \in Records |-> <<>>] /\ last = [r \in Records |-> <<>>]
      /\ alarm = {} /\ fresh = {}
  BY DEF Init
<1>3. busy \in [Records -> BusyType] /\ last \in [Records -> LastType]
  BY <1>2, IdleType
<1>4. <<>> \in Seq(SUBSET Nat) /\ Len(<<>>) = 0
  OBVIOUS
<1>5. val \in [Records -> Seq(SUBSET Nat)]
  BY <1>2, <1>4
<1>6. ElementsInv
  BY <1>2, <1>4, IdleType, LinkTypes DEF ElementsInv
<1> QED BY <1>1, <1>2, <1>3, <1>5, <1>6 DEF TypeInv

LEMMA CastType ==
  ASSUME NEW c, NEW v
  PROVE  Cast(c, v) \in SUBSET Nat
BY DEF Cast, Bits

\* readArray() fills no more elements than there are.
LEMMA ArrayType ==
  ASSUME NEW c, NEW p, NEW n \in Nat
  PROVE  ReadArray(c, p, n) \in Seq(SUBSET Nat) /\ Len(ReadArray(c, p, n)) \in 0 .. n
<1> DEFINE W == {i \in 0 .. n - 1 : Within(p, i)}
           count == Cardinality(W)
<1>1. IsFiniteSet(0 .. n - 1) /\ Cardinality(0 .. n - 1) = n
  BY FS_Interval
<1>2. IsFiniteSet(W) /\ count <= n
  BY <1>1, FS_Subset
<1>3. count \in Nat
  BY <1>2, FS_CardinalityType
<1>4. ReadArray(c, p, n) = [k \in 1 .. count |-> Cast(c, Read(c, p, ElemAddr(p, k - 1)))]
  BY DEF ReadArray
<1> HIDE DEF count
<1> QED BY <1>2, <1>3, <1>4, CastType

\* What the state is in a step that only starts, ends or refuses something.
LEMMA KnownRecord ==
  ASSUME BarInv, TypeInv, NEW r \in Records, status[r] = "ready"
  PROVE  /\ cpu \in Cpus /\ db \in Databases /\ MemType
         /\ ~Throws(db[r]) /\ ~OutOfRange(db[r]) /\ pvt[r] = Options(db[r])
         /\ db[r].size \in {1, 2, 4} /\ db[r].ord \in {"NAT", "BE", "LE"}
         /\ db[r].dir \in {"read", "write"} /\ db[r].nelm \in Nat
         /\ pvt[r].shift \in Nat /\ pvt[r].offset \in Nat
         /\ \A i \in Nat : /\ ElemAddr(pvt[r], i) \in Nat
                           /\ pvt[r].offset + ElemAddr(pvt[r], i) \in Nat
<1>1. /\ cpu \in Cpus /\ db \in Databases /\ MemType
      /\ ~Throws(db[r]) /\ ~OutOfRange(db[r]) /\ pvt[r] = Options(db[r])
  BY DEF BarInv, PvtInv, TypeInv
<1>2. pvt[r].shift \in Nat /\ pvt[r].offset \in Nat /\ \A i \in Nat : ElemAddr(pvt[r], i) \in Nat
  BY <1>1, OptionTypes
<1>3. \A i \in Nat : pvt[r].offset + ElemAddr(pvt[r], i) \in Nat
  BY <1>2
<1> QED BY <1>1, <1>2, <1>3, LinkTypes

LEMMA InitTypesKeep ==
  ASSUME BarInv, TypeInv, NEW r \in Records, InitFails(r) \/ InitRecord(r)
  PROVE  TypeInv'
<1>1. UNCHANGED <<db, mem, busy, last>> /\ db \in Databases /\ db[r].nelm \in Nat
  BY LinkTypes DEF InitFails, InitRecord, BarInv
<1>2. MemType' /\ busy' \in [Records -> BusyType] /\ last' \in [Records -> LastType]
  BY <1>1 DEF TypeInv, MemType
<1>3. status' \in [Records -> {"new", "failed", "ready"}]
      /\ \A q \in Records : status[q] = "ready" => status'[q] = "ready"
  BY DEF InitFails, InitRecord, TypeInv
<1>4. alarm' \cup fresh' \subseteq alarm \cup fresh \cup {r} /\ (r \in alarm' \cup fresh' => status'[r] = "ready")
  BY DEF InitFails, InitRecord, TypeInv, Ready
<1>5. alarm' \subseteq Ready' /\ fresh' \subseteq Ready'
  BY <1>3, <1>4 DEF TypeInv, Ready
<1>6. \/ val' = val
      \/ val' = [val EXCEPT ![r] = ReadArray(db[r], Options(db[r]), db[r].nelm)]
  BY DEF InitFails, InitRecord
<1>7. \/ val' = val
      \/ \E s \in Seq(SUBSET Nat) : Len(s) \in 0 .. db[r].nelm /\ val' = [val EXCEPT ![r] = s]
  BY <1>1, <1>6, ArrayType
<1>8. ~busy[r].on
  BY DEF InitFails, InitRecord, BarInv, PvtInv
<1>9. val' \in [Records -> Seq(SUBSET Nat)]
  BY <1>7 DEF TypeInv
<1>10. ElementsInv'
  <2>1. CASE val' = val
    BY <1>1, <2>1 DEF TypeInv, ElementsInv
  <2>2. ASSUME NEW s \in Seq(SUBSET Nat), Len(s) \in 0 .. db[r].nelm, val' = [val EXCEPT ![r] = s]
        PROVE  ElementsInv'
    <3>1. val'[r] = s /\ \A q \in Records \ {r} : val'[q] = val[q]
      BY <2>2 DEF TypeInv
    <3>2. Len(val'[r]) <= db[r].nelm
      BY <1>1, <2>2, <3>1
    <3> QED BY <1>1, <1>8, <3>1, <3>2 DEF TypeInv, ElementsInv
  <2> QED BY <1>7, <2>1, <2>2
<1> QED BY <1>2, <1>3, <1>5, <1>9, <1>10 DEF TypeInv

LEMMA BeginTypesKeep ==
  ASSUME BarInv, TypeInv, NEW r \in Records,
         ReadBegin(r) \/ \E v \in Values : WriteBegin(r, v)
  PROVE  TypeInv'
<1>1. /\ UNCHANGED <<db, mem, status, last>> /\ status[r] = "ready"
      /\ busy' = [busy EXCEPT ![r] = [Idle EXCEPT !.on = TRUE]]
  BY DEF ReadBegin, WriteBegin, dbVars, CanProcess
<1>2. db[r].nelm \in Nat
  BY <1>1, KnownRecord
<1>3. MemType' /\ last' \in [Records -> LastType] /\ status' \in [Records -> {"new", "failed", "ready"}]
  BY <1>1 DEF TypeInv, MemType
<1>4. busy' \in [Records -> BusyType]
  BY <1>1, IdleType DEF TypeInv
<1>5. alarm' \subseteq Ready' /\ fresh' \subseteq Ready'
  BY <1>1 DEF ReadBegin, WriteBegin, TypeInv, Ready
<1>6. \E s \in Seq(SUBSET Nat) :
        /\ val' = [val EXCEPT ![r] = s] /\ Len(s) <= db[r].nelm
        /\ db[r].dir = "read" => Len(s) = 0
  <2>1. CASE ReadBegin(r)
    <3>1. <<>> \in Seq(SUBSET Nat) /\ Len(<<>>) = 0
      OBVIOUS
    <3>2. val' = [val EXCEPT ![r] = <<>>]
      BY <2>1 DEF ReadBegin
    <3>3. Len(<<>>) <= db[r].nelm
      BY <1>2, <3>1
    <3> QED BY <3>1, <3>2, <3>3, Zenon
  <2>2. ASSUME NEW v \in Values, WriteBegin(r, v)
        PROVE  \E s \in Seq(SUBSET Nat) :
                 /\ val' = [val EXCEPT ![r] = s] /\ Len(s) <= db[r].nelm
                 /\ db[r].dir = "read" => Len(s) = 0
    <3> DEFINE s == [k \in DOMAIN v |-> Cast(db[r], v[k])]
    <3>1. v \in Seq(SUBSET Bits(4)) /\ DOMAIN v = 1 .. Len(v) /\ Len(v) \in Nat
      BY ValuesAssumption
    <3>2. s \in Seq(SUBSET Nat) /\ Len(s) = Len(v)
      BY <3>1, CastType
    <3>3. val' = [val EXCEPT ![r] = s] /\ Len(v) <= db[r].nelm /\ db[r].dir = "write"
      BY <2>2 DEF WriteBegin
    <3> QED BY <3>2, <3>3
  <2> QED BY <2>1, <2>2
<1>7. PICK s \in Seq(SUBSET Nat) :
        /\ val' = [val EXCEPT ![r] = s] /\ Len(s) <= db[r].nelm
        /\ db[r].dir = "read" => Len(s) = 0
  BY <1>6
<1>8. val' \in [Records -> Seq(SUBSET Nat)]
  BY <1>7 DEF TypeInv
<1>9. ElementsInv'
  <2> SUFFICES ASSUME NEW q \in Records
               PROVE  /\ busy'[q].i <= db[q].nelm /\ Len(val'[q]) <= db[q].nelm
                      /\ busy'[q].on /\ db[q].dir = "read" => Len(val'[q]) = busy'[q].i
    BY <1>1 DEF ElementsInv
  <2>1. CASE q = r
    BY <1>1, <1>2, <1>7, <2>1, IdleType DEF TypeInv
  <2>2. CASE q # r
    BY <1>1, <1>7, <2>2 DEF TypeInv, ElementsInv
  <2> QED BY <2>1, <2>2
<1> QED BY <1>3, <1>4, <1>5, <1>8, <1>9 DEF TypeInv

\* The place of a record is updated one field at a time.
LEMMA NewPlace ==
  ASSUME NEW x \in BusyType, NEW n \in Nat, NEW o \in LastType
  PROVE  /\ [x EXCEPT !.i = n] \in BusyType /\ [x EXCEPT !.old = o] \in BusyType
         /\ [x EXCEPT !.i = n].on = x.on /\ [x EXCEPT !.i = n].i = n /\ [x EXCEPT !.i = n].old = x.old
         /\ [x EXCEPT !.old = o].on = x.on /\ [x EXCEPT !.old = o].i = x.i /\ [x EXCEPT !.old = o].old = o
BY DEF BusyType

\* What a step of a loop does to the place of the record in it.
LEMMA LoopStep ==
  ASSUME BarInv, TypeInv, NEW r \in Records, ReadElement(r) \/ ReadOld(r) \/ WriteElement(r)
  PROVE  /\ status[r] = "ready" /\ busy[r].on /\ busy[r].i \in Nat /\ busy[r].i < Count(r)
         /\ Within(pvt[r], busy[r].i)
         /\ busy' \in [Records -> BusyType]
         /\ \A q \in Records \ {r} : busy'[q] = busy[q]
         /\ busy'[r].on
         /\ ReadElement(r) => busy'[r].i = busy[r].i + 1 /\ busy'[r].old = busy[r].old
         /\ WriteElement(r) => busy'[r].i = busy[r].i + 1 /\ busy'[r].old = <<>>
         /\ ReadOld(r) => /\ busy'[r].i = busy[r].i
                          /\ busy'[r].old = <<Readraw(db[r], pvt[r], ElemAddr(pvt[r], busy[r].i))>>
<1>1. /\ status[r] = "ready" /\ busy[r].on /\ busy[r].i \in Nat /\ busy[r].i < Count(r)
      /\ Within(pvt[r], busy[r].i) /\ busy \in [Records -> BusyType]
  BY DEF ReadElement, ReadOld, WriteElement, More, BarInv, PvtInv, TypeInv
<1>2. busy[r] \in BusyType
  BY <1>1
<1>3. \E new \in BusyType :
        /\ busy' = [busy EXCEPT ![r] = new] /\ new.on = busy[r].on
        /\ ReadElement(r) => new.i = busy[r].i + 1 /\ new.old = busy[r].old
        /\ WriteElement(r) => new.i = busy[r].i + 1 /\ new.old = <<>>
        /\ ReadOld(r) => /\ new.i = busy[r].i
                         /\ new.old = <<Readraw(db[r], pvt[r], ElemAddr(pvt[r], busy[r].i))>>
  <2> DEFINE raw == Readraw(db[r], pvt[r], ElemAddr(pvt[r], busy[r].i))
             next == [busy[r] EXCEPT !.i = busy[r].i + 1]
  <2>0. ~(ReadElement(r) /\ (ReadOld(r) \/ WriteElement(r))) /\ ~(ReadOld(r) /\ WriteElement(r))
    BY DEF ReadElement, ReadOld, WriteElement
  <2>a. /\ busy[r].i + 1 \in Nat /\ <<>> \in LastType
        /\ next \in BusyType /\ next.on = busy[r].on /\ next.i = busy[r].i + 1 /\ next.old = busy[r].old
    <3>1. busy[r].i + 1 \in Nat /\ <<>> \in LastType
      BY <1>1, IdleType
    <3> QED BY <1>2, <3>1, NewPlace
  <2>1. CASE ReadElement(r)
    <3>1. busy' = [busy EXCEPT ![r] = next]
      BY <2>1 DEF ReadElement
    <3> HIDE DEF next
    <3> QED BY <2>0, <2>1, <2>a, <3>1
  <2>2. CASE ReadOld(r)
    <3> DEFINE new == [busy[r] EXCEPT !.old = <<raw>>]
    <3>1. raw \in SUBSET Nat
      <4>1. raw \subseteq Bits(db[r].size)
        <5>1. /\ cpu \in Cpus /\ MemType /\ db[r].size \in Nat /\ db[r].ord \in {"NAT", "BE", "LE"}
              /\ pvt[r].offset + ElemAddr(pvt[r], busy[r].i) \in Nat
          BY <1>1, KnownRecord
        <5> QED BY <5>1, RawBit
      <4> QED BY <4>1 DEF Bits
    <3>2. <<raw>> \in LastType
      BY <3>1 DEF LastType
    <3> HIDE DEF raw
    <3>3. new \in BusyType /\ new.on = busy[r].on /\ new.i = busy[r].i /\ new.old = <<raw>>
      BY <1>1, <1>2, <3>2, NewPlace
    <3>4. busy' = [busy EXCEPT ![r] = new]
      BY <2>2 DEF ReadOld, raw
    <3> HIDE DEF new
    <3> QED BY <2>0, <2>2, <3>3, <3>4 DEF raw
  <2>3. CASE WriteElement(r)
    <3> DEFINE new == [next EXCEPT !.old = <<>>]
    <3>1. new \in BusyType /\ new.on = busy[r].on /\ new.i = busy[r].i + 1 /\ new.old = <<>>
      <4> HIDE DEF next
      <4> QED BY <1>1, <2>a, NewPlace
    <3>2. busy' = [[busy EXCEPT ![r].i = busy[r].i + 1] EXCEPT ![r].old = <<>>]
      BY <2>3 DEF WriteElement
    <3>3. busy' = [busy EXCEPT ![r] = new]
      BY <1>1, <3>2
    <3> HIDE DEF new
    <3> QED BY <2>0, <2>3, <3>1, <3>3
  <2> QED BY <2>1, <2>2, <2>3
<1> QED BY <1>1, <1>3

LEMMA LoopTypesKeep ==
  ASSUME BarInv, TypeInv, NEW r \in Records, ReadElement(r) \/ ReadOld(r) \/ WriteElement(r)
  PROVE  TypeInv'
<1>1. /\ UNCHANGED <<db, status, alarm>> /\ status[r] = "ready"
      /\ cpu \in Cpus /\ db[r].nelm \in Nat /\ db[r].dir \in {"read", "write"}
  BY LoopStep, KnownRecord DEF ReadElement, ReadOld, WriteElement, dbVars
<1>2. MemType'
  <2>1. CASE ~WriteElement(r)
    BY <2>1 DEF ReadElement, ReadOld, TypeInv, MemType
  <2>2. CASE WriteElement(r)
    <3> DEFINE v == Merge(pvt[r], val[r][busy[r].i + 1], IF pvt[r].mask = {} THEN {} ELSE busy[r].old[1])
    <3>1. mem' = Written(db[r], pvt[r], ElemAddr(pvt[r], busy[r].i), v)
      BY <2>2 DEF WriteElement
    <3> HIDE DEF v
    <3>2. busy[r].i \in Nat
      BY <2>2, LoopStep
    <3> QED BY <1>1, <3>1, <3>2, KnownRecord, WrittenBit
  <2> QED BY <2>1, <2>2
<1>3. busy' \in [Records -> BusyType]
  BY LoopStep
<1>4. fresh' \subseteq Ready' /\ alarm' \subseteq Ready' /\ status' \in [Records -> {"new", "failed", "ready"}]
  BY <1>1 DEF ReadElement, ReadOld, WriteElement, TypeInv, Ready
<1>5. CASE ReadElement(r)
  <2> DEFINE x == Cast(db[r], Read(db[r], pvt[r], ElemAddr(pvt[r], busy[r].i)))
  <2>1. x \in SUBSET Nat
    BY CastType
  <2>2. val' = [val EXCEPT ![r] = Append(val[r], x)] /\ last' = last /\ db[r].dir = "read"
    BY <1>5 DEF ReadElement
  <2> HIDE DEF x
  <2>3. val[r] \in Seq(SUBSET Nat) /\ Len(val[r]) = busy[r].i /\ busy[r].i < db[r].nelm
    BY <1>5, <2>2, LoopStep DEF TypeInv, ElementsInv, Count
  <2>4. /\ val' \in [Records -> Seq(SUBSET Nat)]
        /\ Len(val'[r]) = busy[r].i + 1 /\ \A q \in Records \ {r} : val'[q] = val[q]
    BY <2>1, <2>2, <2>3 DEF TypeInv
  <2>5. /\ busy'[r].i = busy[r].i + 1 /\ busy[r].i \in Nat
        /\ \A q \in Records \ {r} : busy'[q] = busy[q]
    BY <1>5, LoopStep
  <2>6. busy'[r].i <= db[r].nelm /\ Len(val'[r]) <= db[r].nelm /\ Len(val'[r]) = busy'[r].i
    BY <1>1, <2>3, <2>4, <2>5
  <2>7. ElementsInv'
    BY <1>1, <2>4, <2>5, <2>6 DEF TypeInv, ElementsInv
  <2> QED BY <1>1, <1>2, <1>3, <1>4, <2>2, <2>4, <2>7 DEF TypeInv
<1>6. CASE ReadOld(r)
  <2>1. val' = val /\ last' = last /\ db[r].dir = "write"
    BY <1>6 DEF ReadOld
  <2>2. busy'[r].i = busy[r].i /\ \A q \in Records \ {r} : busy'[q] = busy[q]
    BY <1>6, LoopStep
  <2>3. ElementsInv'
    BY <1>1, <2>1, <2>2 DEF TypeInv, ElementsInv
  <2> QED BY <1>1, <1>2, <1>3, <1>4, <2>1, <2>3 DEF TypeInv
<1>7. CASE WriteElement(r)
  <2>1. val' = val /\ db[r].dir = "write" /\ last' = [last EXCEPT ![r] = <<val[r][busy[r].i + 1]>>]
    BY <1>7 DEF WriteElement
  <2>2. /\ busy'[r].i = busy[r].i + 1 /\ busy[r].i \in Nat /\ busy[r].i < Len(val[r])
        /\ \A q \in Records \ {r} : busy'[q] = busy[q]
    BY <1>7, <2>1, LoopStep DEF Count
  <2>3. val[r][busy[r].i + 1] \in SUBSET Nat
    BY <2>2 DEF TypeInv
  <2>4. last' \in [Records -> LastType]
    BY <2>1, <2>3 DEF TypeInv, LastType
  <2>5. Len(val[r]) \in Nat
    BY DEF TypeInv
  <2>6. busy'[r].i <= db[r].nelm /\ db[r].dir # "read"
    <3>1. Len(val[r]) <= db[r].nelm
      BY DEF TypeInv, ElementsInv
    <3> QED BY <1>1, <2>1, <2>2, <2>5, <3>1
  <2>7. ElementsInv'
    BY <1>1, <2>1, <2>2, <2>6 DEF TypeInv, ElementsInv
  <2> QED BY <1>1, <1>2, <1>3, <1>4, <2>1, <2>4, <2>7 DEF TypeInv
<1> QED BY <1>5, <1>6, <1>7

LEMMA TypesKeep ==
  ASSUME BarInv, TypeInv, [Next]_vars
  PROVE  TypeInv'
<1>1. CASE UNCHANGED vars
  BY <1>1 DEF vars, dbVars, TypeInv, MemType, ElementsInv, Ready
<1>2. ASSUME NEW r \in Records, ProcessBadType(r)
      PROVE  TypeInv'
  BY <1>2 DEF ProcessBadType, CanProcess, dbVars, TypeInv, MemType, ElementsInv, Ready
<1>3. ASSUME NEW r \in Records, Finish(r)
      PROVE  TypeInv'
  <2>1. UNCHANGED <<db, mem, status, val, last, fresh>> /\ busy' = [busy EXCEPT ![r] = Idle]
        /\ status[r] = "ready" /\ alarm' \subseteq alarm \cup {r}
    BY <1>3 DEF Finish, dbVars, BarInv, PvtInv
  <2>2. Idle \in BusyType /\ ~Idle.on /\ Idle.i = 0 /\ db[r].nelm \in Nat
    BY <2>1, IdleType, KnownRecord
  <2>3. busy' \in [Records -> BusyType] /\ alarm' \subseteq Ready' /\ fresh' \subseteq Ready'
    BY <2>1, <2>2 DEF TypeInv, Ready
  <2>4. ElementsInv'
    BY <2>1, <2>2 DEF TypeInv, ElementsInv
  <2> QED BY <2>1, <2>3, <2>4 DEF TypeInv, MemType
<1> QED BY <1>1, <1>2, <1>3, InitTypesKeep, BeginTypesKeep, LoopTypesKeep DEF Next

LEMMA TypesHold == Spec => [](BarInv /\ TypeInv)
<1>1. BarInv /\ TypeInv /\ [Next]_vars => BarInv' /\ TypeInv'
  BY NextKeeps, TypesKeep
<1> QED BY <1>1, InitHolds, InitTypes, PTL DEF Spec

\* Every variable keeps its type, an array record never goes past its elements,
\* and what is processed was initialised from its link; nothing but a bad
\* offset, step or BAR leads outside of the BAR.
THEOREM RecordsSound == Spec => []IInv
<1>1. BarInv /\ TypeInv => IInv
  <2> SUFFICES ASSUME BarInv, TypeInv PROVE IInv OBVIOUS
  <2>1. cpu \in Cpus /\ db \in Databases /\ PvtInv /\ InsideBar /\ wild \subseteq Ready
    BY DEF BarInv, Ready
  <2>2. ASSUME NEW r \in Records
        PROVE  busy[r].i \in 0 .. db[r].nelm /\ Len(val[r]) <= db[r].nelm
    <3>1. db[r].nelm \in Nat
      BY <2>1, LinkTypes
    <3>2. busy[r].i \in Nat
      BY <2>1 DEF PvtInv
    <3> QED BY <3>1, <3>2 DEF TypeInv, ElementsInv
  <2> QED BY <2>1, <2>2 DEF TypeInv, MemType, IInv, TypeOK
<1> QED BY <1>1, TypesHold, PTL

-----------------------------------------------------------------------------
(* What a record that reads shows.                                         *)

\* read(): a bit of the value is the cell of the bit of the register that the
\* shift puts it at, if it belongs to the field.
LEMMA ReadBit ==
  ASSUME cpu \in Cpus, MemType,
         NEW c, c.size \in Nat, c.ord \in {"NAT", "BE", "LE"},
         NEW p, NEW off, p.offset + off \in Nat, p.shift \in Nat, NEW b \in Bits(4)
  PROVE  b \in Cast(c, Read(c, p, off)) <=>
           /\ b \in Bits(c.elem)
           /\ b + p.shift \in IF p.mask = {} THEN Bits(c.size) ELSE p.mask \cap Bits(c.size)
           /\ IsSet(CellAt(c, p.offset + off, b + p.shift))
<1> DEFINE raw == Readraw(c, p, off)
           field == IF p.mask = {} THEN Bits(c.size) ELSE p.mask \cap Bits(c.size)
           n == b + p.shift
<1>1. raw \subseteq Bits(c.size) /\ \A m \in Bits(c.size) : m \in raw <=> IsSet(CellAt(c, p.offset + off, m))
  BY RawBit
<1>2. b \in Nat /\ raw \subseteq Int
  BY <1>1 DEF Bits
<1>3. Read(c, p, off) = {m - p.shift : m \in {m \in raw : m >= p.shift /\ (p.mask # {} => m \in p.mask)}}
  BY DEF Read
<1> HIDE DEF raw
<1>4. b \in Read(c, p, off) <=> n \in raw /\ (p.mask # {} => n \in p.mask)
  <2>1. ASSUME b \in Read(c, p, off) PROVE n \in raw /\ (p.mask # {} => n \in p.mask)
    <3>1. PICK m \in raw : m >= p.shift /\ (p.mask # {} => m \in p.mask) /\ b = m - p.shift
      BY <1>3, <2>1
    <3>2. m = n
      BY <1>2, <3>1
    <3> QED BY <3>1, <3>2
  <2>2. ASSUME n \in raw, p.mask # {} => n \in p.mask PROVE b \in Read(c, p, off)
    <3>1. n >= p.shift /\ n - p.shift = b
      BY <1>2
    <3> HIDE DEF n
    <3> QED BY <1>3, <2>2, <3>1
  <2> QED BY <2>1, <2>2
<1> HIDE DEF n
<1>5. n \in raw /\ (p.mask # {} => n \in p.mask) <=> n \in field /\ IsSet(CellAt(c, p.offset + off, n))
  BY <1>1
<1>6. b \in Cast(c, Read(c, p, off)) <=> b \in Bits(c.elem) /\ b \in Read(c, p, off)
  BY DEF Cast
<1> QED BY <1>4, <1>5, <1>6 DEF n

\* Bit b of element k of a record, as the BAR has it.
Shown(r, k, b) ==
  /\ b \in Bits(db[r].elem) /\ b + pvt[r].shift \in Field(r)
  /\ IsSet(Cell(r, k - 1, b + pvt[r].shift))

\* Whoever has been read since the last write shows what is there, as far as it
\* has come.
TruthInv ==
  \A r \in fresh : \A k \in DOMAIN val[r] : \A b \in Bits(4) : b \in val[r][k] <=> Shown(r, k, b)

LEMMA ShownStays ==
  ASSUME NEW r, UNCHANGED <<cpu, db, mem>>, pvt'[r] = pvt[r]
  PROVE  \A k, b : Shown(r, k, b)' <=> Shown(r, k, b)
BY DEF Shown, Field, Cell, IsSet

LEMMA TruthInitKeeps ==
  ASSUME BarInv, TypeInv, TruthInv, NEW r \in Records, InitRecord(r)
  PROVE  TruthInv'
<1> DEFINE c == db[r]  p == Options(db[r])
<1>1. /\ status[r] = "new" /\ UNCHANGED <<cpu, db, mem>> /\ ~Throws(c)
      /\ pvt' = [pvt EXCEPT ![r] = p]
      /\ \/ val' = val /\ fresh' = fresh
         \/ val' = [val EXCEPT ![r] = ReadArray(c, p, c.nelm)] /\ fresh' = fresh \cup {r}
  BY DEF InitRecord
<1>2. r \notin fresh /\ fresh \subseteq Records
  BY <1>1 DEF TypeInv, Ready
<1>3. pvt'[r] = p /\ \A q \in fresh : pvt'[q] = pvt[q] /\ val'[q] = val[q]
  BY <1>1, <1>2 DEF BarInv, TypeInv
<1>4. ASSUME NEW q \in fresh
      PROVE  \A k \in DOMAIN val'[q] : \A b \in Bits(4) : b \in val'[q][k] <=> Shown(q, k, b)'
  BY <1>1, <1>3, ShownStays DEF TruthInv
<1>5. ASSUME val' = [val EXCEPT ![r] = ReadArray(c, p, c.nelm)],
             NEW k \in DOMAIN val'[r], NEW b \in Bits(4)
      PROVE  b \in val'[r][k] <=> Shown(r, k, b)'
  <2> DEFINE off == ElemAddr(p, k - 1)
             n == b + p.shift
  <2>1. db \in Databases /\ cpu \in Cpus /\ MemType /\ c.nelm \in Nat /\ c.size \in Nat
        /\ c.ord \in {"NAT", "BE", "LE"}
    <3>1. db \in Databases /\ cpu \in Cpus /\ MemType
      BY DEF BarInv, TypeInv
    <3> QED BY <3>1, LinkTypes
  <2>2. val'[r] = ReadArray(c, p, c.nelm)
    BY <1>5 DEF TypeInv
  <2>3. k \in Nat \ {0} /\ val'[r][k] = Cast(c, Read(c, p, off))
    <3> DEFINE count == Cardinality({i \in 0 .. c.nelm - 1 : Within(p, i)})
    <3>1. val'[r] = [j \in 1 .. count |-> Cast(c, Read(c, p, ElemAddr(p, j - 1)))]
      BY <2>2 DEF ReadArray
    <3> HIDE DEF count
    <3>2. k \in 1 .. count
      BY <1>5, <3>1
    <3> QED BY <3>1, <3>2
  <2>4. k - 1 \in Nat
    BY <2>3
  <2>5. p.shift \in Nat /\ p.offset \in Nat /\ off \in Nat
    BY <1>1, <2>1, <2>4, OptionTypes
  <2>6. b \in val'[r][k] <=>
           /\ b \in Bits(c.elem)
           /\ n \in IF p.mask = {} THEN Bits(c.size) ELSE p.mask \cap Bits(c.size)
           /\ IsSet(CellAt(c, p.offset + off, n))
    <3>1. p.offset + off \in Nat
      BY <2>5
    <3> HIDE DEF off
    <3>2. b \in Cast(c, Read(c, p, off)) <=>
           /\ b \in Bits(c.elem)
           /\ n \in IF p.mask = {} THEN Bits(c.size) ELSE p.mask \cap Bits(c.size)
           /\ IsSet(CellAt(c, p.offset + off, n))
      BY <2>1, <2>5, <3>1, ReadBit
    <3> HIDE DEF n, c, p
    <3> QED BY <2>3, <3>2
  <2>7. Shown(r, k, b)' <=>
           /\ b \in Bits(c.elem)
           /\ n \in IF p.mask = {} THEN Bits(c.size) ELSE p.mask \cap Bits(c.size)
           /\ IsSet(CellAt(c, p.offset + off, n))
    BY <1>1, <1>3 DEF Shown, Field, Cell, CellAt, ByteOf, Big, IsSet
  <2> QED BY <2>6, <2>7
<1> QED BY <1>1, <1>4, <1>5 DEF TruthInv

LEMMA TruthReadKeeps ==
  ASSUME BarInv, TypeInv, TruthInv, NEW r \in Records, ReadElement(r)
  PROVE  TruthInv'
<1> DEFINE c == db[r]  p == pvt[r]  i == busy[r].i  off == ElemAddr(p, i)
           x == Cast(c, Read(c, p, off))
<1>1. /\ UNCHANGED <<cpu, db, mem, pvt, fresh>> /\ c.dir = "read"
      /\ val' = [val EXCEPT ![r] = Append(val[r], x)]
  BY DEF ReadElement, dbVars
<1>2. status[r] = "ready" /\ i \in Nat /\ busy[r].on
  BY LoopStep
<1>3. /\ cpu \in Cpus /\ MemType /\ c.size \in Nat /\ c.ord \in {"NAT", "BE", "LE"}
      /\ p.shift \in Nat /\ p.offset + off \in Nat
  BY <1>2, KnownRecord
<1>4. val[r] \in Seq(SUBSET Nat) /\ Len(val[r]) = i /\ fresh \subseteq Records
  BY <1>1, <1>2 DEF TypeInv, ElementsInv, Ready
<1>5. \A b \in Bits(4) : b \in x <=> Shown(r, i + 1, b)
  <2> TAKE b \in Bits(4)
  <2> DEFINE n == b + p.shift
  <2>1. b \in x <=>
           /\ b \in Bits(c.elem)
           /\ n \in IF p.mask = {} THEN Bits(c.size) ELSE p.mask \cap Bits(c.size)
           /\ IsSet(CellAt(c, p.offset + off, n))
    <3> HIDE DEF off
    <3> QED BY <1>3, ReadBit
  <2>2. (i + 1) - 1 = i
    BY <1>2
  <2>3. Shown(r, i + 1, b) <=>
           /\ b \in Bits(c.elem)
           /\ n \in IF p.mask = {} THEN Bits(c.size) ELSE p.mask \cap Bits(c.size)
           /\ IsSet(CellAt(c, p.offset + off, n))
    BY <2>2, CellIs DEF Shown, Field
  <2> QED BY <2>1, <2>3
<1> HIDE DEF x
<1>6. ASSUME NEW q \in fresh, NEW k \in DOMAIN val'[q], NEW b \in Bits(4)
      PROVE  b \in val'[q][k] <=> Shown(q, k, b)
  <2>1. CASE q # r
    <3>1. val'[q] = val[q]
      BY <1>1, <1>4, <2>1 DEF TypeInv
    <3> QED BY <1>6, <3>1 DEF TruthInv
  <2>2. CASE q = r
    <3>1. val'[r] = Append(val[r], x)
      BY <1>1, <1>4 DEF TypeInv
    <3>2. (val'[r][k] = x /\ k = i + 1) \/ (val'[r][k] = val[r][k] /\ k \in DOMAIN val[r])
      <4>1. x \in SUBSET Nat
        BY CastType DEF x
      <4> DEFINE s == val[r]
      <4>2. s \in Seq(SUBSET Nat) /\ Len(s) \in Nat /\ i = Len(s) /\ DOMAIN s = 1 .. Len(s)
        BY <1>4
      <4> HIDE DEF i, s
      <4>3. /\ DOMAIN Append(s, x) = 1 .. Len(s) + 1 /\ Append(s, x)[Len(s) + 1] = x
            /\ \A j \in 1 .. Len(s) : Append(s, x)[j] = s[j]
        BY <4>1, <4>2
      <4>4. k \in 1 .. Len(s) + 1 /\ val'[r] = Append(s, x)
        BY <1>6, <2>2, <3>1, <4>3 DEF s
      <4>5. k = Len(s) + 1 \/ k \in 1 .. Len(s)
        BY <4>2, <4>4
      <4>6. (val'[r][k] = x /\ k = i + 1) \/ (val'[r][k] = s[k] /\ k \in DOMAIN s)
        <5> DEFINE t == Append(s, x)
        <5>a. t[Len(s) + 1] = x /\ (\A j \in 1 .. Len(s) : t[j] = s[j]) /\ val'[r] = t
          BY <4>3, <4>4
        <5> HIDE DEF t
        <5>1. CASE k = Len(s) + 1
          <6>1. t[k] = x
            BY <5>a, <5>1
          <6>2. k = i + 1
            BY <4>2, <5>1
          <6>3. val'[r][k] = x
            <7>1. val'[r] = t
              BY <5>a
            <7> HIDE DEF t, x
            <7> QED BY <6>1, <7>1
          <6> QED BY <6>2, <6>3
        <5>2. CASE k \in 1 .. Len(s)
          BY <4>2, <5>a, <5>2
        <5> QED BY <4>5, <5>1, <5>2
      <4> QED BY <4>6 DEF s
    <3>3. r \in fresh
      BY <1>6, <2>2
    <3>4. CASE val'[r][k] = x /\ k = i + 1
      BY <1>5, <2>2, <3>4
    <3>5. CASE val'[r][k] = val[r][k] /\ k \in DOMAIN val[r]
      BY <2>2, <3>3, <3>5 DEF TruthInv
    <3> QED BY <3>2, <3>4, <3>5
  <2> QED BY <2>1, <2>2
<1>7. \A q, k, b : Shown(q, k, b)' <=> Shown(q, k, b)
  BY <1>1, ShownStays
<1> QED BY <1>1, <1>6, <1>7 DEF TruthInv

LEMMA TruthKeeps ==
  ASSUME BarInv, TypeInv, TruthInv, [Next]_vars
  PROVE  TruthInv'
<1>1. fresh \subseteq Records
  BY DEF TypeInv, Ready
<1>2. ASSUME UNCHANGED <<cpu, db, mem, pvt>>,
             NEW r \in Records, fresh' \subseteq fresh \cup {r},
             \A q \in fresh' \ {r} : val'[q] = val[q],
             r \in fresh' => val'[r] = <<>> \/ (r \in fresh /\ val'[r] = val[r])
      PROVE  TruthInv'
  <2> SUFFICES ASSUME NEW q \in fresh', NEW k \in DOMAIN val'[q], NEW b \in Bits(4)
               PROVE  b \in val'[q][k] <=> Shown(q, k, b)'
    BY DEF TruthInv
  <2>1. val'[q] # <<>>
    OBVIOUS
  <2>2. q \in fresh /\ val'[q] = val[q]
    BY <1>2, <2>1
  <2>3. Shown(q, k, b)' <=> Shown(q, k, b)
    BY <1>2, ShownStays
  <2> QED BY <2>2, <2>3 DEF TruthInv
<1>3. CASE UNCHANGED vars
  <2>1. UNCHANGED <<cpu, db, mem, pvt, val, fresh>>
    BY <1>3 DEF vars, dbVars
  <2>2. \A q, k, b : Shown(q, k, b)' <=> Shown(q, k, b)
    BY <2>1, ShownStays
  <2> QED BY <2>1, <2>2 DEF TruthInv
<1>4. ASSUME NEW r \in Records, InitFails(r) \/ ProcessBadType(r) \/ ReadOld(r) \/ Finish(r)
      PROVE  TruthInv'
  <2>1. UNCHANGED <<cpu, db, mem, pvt, val, fresh>>
    BY <1>4 DEF InitFails, ProcessBadType, ReadOld, Finish, dbVars
  <2> QED BY <1>2, <2>1
<1>5. ASSUME NEW r \in Records, ReadBegin(r) \/ \E v \in Values : WriteBegin(r, v)
      PROVE  TruthInv'
  <2>1. /\ UNCHANGED <<cpu, db, mem, pvt>> /\ fresh' \subseteq fresh \cup {r}
        /\ \A q \in Records \ {r} : val'[q] = val[q]
        /\ r \in fresh' => val'[r] = <<>>
    BY <1>5 DEF ReadBegin, WriteBegin, dbVars, TypeInv
  <2> QED BY <1>1, <1>2, <2>1
<1>6. ASSUME NEW r \in Records, WriteElement(r)
      PROVE  TruthInv'
  BY <1>6 DEF WriteElement, TruthInv
<1> QED BY <1>3, <1>4, <1>5, <1>6, TruthInitKeeps, TruthReadKeeps DEF Next

\* read(), readArray(): a record that was read since the BAR was last written shows
\* the bits of its field, on every CPU and in every byte order, with any mask,
\* shift, step and type of the elements.
THEOREM ShowsTheBar == Spec => []ReadsTruth
<1>1. Init => TruthInv
  BY DEF Init, TruthInv
<1>2. TruthInv => ReadsTruth
  BY DEF TruthInv, ReadsTruth, Shown
<1>3. BarInv /\ TypeInv /\ TruthInv /\ [Next]_vars => TruthInv'
  BY TruthKeeps
<1> QED BY <1>1, <1>2, <1>3, TypesHold, PTL DEF Spec

-----------------------------------------------------------------------------
(* What a record that writes leaves in the BAR.                            *)

\* The size of a BAR is a power of two that epicsUInt32 can hold, so the sum
\* that parseLink() compares with it does not wrap.
RoomForSum == BarSize + 4 <= Wrap

\* The locks of the database keep those apart that are in one lock set; nothing
\* is processed before all is initialised; and what a write with a mask has read of
\* the cells of a record that has them for itself is still there.
LockInv ==
  /\ \A q \in Records : busy[q].on \/ last[q] # <<>> => \A s \in Records : status[s] # "new"
  /\ \A p, q \in Records : p # q /\ busy[p].on /\ busy[q].on => db[p].lockset # db[q].lockset
  /\ \A q \in Records : busy[q].old # <<>> => busy[q].on /\ db[q].dir = "write"
OldInv ==
  \A r \in Ready : \A q \in Ready \ {r} :
    Alone(r) /\ busy[q].old # <<>> /\ db[q].lockset = db[r].lockset =>
      \A n \in Bits(db[q].size) : Cell(q, busy[q].i, n) \in Cells(r) =>
        (n \in busy[q].old[1] <=> IsSet(Cell(q, busy[q].i, n)))

LostInv == LockInv /\ OldInv /\ NothingLost

LEMMA LinksStay ==
  ASSUME UNCHANGED dbVars
  PROVE  /\ Ready' = Ready
         /\ \A r, i, n : Cell(r, i, n)' = Cell(r, i, n)
         /\ \A r : /\ Cells(r)' = Cells(r) /\ Span(r)' = Span(r) /\ Field(r)' = Field(r)
                   /\ Alone(r)' <=> Alone(r)
<1>1. cpu' = cpu /\ db' = db /\ pvt' = pvt /\ Ready' = Ready
  BY DEF dbVars, Ready
<1>2. \A r, i, n : Cell(r, i, n)' = Cell(r, i, n)
  BY <1>1 DEF Cell
<1>3. \A r : Field(r)' = Field(r) /\ Elements(r)' = Elements(r)
  BY <1>1 DEF Field, Elements
<1>4. \A r : Cells(r)' = Cells(r) /\ Span(r)' = Span(r)
  BY <1>1, <1>2, <1>3 DEF Cells, Span
<1>5. \A r : Alone(r)' <=> Alone(r)
  BY <1>1, <1>4 DEF Alone
<1> QED BY <1>1, <1>2, <1>3, <1>4, <1>5

\* A step that leaves the BAR alone, and what the writes with a mask have read.
LEMMA QuietKeepsLost ==
  ASSUME LostInv, UNCHANGED <<dbVars, mem, last>>,
         \A q \in Records : busy'[q].old # <<>> => busy'[q].old = busy[q].old /\ busy'[q].i = busy[q].i
  PROVE  OldInv' /\ NothingLost'
<1>1. mem' = mem /\ last' = last /\ cpu' = cpu /\ db' = db /\ pvt' = pvt
  BY DEF dbVars
<1>2. \A x : IsSet(x)' <=> IsSet(x)
  BY <1>1 DEF IsSet
<1>3. NothingLost'
  BY <1>1, <1>2, LinksStay DEF LostInv, NothingLost
<1>4. OldInv'
  <2> SUFFICES ASSUME NEW r \in Ready', NEW q \in Ready' \ {r}, Alone(r)', busy'[q].old # <<>>,
                      db'[q].lockset = db'[r].lockset, NEW n \in Bits(db'[q].size),
                      Cell(q, busy[q].i, n)' \in Cells(r)'
               PROVE  n \in busy'[q].old[1] <=> IsSet(Cell(q, busy[q].i, n))'
    BY DEF OldInv
  <2>1. r \in Ready /\ q \in Ready \ {r} /\ Alone(r) /\ q \in Records
    BY LinksStay DEF Ready
  <2>2. busy'[q].old = busy[q].old /\ busy'[q].i = busy[q].i
    BY <2>1
  <2>3. Cell(q, busy[q].i, n)' = Cell(q, busy[q].i, n)
    BY <1>1, <2>2 DEF Cell
  <2>4. Cells(r)' = Cells(r)
    BY LinksStay
  <2> QED BY <1>1, <1>2, <2>1, <2>2, <2>3, <2>4 DEF LostInv, OldInv
<1> QED BY <1>3, <1>4

\* What a write does to the register.
LEMMA WriteEffect ==
  ASSUME BarInv, TypeInv, NEW p \in Records, WriteElement(p),
         NEW at, at = pvt[p].offset + ElemAddr(pvt[p], busy[p].i),
         NEW new, new = Merge(pvt[p], val[p][busy[p].i + 1], IF pvt[p].mask = {} THEN {} ELSE busy[p].old[1])
  PROVE  /\ at \in Nat /\ db[p].size \in Nat
         /\ \A a \in 0 .. BarSize - 1 : a \notin at .. at + db[p].size - 1 => mem'[a] = mem[a]
         /\ \A n \in Bits(db[p].size) :
              /\ Cell(p, busy[p].i, n) = <<at + ByteOf(db[p], n), n % ByteBits>>
              /\ at + ByteOf(db[p], n) < BarSize =>
                   (n % ByteBits \in mem'[at + ByteOf(db[p], n)] <=> n \in new)
<1>1. /\ cpu \in Cpus /\ MemType /\ db[p].size \in Nat /\ db[p].ord \in {"NAT", "BE", "LE"}
      /\ at \in Nat
  <2>1. status[p] = "ready" /\ busy[p].i \in Nat
    BY LoopStep
  <2> QED BY <2>1, KnownRecord
<1>2. mem' = Written(db[p], pvt[p], ElemAddr(pvt[p], busy[p].i), new)
  BY DEF WriteElement
<1> DEFINE off == ElemAddr(pvt[p], busy[p].i)
<1>3. mem' = Written(db[p], pvt[p], off, new) /\ pvt[p].offset + off = at
  BY <1>2
<1>4. \A n : Cell(p, busy[p].i, n) = <<at + ByteOf(db[p], n), n % ByteBits>>
  BY CellIs DEF CellAt
<1> HIDE DEF off
<1>5. /\ \A a \in 0 .. BarSize - 1 : a \notin at .. at + db[p].size - 1 => mem'[a] = mem[a]
      /\ \A n \in Bits(db[p].size) : at + ByteOf(db[p], n) < BarSize =>
              (n % ByteBits \in mem'[at + ByteOf(db[p], n)] <=> n \in new)
  BY <1>1, <1>3, WrittenBit
<1> QED BY <1>1, <1>4, <1>5

\* A cell of a record lies in a byte and is one of its registers' bits.
LEMMA CellOfRecord ==
  ASSUME BarInv, TypeInv, NEW r \in Ready, NEW x \in Cells(r)
  PROVE  /\ x = <<x[1], x[2]>> /\ x[1] \in Nat /\ x[2] \in 0 .. ByteBits - 1
         /\ x[1] \in Span(r)
<1>1. PICK i \in Elements(r) : \E n \in Field(r) : x = Cell(r, i, n)
  BY DEF Cells
<1>2. PICK n \in Field(r) : x = Cell(r, i, n)
  BY <1>1
<1>3. r \in Records /\ status[r] = "ready" /\ i \in Nat /\ n \in Bits(db[r].size)
  BY <1>1, <1>2 DEF Ready, Elements, Field
<1>4. db[r].size \in Nat /\ pvt[r].offset + ElemAddr(pvt[r], i) \in Nat
  BY <1>3, KnownRecord
<1>5. x = <<pvt[r].offset + ElemAddr(pvt[r], i) + ByteOf(db[r], n), n % ByteBits>>
  BY <1>2, CellIs DEF CellAt
<1>6. ByteOf(db[r], n) \in Nat /\ n % ByteBits \in 0 .. ByteBits - 1
  BY <1>3, <1>4, ByteInRegister
<1>7. x[1] \in Span(r)
  BY <1>1, <1>2, <1>3 DEF Span
<1> QED BY <1>4, <1>5, <1>6, <1>7

\* A write of one record changes no cell that another one has for itself.
LEMMA OthersKept ==
  ASSUME BarInv, TypeInv, LostInv, NEW p \in Records, WriteElement(p),
         NEW r \in Ready \ {p}, Alone(r), NEW x \in Cells(r)
  PROVE  IsSet(x)' <=> IsSet(x)
<1> DEFINE i == busy[p].i
           s == db[p].size
           at == pvt[p].offset + ElemAddr(pvt[p], i)
           old == IF pvt[p].mask = {} THEN {} ELSE busy[p].old[1]
           new == Merge(pvt[p], val[p][i + 1], old)
<1>1. /\ at \in Nat /\ s \in Nat
      /\ \A a \in 0 .. BarSize - 1 : a \notin at .. at + s - 1 => mem'[a] = mem[a]
      /\ \A n \in Bits(s) :
           /\ Cell(p, i, n) = <<at + ByteOf(db[p], n), n % ByteBits>>
           /\ at + ByteOf(db[p], n) < BarSize =>
                (n % ByteBits \in mem'[at + ByteOf(db[p], n)] <=> n \in new)
  BY WriteEffect
<1>2. /\ x = <<x[1], x[2]>> /\ x[1] \in Nat /\ x[2] \in 0 .. ByteBits - 1 /\ x[1] \in Span(r)
  BY CellOfRecord
<1>3. p \in Ready /\ db[p].dir = "write" /\ i \in Elements(p)
  <2>1. status[p] = "ready" /\ i \in Nat /\ i < Len(val[p]) /\ Within(pvt[p], i) /\ db[p].dir = "write"
    BY LoopStep DEF WriteElement, Count
  <2>2. Len(val[p]) <= db[p].nelm /\ Len(val[p]) \in Nat /\ db[p].nelm \in Nat
    <3>1. db[p].nelm \in Nat
      BY <2>1, KnownRecord
    <3> QED BY <3>1 DEF TypeInv, ElementsInv
  <2> HIDE DEF i
  <2>3. i \in 0 .. db[p].nelm - 1
    BY <2>1, <2>2
  <2>4. p \in Ready
    BY <2>1 DEF Ready
  <2>5. i \in Elements(p)
    BY <2>1, <2>3 DEF Elements
  <2> QED BY <2>1, <2>4, <2>5, Zenon
<1>4. BarSize \in Nat
  BY SizesAssumption
<1> HIDE DEF at, s, new, i
<1>5. CASE x[1] >= BarSize
  BY <1>2, <1>4, <1>5 DEF IsSet
<1>6. CASE x[1] < BarSize /\ x[1] \notin at .. at + s - 1
  <2>1. mem'[x[1]] = mem[x[1]]
    BY <1>1, <1>2, <1>4, <1>6
  <2> QED BY <2>1 DEF IsSet
<1>7. CASE x[1] < BarSize /\ x[1] \in at .. at + s - 1
  <2>1. x[1] - at \in 0 .. s - 1
    BY <1>1, <1>2, <1>7
  <2>2. PICK n \in Bits(s) : ByteOf(db[p], n) = x[1] - at /\ n % ByteBits = x[2]
    BY <1>1, <1>2, <2>1, BitAt DEF s
  <2>3. at + ByteOf(db[p], n) = x[1]
    BY <1>1, <1>2, <2>2
  <2>4. Cell(p, i, n) = x
    BY <1>1, <1>2, <2>2, <2>3
  <2>5. x[1] \in Span(p)
    BY <1>3, <2>4 DEF Span, s
  <2>6. Cells(p) \cap Cells(r) = {} /\ db[p].lockset = db[r].lockset
    BY <1>2, <1>3, <2>5 DEF Alone
  <2>7. n \notin Field(p)
    BY <1>3, <2>4, <2>6 DEF Cells
  <2>8. pvt[p].mask # {} /\ n \notin pvt[p].mask
    BY <2>7 DEF Field, s
  <2>9. busy[p].old # <<>>
    BY <2>8 DEF WriteElement
  <2>10. n \in busy[p].old[1] <=> IsSet(x)
    BY <1>3, <2>4, <2>6, <2>9 DEF LostInv, OldInv, i, s
  <2>11. n \in new <=> n \in busy[p].old[1]
    BY <2>8 DEF new, Merge
  <2>12. x[2] \in mem'[x[1]] <=> n \in new
    BY <1>1, <1>7, <2>2, <2>3
  <2> QED BY <1>7, <2>10, <2>11, <2>12 DEF IsSet
<1> QED BY <1>2, <1>4, <1>5, <1>6, <1>7

\* The register of a record lies in the BAR.
LEMMA RegisterInBar ==
  ASSUME RoomForSum, BarInv, TypeInv, NEW r \in Ready, ~db[r].array
  PROVE  /\ pvt[r].offset + db[r].size <= BarSize
         /\ ElemAddr(pvt[r], 0) = 0 /\ 0 \in Elements(r) /\ db[r].nelm = 1
<1>1. /\ r \in Records /\ status[r] = "ready"
      /\ db \in Databases /\ ~Throws(db[r]) /\ ~OutOfRange(db[r]) /\ pvt[r] = Options(db[r])
      /\ db[r].size \in {1, 2, 4} /\ pvt[r].offset \in Nat
  BY KnownRecord DEF Ready
<1> DEFINE o == pvt[r].offset  sum == o + db[r].size
<1>2. o < BarSize /\ sum % Wrap <= BarSize
  BY <1>1, SizesAssumption DEF OutOfRange
<1>3. sum \in Nat /\ sum < Wrap
  BY <1>1, <1>2, SizesAssumption DEF RoomForSum
<1>4. sum % Wrap = sum
  BY <1>3, SizesAssumption
<1>5. pvt[r].step \in Nat
  BY <1>1, OptionsAssumption, SizesAssumption
<1>6. ElemAddr(pvt[r], 0) = 0
  <2>1. 0 * pvt[r].step = 0
    BY <1>5
  <2>2. 0 % Wrap = 0
    BY SizesAssumption
  <2> QED BY <2>1, <2>2 DEF ElemAddr
<1>7. Within(pvt[r], 0)
  <2>1. \A j \in 0 .. 0 : j = 0
    OBVIOUS
  <2>2. 0 < BarSize - o
    BY <1>1, <1>2, SizesAssumption
  <2> QED BY <1>6, <2>1, <2>2 DEF Within
<1>8. db[r].nelm = 1
  BY <1>1, DatabasesAssumption
<1>9. 0 \in Elements(r)
  BY <1>7, <1>8 DEF Elements
<1> QED BY <1>2, <1>4, <1>6, <1>8, <1>9

\* The field of a record is as the record has just written it.
LEMMA OwnWritten ==
  ASSUME RoomForSum, BarInv, TypeInv, NEW r \in Ready, ~db[r].array, WriteElement(r)
  PROVE  \A b \in Field(r) : IsSet(Cell(r, 0, b))' <=> b - pvt[r].shift \in last'[r][1]
<1> DEFINE s == db[r].size
           at == pvt[r].offset + ElemAddr(pvt[r], busy[r].i)
           v == val[r][busy[r].i + 1]
           old == IF pvt[r].mask = {} THEN {} ELSE busy[r].old[1]
           new == Merge(pvt[r], v, old)
<1>0. r \in Records
  BY DEF Ready
<1>1. /\ at \in Nat /\ s \in Nat
      /\ \A n \in Bits(s) :
           /\ Cell(r, busy[r].i, n) = <<at + ByteOf(db[r], n), n % ByteBits>>
           /\ at + ByteOf(db[r], n) < BarSize =>
                (n % ByteBits \in mem'[at + ByteOf(db[r], n)] <=> n \in new)
  BY <1>0, WriteEffect
<1>2. busy[r].i = 0 /\ v \in SUBSET Nat /\ last'[r] = <<v>> /\ pvt[r].shift \in Nat
  <2>1. /\ busy[r].i \in Nat /\ busy[r].i < Len(val[r]) /\ status[r] = "ready"
        /\ last' = [last EXCEPT ![r] = <<v>>]
    BY <1>0, LoopStep DEF WriteElement, Count
  <2>2. Len(val[r]) <= 1 /\ val[r] \in Seq(SUBSET Nat)
    BY <1>0, RegisterInBar DEF TypeInv, ElementsInv
  <2>3. Len(val[r]) \in Nat
    BY <2>2
  <2>4. busy[r].i = 0 /\ busy[r].i + 1 \in 1 .. Len(val[r])
    BY <2>1, <2>2, <2>3
  <2>5. pvt[r].shift \in Nat
    BY <1>0, <2>1, KnownRecord
  <2>6. v \in SUBSET Nat
    BY <2>2, <2>4
  <2>7. last'[r] = <<v>>
    BY <1>0, <2>1 DEF TypeInv
  <2> QED BY <2>4, <2>5, <2>6, <2>7
<1>3. at + s <= BarSize
  BY <1>2, RegisterInBar, KnownRecord DEF Ready
<1>4. UNCHANGED dbVars
  BY DEF WriteElement
<1> HIDE DEF at, s, new, v
<1>5. ASSUME NEW b \in Field(r)
      PROVE  IsSet(Cell(r, 0, b))' <=> b - pvt[r].shift \in last'[r][1]
  <2>1. b \in Bits(s) /\ b \in Int /\ (pvt[r].mask # {} => b \in pvt[r].mask)
    BY <1>5 DEF Field, Bits, s
  <2>2. ByteOf(db[r], b) \in 0 .. s - 1
    BY <1>1, <2>1, ByteInRegister DEF s
  <2>3. at + ByteOf(db[r], b) < BarSize
    BY <1>1, <1>3, <2>2, SizesAssumption
  <2>4. Cell(r, 0, b)' = <<at + ByteOf(db[r], b), b % ByteBits>>
    BY <1>1, <1>2, <1>4, <2>1, LinksStay
  <2>5. IsSet(Cell(r, 0, b))' <=> b \in new
    <3> DEFINE x == <<at + ByteOf(db[r], b), b % ByteBits>>
    <3>1. IsSet(Cell(r, 0, b))' <=> (x[1] < BarSize /\ x[2] \in mem'[x[1]])
      BY <2>4 DEF IsSet
    <3> QED BY <1>1, <2>1, <2>3, <3>1
  <2>6. b \in new <=> b \in Shifted(pvt[r], v)
    BY <2>1 DEF new, Merge
  <2>7. b \in Shifted(pvt[r], v) <=> b - pvt[r].shift \in v
    <3>1. ASSUME b \in Shifted(pvt[r], v) PROVE b - pvt[r].shift \in v
      <4>1. PICK m \in v : b = m + pvt[r].shift
        BY <3>1 DEF Shifted
      <4>2. m = b - pvt[r].shift
        BY <1>2, <4>1
      <4> QED BY <4>1, <4>2
    <3>2. ASSUME b - pvt[r].shift \in v PROVE b \in Shifted(pvt[r], v)
      <4>1. (b - pvt[r].shift) + pvt[r].shift = b
        BY <1>2, <2>1
      <4> QED BY <3>2, <4>1 DEF Shifted
    <3> QED BY <3>1, <3>2
  <2> QED BY <1>2, <2>5, <2>6, <2>7
<1> QED BY <1>5

LEMMA WriteKeepsLost ==
  ASSUME RoomForSum, BarInv, TypeInv, LostInv, NEW p \in Records, WriteElement(p)
  PROVE  LostInv'
<1>1. UNCHANGED <<cpu, db, status, pvt>> /\ UNCHANGED dbVars
      /\ last' = [last EXCEPT ![p] = <<val[p][busy[p].i + 1]>>]
  BY DEF WriteElement, dbVars
<1>2. /\ status[p] = "ready" /\ busy[p].on /\ busy'[p].on /\ busy'[p].old = <<>>
      /\ \A q \in Records \ {p} : busy'[q] = busy[q]
  BY LoopStep
<1>3. \A s \in Records : status[s] # "new"
  BY <1>2 DEF LostInv, LockInv
<1>4. LockInv'
  BY <1>1, <1>2, <1>3 DEF LostInv, LockInv
<1>5. ASSUME NEW r \in Ready', NEW q \in Ready' \ {r}, Alone(r)', busy'[q].old # <<>>,
             db'[q].lockset = db'[r].lockset, NEW n \in Bits(db'[q].size),
             Cell(q, busy[q].i, n)' \in Cells(r)'
      PROVE  n \in busy'[q].old[1] <=> IsSet(Cell(q, busy[q].i, n))'
  <2>1. r \in Ready /\ q \in Ready \ {r} /\ Alone(r) /\ q \in Records /\ r \in Records
    BY <1>1, <1>5, LinksStay DEF Ready
  <2>2. q # p /\ busy'[q] = busy[q] /\ busy[q].old # <<>> /\ busy[q].on
    BY <1>2, <1>5, <2>1 DEF LostInv, LockInv
  <2>3. r # p
    BY <1>1, <1>2, <1>5, <2>1, <2>2 DEF LostInv, LockInv
  <2> DEFINE x == Cell(q, busy[q].i, n)
  <2>4. Cell(q, busy[q].i, n)' = x
    BY <1>1, <2>2 DEF Cell
  <2>5. x \in Cells(r)
    <3>1. Cells(r)' = Cells(r)
      BY <1>1, LinksStay
    <3> QED BY <1>5, <2>4, <3>1
  <2>6. n \in busy[q].old[1] <=> IsSet(x)
    BY <1>1, <1>5, <2>1, <2>2, <2>5 DEF LostInv, OldInv
  <2> HIDE DEF x
  <2>7. (x[1] < BarSize /\ x[2] \in mem'[x[1]]) <=> IsSet(x)
    <3> SUFFICES ASSUME NEW y, y = x PROVE (y[1] < BarSize /\ y[2] \in mem'[y[1]]) <=> IsSet(y)
      OBVIOUS
    <3>1. y \in Cells(r) /\ r \in Ready \ {p}
      BY <2>1, <2>3, <2>5
    <3>2. \A z \in Cells(r) : IsSet(z)' <=> IsSet(z)
      BY <2>1, <3>1, OthersKept
    <3>3. \A z \in Cells(r) : (z[1] < BarSize /\ z[2] \in mem'[z[1]]) <=> IsSet(z)
      BY <3>2 DEF IsSet
    <3> QED BY <3>1, <3>3
  <2>8. IsSet(Cell(q, busy[q].i, n))' <=> (x[1] < BarSize /\ x[2] \in mem'[x[1]])
    BY <2>4 DEF IsSet
  <2> QED BY <2>2, <2>6, <2>7, <2>8
<1>6. OldInv'
  BY <1>5 DEF OldInv
<1>7. ASSUME NEW r \in Ready', ~db'[r].array, last'[r] # <<>>, Alone(r)', NEW b \in Field(r)'
      PROVE  IsSet(Cell(r, 0, b))' <=> b - pvt'[r].shift \in last'[r][1]
  <2>1. r \in Ready /\ ~db[r].array /\ Alone(r) /\ b \in Field(r) /\ pvt'[r] = pvt[r] /\ r \in Records
    BY <1>1, <1>7, LinksStay DEF Ready
  <2>2. CASE r = p
    <3>1. IsSet(Cell(r, 0, b))' <=> b - pvt[r].shift \in last'[r][1]
      BY <2>1, <2>2, OwnWritten
    <3> QED BY <2>1, <3>1
  <2>3. CASE r # p
    <3> DEFINE x == Cell(r, 0, b)
    <3>1. last'[r] = last[r]
      BY <1>1, <2>1, <2>3 DEF TypeInv
    <3>2. IsSet(x) <=> b - pvt[r].shift \in last[r][1]
      BY <1>7, <2>1, <3>1 DEF LostInv, NothingLost
    <3>3. 0 \in Elements(r)
      BY <2>1, RegisterInBar
    <3>4. x \in Cells(r)
      BY <2>1, <3>3 DEF Cells
    <3>5. \A z \in Cells(r) : IsSet(z)' <=> IsSet(z)
      BY <2>1, <2>3, OthersKept
    <3>6. \A z \in Cells(r) : (z[1] < BarSize /\ z[2] \in mem'[z[1]]) <=> IsSet(z)
      BY <3>5 DEF IsSet
    <3>7. Cell(r, 0, b)' = x
      BY <1>1, LinksStay
    <3> HIDE DEF x
    <3>8. IsSet(Cell(r, 0, b))' <=> (x[1] < BarSize /\ x[2] \in mem'[x[1]])
      BY <3>7 DEF IsSet
    <3> QED BY <2>1, <3>1, <3>2, <3>4, <3>6, <3>8
  <2> QED BY <2>2, <2>3
<1>8. NothingLost'
  BY <1>7 DEF NothingLost
<1> QED BY <1>4, <1>6, <1>8 DEF LostInv

\* The first half of a write with a mask.
LEMMA ReadOldKeepsLost ==
  ASSUME BarInv, TypeInv, LostInv, NEW p \in Records, ReadOld(p)
  PROVE  LostInv'
<1> DEFINE raw == Readraw(db[p], pvt[p], ElemAddr(pvt[p], busy[p].i))
<1>1. UNCHANGED <<cpu, db, status, pvt, mem, last>> /\ UNCHANGED dbVars /\ db[p].dir = "write"
  BY DEF ReadOld, dbVars
<1>2. /\ status[p] = "ready" /\ busy[p].on /\ busy'[p].on /\ busy[p].i \in Nat
      /\ busy'[p].old = <<raw>> /\ busy'[p].i = busy[p].i
      /\ \A q \in Records \ {p} : busy'[q] = busy[q]
  BY LoopStep
<1>3. \A n \in Bits(db[p].size) : n \in raw <=> IsSet(Cell(p, busy[p].i, n))
  <2>1. /\ cpu \in Cpus /\ MemType /\ db[p].size \in Nat /\ db[p].ord \in {"NAT", "BE", "LE"}
        /\ pvt[p].offset + ElemAddr(pvt[p], busy[p].i) \in Nat
    BY <1>2, KnownRecord
  <2> DEFINE off == ElemAddr(pvt[p], busy[p].i)
  <2>2. \A n \in Bits(db[p].size) : n \in raw <=> IsSet(CellAt(db[p], pvt[p].offset + off, n))
    <3> HIDE DEF off
    <3> QED BY <2>1, RawBit DEF off
  <2> QED BY <2>2, CellIs
<1>4. LockInv'
  BY <1>1, <1>2 DEF LostInv, LockInv
<1>5. \A x : IsSet(x)' <=> IsSet(x)
  BY <1>1 DEF IsSet
<1>6. NothingLost'
  BY <1>1, <1>5, LinksStay DEF LostInv, NothingLost
<1> HIDE DEF raw
<1>7. ASSUME NEW r \in Ready', NEW q \in Ready' \ {r}, Alone(r)', busy'[q].old # <<>>,
             db'[q].lockset = db'[r].lockset, NEW n \in Bits(db'[q].size),
             Cell(q, busy[q].i, n)' \in Cells(r)'
      PROVE  n \in busy'[q].old[1] <=> IsSet(Cell(q, busy[q].i, n))'
  <2>1. r \in Ready /\ q \in Ready \ {r} /\ Alone(r) /\ q \in Records
    BY <1>1, <1>7, LinksStay DEF Ready
  <2>2. busy'[q].i = busy[q].i
    BY <1>2, <2>1
  <2>3. Cell(q, busy[q].i, n)' = Cell(q, busy[q].i, n) /\ Cells(r)' = Cells(r)
    <3>1. Cell(q, busy[q].i, n)' = Cell(q, busy[q].i, n)
      BY <1>1, <2>2 DEF Cell
    <3>2. Cells(r)' = Cells(r)
      BY <1>1, LinksStay
    <3> QED BY <3>1, <3>2
  <2>4. IsSet(Cell(q, busy[q].i, n))' <=> IsSet(Cell(q, busy[q].i, n))
    BY <1>1, <2>3 DEF IsSet
  <2>5. CASE q = p
    <3>1. busy'[q].old[1] = raw
      BY <1>2, <2>5
    <3> QED BY <1>1, <1>3, <1>7, <2>4, <2>5, <3>1
  <2>6. CASE q # p
    <3>1. busy'[q] = busy[q]
      BY <1>2, <2>1, <2>6
    <3> QED BY <1>1, <1>7, <2>1, <2>3, <2>4, <3>1 DEF LostInv, OldInv
  <2> QED BY <2>5, <2>6
<1>8. OldInv'
  BY <1>7 DEF OldInv
<1> QED BY <1>4, <1>6, <1>8 DEF LostInv

LEMMA LostKeeps ==
  ASSUME RoomForSum, BarInv, TypeInv, LostInv, [Next]_vars
  PROVE  LostInv'
<1>1. CASE UNCHANGED vars
  <2>1. UNCHANGED <<dbVars, mem, last, busy>> /\ UNCHANGED <<db, status>>
    BY <1>1 DEF vars, dbVars
  <2>2. LockInv'
    BY <2>1 DEF LostInv, LockInv
  <2> QED BY <2>1, <2>2, QuietKeepsLost DEF LostInv
<1>2. ASSUME NEW r \in Records, ProcessBadType(r)
      PROVE  LostInv'
  <2>1. UNCHANGED <<dbVars, mem, last, busy>> /\ UNCHANGED <<db, status>>
    BY <1>2 DEF ProcessBadType, dbVars
  <2>2. LockInv'
    BY <2>1 DEF LostInv, LockInv
  <2> QED BY <2>1, <2>2, QuietKeepsLost DEF LostInv
<1>3. ASSUME NEW r \in Records, InitFails(r) \/ InitRecord(r)
      PROVE  LostInv'
  <2>1. status[r] = "new" /\ UNCHANGED <<db, busy, last>>
    BY <1>3 DEF InitFails, InitRecord
  <2>2. \A q \in Records : ~busy[q].on /\ last[q] = <<>> /\ busy[q].old = <<>>
    BY <2>1 DEF LostInv, LockInv
  <2>3. LockInv'
    BY <2>1, <2>2 DEF LockInv
  <2>4. OldInv' /\ NothingLost'
    BY <2>1, <2>2 DEF OldInv, NothingLost, Ready
  <2> QED BY <2>3, <2>4 DEF LostInv
<1>4. ASSUME NEW r \in Records, ReadBegin(r) \/ \E v \in Values : WriteBegin(r, v)
      PROVE  LostInv'
  <2>1. /\ UNCHANGED <<dbVars, mem, last>> /\ UNCHANGED <<db, status>>
        /\ busy' = [busy EXCEPT ![r] = [Idle EXCEPT !.on = TRUE]]
        /\ \A q \in Records : status[q] # "new"
        /\ \A q \in Records : db[q].lockset = db[r].lockset => ~busy[q].on
    BY <1>4 DEF ReadBegin, WriteBegin, CanProcess, dbVars
  <2>2. busy'[r].on /\ busy'[r].old = <<>> /\ \A q \in Records \ {r} : busy'[q] = busy[q]
    BY <2>1, IdleType DEF TypeInv
  <2>3. LockInv'
    BY <2>1, <2>2 DEF LostInv, LockInv
  <2> QED BY <2>1, <2>2, <2>3, QuietKeepsLost DEF LostInv
<1>5. ASSUME NEW r \in Records, Finish(r)
      PROVE  LostInv'
  <2>1. UNCHANGED <<dbVars, mem, last>> /\ UNCHANGED <<db, status>> /\ busy' = [busy EXCEPT ![r] = Idle]
    BY <1>5 DEF Finish, dbVars
  <2>2. ~busy'[r].on /\ busy'[r].old = <<>> /\ \A q \in Records \ {r} : busy'[q] = busy[q]
    BY <2>1, IdleType DEF TypeInv
  <2>3. LockInv'
    BY <2>1, <2>2 DEF LostInv, LockInv
  <2> QED BY <2>1, <2>2, <2>3, QuietKeepsLost DEF LostInv
<1>6. ASSUME NEW r \in Records, ReadElement(r)
      PROVE  LostInv'
  <2>1. UNCHANGED <<dbVars, mem, last>> /\ UNCHANGED <<db, status>> /\ db[r].dir = "read"
    BY <1>6 DEF ReadElement, dbVars
  <2>2. /\ busy'[r].old = busy[r].old /\ busy[r].on /\ busy'[r].on
        /\ \A q \in Records \ {r} : busy'[q] = busy[q]
    BY <1>6, LoopStep
  <2>3. busy[r].old = <<>>
    BY <2>1 DEF LostInv, LockInv
  <2>4. LockInv'
    BY <2>1, <2>2 DEF LostInv, LockInv
  <2> QED BY <2>1, <2>2, <2>3, <2>4, QuietKeepsLost DEF LostInv
<1> QED BY <1>1, <1>2, <1>3, <1>4, <1>5, <1>6, WriteKeepsLost, ReadOldKeepsLost DEF Next

\* write(): on a BAR of up to half the addresses, a field keeps what was written
\* last if no other record writes it and those that write the same register are
\* in the same lock set; for every CPU, byte order, mask and shift, however
\* many records are processed at the same time.
THEOREM FieldsKept ==
  ASSUME RoomForSum
  PROVE  Spec => []NothingLost
<1>1. Init => LostInv
  BY DEF Init, Idle, LostInv, LockInv, OldInv, NothingLost, Ready
<1>2. LostInv => NothingLost
  BY DEF LostInv
<1>3. BarInv /\ TypeInv /\ LostInv /\ [Next]_vars => LostInv'
  BY LostKeeps
<1> QED BY <1>1, <1>2, <1>3, TypesHold, PTL DEF Spec
=============================================================================
