----------------------------- MODULE ExploreIrq -----------------------------
(***************************************************************************)
(* The "Explore IRQ Count" device support of a longin record,              *)
(* exploreApp/src/devexplore_irq.cpp, built with scanIoSetComplete()       *)
(* (EPICS Base 3.15 and later).                                            *)
(*                                                                         *)
(* The interrupt handler isrfn() asks the scan system of the IOC to        *)
(* process the record and remembers in wait_for which of the callback      *)
(* threads still have that request to carry out.  An interrupt that comes  *)
(* meanwhile is counted as lost and leaves `queued` behind, and the        *)
(* completion of the scan starts another one.                              *)
(*                                                                         *)
(* Handler, completion and read run on three threads; each is a critical   *)
(* section of priv.lock, hence one step.  The scan system is external: a   *)
(* queue of requests and a thread for each callback priority.  A record    *)
(* has a priv, an IOSCANPVT and so a place in a scan list of its own.      *)
(***************************************************************************)
EXTENDS Naturals, FiniteSets

CONSTANTS
  Prios,      \* callback priorities
  Nowhere,    \* SCAN is not "I/O Intr"
  Modulo,     \* the counters are unsigned: 2^32
  MaxIrqs     \* bound: number of interrupts

ASSUME PriosAssumption == Nowhere \notin Prios
ASSUME ModuloAssumption == Modulo \in Nat \ {0}
ASSUME MaxIrqsAssumption == MaxIrqs \in Nat

VARIABLES
  phase,      \* progress of init_record_li_irq(), then of the IOC
  attached,   \* isrfn is connected, with the priv as its argument
  alive,      \* the priv has not been deleted
  scanning,   \* the scan system runs: scanIoRequest() queues something
  place,      \* the record's priority, or Nowhere
  waitFor,    \* priv.wait_for, as a set of priorities
  queued,     \* priv.queued
  irqs,       \* priv.irqs
  lost,       \* priv.lost
  requests,   \* requests[p]: scan requests in the callback queue p
  thread,     \* thread[p]: the callback thread p
  shown,      \* the record's value
  calls,      \* history: calls of isrfn
  scans,      \* history: the record was processed by a scan request
  unseen,     \* history: an interrupt since the record was processed
  reported,   \* history: lost interrupts that were reported and reset
  disturbed   \* history: the IOC was paused, the record was moved or a callback
              \* queue was full

initVars == <<phase, attached, alive>>
iocVars == <<scanning, place>>
privVars == <<waitFor, queued, irqs, lost>>
scanVars == <<requests, thread>>
countVars == <<calls, scans, unseen, reported>>
histVars == <<countVars, disturbed>>
irqVars == <<phase, attached, alive, scanning, place, waitFor, queued, irqs, lost,
             requests, thread, shown, calls, scans, unseen, reported, disturbed>>

Phases == {"new", "connected", "ready", "stopped", "failed"}

-----------------------------------------------------------------------------
(* init_record_li_irq and isr_stop                                         *)

\* No such device, its interrupt is used, or connecting fails: the priv goes.
InitConnectFails ==
  /\ phase = "new"
  /\ phase' = "failed"
  /\ alive' = FALSE
  /\ UNCHANGED <<attached, iocVars, privVars, scanVars, shown, histVars>>

InitConnect ==
  /\ phase = "new"
  /\ phase' = "connected"
  /\ attached' = TRUE
  /\ UNCHANGED <<alive, iocVars, privVars, scanVars, shown, histVars>>

\* devPCIEnableInterrupt() fails: the priv goes, the handler stays.
InitEnableFails ==
  /\ phase = "connected"
  /\ phase' = "failed"
  /\ alive' = FALSE
  /\ UNCHANGED <<attached, iocVars, privVars, scanVars, shown, histVars>>

\* Interrupts are enabled; then the completion callback and the exit handler
\* are registered.  The scan system is not running yet.
InitDone ==
  /\ phase = "connected"
  /\ phase' = "ready"
  /\ UNCHANGED <<attached, alive, iocVars, privVars, scanVars, shown, histVars>>

\* isr_stop(), when the IOC exits.
IsrStop ==
  /\ phase = "ready"
  /\ phase' = "stopped"
  /\ attached' = FALSE
  /\ UNCHANGED <<alive, iocVars, privVars, scanVars, shown, histVars>>

-----------------------------------------------------------------------------
(* The scan system: external, as the device support uses it.               *)

\* iocRun(), after all records were initialised.
ScanRun ==
  /\ ~scanning
  /\ phase \in {"ready", "failed"}
  /\ scanning' = TRUE
  /\ UNCHANGED <<initVars, place, privVars, scanVars, shown, histVars>>

\* iocPause().
ScanPause ==
  /\ scanning
  /\ scanning' = FALSE
  /\ disturbed' = TRUE
  /\ UNCHANGED <<initVars, place, privVars, scanVars, shown, countVars>>

\* SCAN or PRIO of the record is written.
MoveRecord ==
  /\ scanning
  /\ place' \in (Prios \cup {Nowhere}) \ {place}
  /\ disturbed' = TRUE
  /\ UNCHANGED <<initVars, scanning, privVars, scanVars, shown, countVars>>

\* The priorities that scanIoRequest() wants to queue a request for; it
\* returns those whose callback queue was not full.
ScanIoRequest == IF scanning THEN {place} \ {Nowhere} ELSE {}

\* priv::doscan()
DoScan ==
  /\ waitFor' \in SUBSET ScanIoRequest
  /\ disturbed' = (disturbed \/ waitFor' # ScanIoRequest)
  /\ requests' = [p \in Prios |-> requests[p] + IF p \in waitFor' THEN 1 ELSE 0]

-----------------------------------------------------------------------------
(* isrfn                                                                   *)

Increment(n) == (n + 1) % Modulo

\* Mutant: a scan is requested although the last one has not been completed.
IsrRequestsAgain ==
  /\ lost' = Increment(lost)
  /\ UNCHANGED <<irqs, queued>>
  /\ DoScan

\* Mutant: the interrupt is counted like any other, without a scan.
IsrCountsOnly ==
  /\ irqs' = Increment(irqs)
  /\ UNCHANGED <<lost, queued, waitFor, requests, disturbed>>

\* A scan has not been completed.
IsrLost ==
  /\ lost' = Increment(lost)
  /\ queued' = TRUE
  /\ UNCHANGED <<irqs, waitFor, requests, disturbed>>

IsrCounted ==
  /\ irqs' = Increment(irqs)
  /\ DoScan
  /\ UNCHANGED <<lost, queued>>

Isrfn ==
  /\ attached /\ alive
  /\ calls < MaxIrqs
  /\ IF waitFor # {} THEN IsrLost ELSE IsrCounted
  /\ calls' = calls + 1
  /\ unseen' = (unseen \/ ScanIoRequest # {})
  /\ UNCHANGED <<initVars, iocVars, thread, shown, scans, reported>>

-----------------------------------------------------------------------------
(* The callback threads, read_irq and irq_scan_complete                    *)

\* read_irq(); the lost interrupts are reported only when TPRO is above 1.
ReadIrq ==
  /\ shown' = irqs
  /\ unseen' = FALSE
  /\ \/ UNCHANGED <<lost, reported>>
     \/ lost' = 0 /\ reported' = reported + lost

\* The thread takes a request and processes the record if it is still there.
ScanRecord(p) ==
  /\ thread[p] = "idle"
  /\ requests[p] > 0
  /\ requests' = [requests EXCEPT ![p] = @ - 1]
  /\ thread' = [thread EXCEPT ![p] = "complete"]
  /\ IF place = p
     THEN ReadIrq /\ scans' = scans + 1
     ELSE UNCHANGED <<shown, unseen, lost, reported, scans>>
  /\ UNCHANGED <<initVars, iocVars, waitFor, queued, irqs, calls, disturbed>>

\* The record is processed for another reason: PROC is written, say.
ProcessRecord ==
  /\ phase \in {"ready", "stopped"}
  /\ ReadIrq
  /\ UNCHANGED <<initVars, iocVars, waitFor, queued, irqs, scanVars, calls, scans, disturbed>>

\* Mutant: the interrupts that came meanwhile are forgotten.
CompleteNoRescan(p) == waitFor' = waitFor \ {p} /\ UNCHANGED <<queued, requests, disturbed>>

\* The critical section of irq_scan_complete().
Complete(p) ==
  IF waitFor \ {p} = {} /\ queued
  THEN DoScan /\ queued' = FALSE
  ELSE waitFor' = waitFor \ {p} /\ UNCHANGED <<queued, requests, disturbed>>

IrqScanComplete(p) ==
  /\ thread[p] = "complete"
  /\ thread' = [thread EXCEPT ![p] = "idle"]
  /\ Complete(p)
  /\ UNCHANGED <<initVars, iocVars, irqs, lost, shown, countVars>>

-----------------------------------------------------------------------------
IrqInit ==
  /\ phase = "new"
  /\ attached = FALSE
  /\ alive = TRUE
  /\ scanning = FALSE
  /\ place \in Prios \cup {Nowhere}
  /\ waitFor = {}
  /\ queued = FALSE
  /\ irqs = 0
  /\ lost = 0
  /\ requests = [p \in Prios |-> 0]
  /\ thread = [p \in Prios |-> "idle"]
  /\ shown = 0
  /\ calls = 0
  /\ scans = 0
  /\ unseen = FALSE
  /\ reported = 0
  /\ disturbed = FALSE

CallbackStep(p) == ScanRecord(p) \/ IrqScanComplete(p)

IrqNext ==
  \/ InitConnectFails \/ InitConnect \/ InitEnableFails \/ InitDone \/ IsrStop
  \/ ScanRun \/ ScanPause \/ MoveRecord
  \/ Isrfn \/ ProcessRecord
  \/ \E p \in Prios : CallbackStep(p)

IrqSpec == IrqInit /\ [][IrqNext]_irqVars

\* The callback threads run.
FairSpec == IrqSpec /\ \A p \in Prios : WF_irqVars(CallbackStep(p))

-----------------------------------------------------------------------------
(* Properties                                                              *)

IrqTypeOK ==
  /\ phase \in Phases
  /\ attached \in BOOLEAN
  /\ alive \in BOOLEAN
  /\ scanning \in BOOLEAN
  /\ place \in Prios \cup {Nowhere}
  /\ waitFor \in SUBSET Prios
  /\ queued \in BOOLEAN
  /\ irqs \in 0 .. Modulo - 1
  /\ lost \in 0 .. Modulo - 1
  /\ requests \in [Prios -> Nat]
  /\ thread \in [Prios -> {"idle", "complete"}]
  /\ shown \in 0 .. Modulo - 1
  /\ calls \in Nat /\ scans \in Nat /\ reported \in Nat
  /\ unseen \in BOOLEAN /\ disturbed \in BOOLEAN

\* wait_for holds exactly the priorities with a request on its way, and each
\* has one: a device that interrupts faster than the IOC scans never fills a
\* callback queue, and no completion is an "extra callback".
Outstanding(p) == requests[p] + IF thread[p] = "complete" THEN 1 ELSE 0
WaitForExact == \A p \in Prios : Outstanding(p) = IF p \in waitFor THEN 1 ELSE 0

\* `queued` is never left behind: it is set only while a completion is still
\* to come that will look at it.
QueuedIsSeen == queued => waitFor # {}

\* Every call of the handler is counted once, as an interrupt or as lost.
EachCallCounted == (irqs + lost + reported) % Modulo = calls % Modulo

\* No interrupt is counted twice or not at all, and what the record has told
\* accounts for every one of them: as long as the IOC is not disturbed, and from
\* the first scan on, whenever no scan is on its way the value of the record,
\* the lost interrupts that were reported and those still to report make up the
\* calls of the handler.  The value alone leaves out the lost ones.
QuietIsCurrent ==
  /\ EachCallCounted
  /\ waitFor = {} /\ scans > 0 /\ ~disturbed =>
       (shown + lost + reported) % Modulo = calls % Modulo

\* As long as the IOC is not disturbed the record is processed after every
\* interrupt, those counted as lost included.
InterruptIsSeen == unseen ~> (~unseen \/ disturbed)

=============================================================================
