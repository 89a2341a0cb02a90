-------------------------------- MODULE Scan --------------------------------
(***************************************************************************)
(* Scanning: discover, stop_scan and the scan a connect makes for an       *)
(* address it does not know (handler.rs), on the Android adapter           *)
(* (android/mod.rs, BleClient.kt), which runs one scan at a time and       *)
(* rejects a second.  Every scan has a polling task in the handler and a   *)
(* task in the adapter that forwards its results.  Which devices are found *)
(* is not modelled.                                                        *)
(***************************************************************************)
EXTENDS Naturals

CONSTANTS
  Task,      \* callers of the handler
  Ops,       \* of "discover", "find" and "stop", what they call
  Faults,    \* of "refuse" and "drop": the system refuses a scan, callers drop receivers
  MaxScans,  \* bound: scans that start
  MaxCalls,  \* bound: calls of each task
  None

ScanId == 1 .. MaxScans
Actor == Task \cup ScanId

ASSUME TaskAssumption == None \notin Actor /\ Task \cap Nat = {}
ASSUME BoundsAssumption == MaxScans \in Nat /\ MaxCalls \in Nat
ASSUME OpsAssumption == Ops \subseteq {"discover", "find", "stop"}

VARIABLES
  lock,       \* the task that holds the state lock, or None
  scanTask,   \* scan_task: the scan whose polling task is stored, or 0
  forwarder,  \* SCAN_TASK: the scan whose results are forwarded, or 0
  scanCb,     \* the scan that Kotlin runs, or 0
  count,      \* scans started so far
  pc,         \* where each caller and each polling task is
  op, mine,   \* the call of each caller, and the scan it started
  calls,      \* how many calls it made
  rxOpen,     \* the receiver of each scan's results exists
  last        \* the last scan update

vars == <<lock, scanTask, forwarder, scanCb, count, pc, op, mine, calls, rxOpen, last>>
call == <<op, mine, calls>>

CallerPc == {"idle", "lock", "halt", "halted", "start", "started", "announce", "receive",
             "take", "stop", "stopped", "report", "drain"}
PollPc == {"none", "polling", "stop", "stopped", "report", "ended", "aborted", "panicked"}
Live(n) == pc[n] \in {"polling", "stop", "stopped", "report"}

Init ==
  /\ lock = None /\ scanTask = 0 /\ forwarder = 0 /\ scanCb = 0 /\ count = 0
  /\ pc = [a \in Actor |-> IF a \in Task THEN "idle" ELSE "none"]
  /\ op = [t \in Task |-> "stop"] /\ mine = [t \in Task |-> 0] /\ calls = [t \in Task |-> 0]
  /\ rxOpen = [n \in ScanId |-> FALSE] /\ last = FALSE

Goto(a, where) == pc' = [pc EXCEPT ![a] = where]

(* The caller goes on, and the stored polling task, if any, is aborted. *)
GotoAborting(t, where) ==
  pc' = [a \in Actor |-> IF a = t THEN where
                         ELSE IF a = scanTask /\ Live(a) THEN "aborted" ELSE pc[a]]

IsScanning == scanTask # 0 /\ Live(scanTask)

(* stop_scan of the adapter: Kotlin stops, then the forwarding task is aborted. *)
AdapterStop(a, from, via, to) ==
  /\ \/ pc[a] = from /\ scanCb' = 0 /\ Goto(a, via) /\ UNCHANGED forwarder
     \/ pc[a] = via /\ forwarder' = 0 /\ Goto(a, to) /\ UNCHANGED scanCb
  /\ UNCHANGED <<lock, scanTask, count, call, rxOpen, last>>

(* send_scan_update takes the state lock. *)
Update(a, from, to, scanning) ==
  /\ pc[a] = from /\ lock = None
  /\ last' = scanning /\ Goto(a, to)
  /\ UNCHANGED <<lock, scanTask, forwarder, scanCb, count, call, rxOpen>>

-----------------------------------------------------------------------------
(* discover. *)

Call(t) ==
  /\ pc[t] = "idle" /\ calls[t] < MaxCalls
  /\ \E o \in Ops : op' = [op EXCEPT ![t] = o] /\ Goto(t, IF o = "stop" THEN "take" ELSE "lock")
  /\ calls' = [calls EXCEPT ![t] = @ + 1]
  /\ UNCHANGED <<lock, scanTask, forwarder, scanCb, count, mine, rxOpen, last>>

(* An earlier scan is aborted, and is stopped with the lock held. *)
TakeLock(t) ==
  /\ pc[t] = "lock" /\ lock = None
  /\ lock' = t /\ scanTask' = 0
  /\ GotoAborting(t, IF scanTask = 0 THEN "start" ELSE "halt")
  /\ UNCHANGED <<forwarder, scanCb, count, call, rxOpen, last>>

Halt(t) == AdapterStop(t, "halt", "halted", "start")

(* Mutant: the task is stored under a lock of its own. *)
StartUnlocking(t) ==
  /\ pc[t] = "start" /\ lock = t /\ scanCb = 0 /\ count < MaxScans
  /\ count' = count + 1 /\ scanCb' = count + 1 /\ mine' = [mine EXCEPT ![t] = count + 1]
  /\ Goto(t, "started") /\ lock' = None
  /\ UNCHANGED <<scanTask, forwarder, op, calls, rxOpen, last>>

Start(t) ==
  /\ pc[t] = "start" /\ scanCb = 0 /\ count < MaxScans
  /\ count' = count + 1 /\ scanCb' = count + 1 /\ mine' = [mine EXCEPT ![t] = count + 1]
  /\ Goto(t, "started")
  /\ UNCHANGED <<lock, scanTask, forwarder, op, calls, rxOpen, last>>

(* Mutant: an error leaves the lock taken. *)
StartFailsLocked(t) ==
  /\ pc[t] = "start" /\ (scanCb # 0 \/ "refuse" \in Faults)
  /\ Goto(t, "idle")
  /\ UNCHANGED <<lock, scanTask, forwarder, scanCb, count, call, rxOpen, last>>

(* Kotlin runs a scan already, or the system refuses this one. *)
StartFails(t) ==
  /\ pc[t] = "start" /\ (scanCb # 0 \/ "refuse" \in Faults)
  /\ lock' = None /\ Goto(t, "idle")
  /\ UNCHANGED <<scanTask, forwarder, scanCb, count, call, rxOpen, last>>

(* Mutant: the polling task does not start. *)
StoreOnly(t) ==
  /\ pc[t] = "started"
  /\ scanTask' = mine[t] /\ forwarder' = mine[t] /\ lock' = None
  /\ rxOpen' = [rxOpen EXCEPT ![mine[t]] = TRUE]
  /\ Goto(t, "announce")
  /\ UNCHANGED <<scanCb, count, call, last>>

(* The tasks that forward the results and poll for them start. *)
Store(t) ==
  /\ pc[t] = "started"
  /\ scanTask' = mine[t] /\ forwarder' = mine[t] /\ lock' = None
  /\ rxOpen' = [rxOpen EXCEPT ![mine[t]] = TRUE]
  /\ pc' = [pc EXCEPT ![t] = "announce", ![mine[t]] = "polling"]
  /\ UNCHANGED <<scanCb, count, call, last>>

Announce(t) == Update(t, "announce", IF op[t] = "find" THEN "receive" ELSE "idle", TRUE)

-----------------------------------------------------------------------------
(* scan_for, between its discover and its stop_scan, and after both. *)

(* The device shows up, or the scan is over. *)
Receive(t) ==
  /\ pc[t] = "receive" /\ Goto(t, "take")
  /\ UNCHANGED <<lock, scanTask, forwarder, scanCb, count, call, rxOpen, last>>

(* The sender of its scan is gone, and now the receiver. *)
Drain(t) ==
  /\ pc[t] = "drain" /\ ~Live(mine[t])
  /\ Goto(t, "idle") /\ rxOpen' = [rxOpen EXCEPT ![mine[t]] = FALSE]
  /\ UNCHANGED <<lock, scanTask, forwarder, scanCb, count, call, last>>

-----------------------------------------------------------------------------
(* stop_scan. *)

Take(t) ==
  /\ pc[t] = "take" /\ lock = None
  /\ scanTask' = 0 /\ GotoAborting(t, "stop")
  /\ UNCHANGED <<lock, forwarder, scanCb, count, call, rxOpen, last>>

Stop(t) == AdapterStop(t, "stop", "stopped", "report")

Report(t) == Update(t, "report", IF op[t] = "find" THEN "drain" ELSE "idle", FALSE)

-----------------------------------------------------------------------------
(* The polling task of a scan. *)

(* It cannot deliver what it found. *)
Panic(n) ==
  /\ pc[n] = "polling" /\ ~rxOpen[n] /\ Goto(n, "panicked")
  /\ UNCHANGED <<lock, scanTask, forwarder, scanCb, count, call, rxOpen, last>>

(* Mutant: the scan is not stopped at the end. *)
ElapseOnly(n) ==
  /\ pc[n] = "polling" /\ Goto(n, "report")
  /\ UNCHANGED <<lock, scanTask, forwarder, scanCb, count, call, rxOpen, last>>

(* It first sleeps for 200 ms, long after its start was announced: discover *)
(* asked for the lock before it did.                                        *)
Elapse(n) ==
  /\ pc[n] = "polling" /\ \A t \in Task : mine[t] = n => pc[t] # "announce"
  /\ Goto(n, "stop")
  /\ UNCHANGED <<lock, scanTask, forwarder, scanCb, count, call, rxOpen, last>>

End(n) == AdapterStop(n, "stop", "stopped", "report") \/ Update(n, "report", "ended", FALSE)

(* The caller of discover drops the receiver. *)
DropReceiver(n) ==
  /\ "drop" \in Faults /\ rxOpen[n] /\ \A t \in Task : mine[t] = n => op[t] = "discover"
  /\ rxOpen' = [rxOpen EXCEPT ![n] = FALSE]
  /\ UNCHANGED <<lock, scanTask, forwarder, scanCb, count, pc, call, last>>

-----------------------------------------------------------------------------
Proceed(t) ==
  \/ TakeLock(t) \/ Halt(t) \/ Start(t) \/ StartFails(t) \/ Store(t) \/ Announce(t)
  \/ Receive(t) \/ Drain(t) \/ Take(t) \/ Stop(t) \/ Report(t)

Poll(n) == Panic(n) \/ Elapse(n) \/ End(n)

Next ==
  \/ \E t \in Task : Call(t) \/ Proceed(t)
  \/ \E n \in ScanId : Poll(n) \/ DropReceiver(n)

Spec == Init /\ [][Next]_vars

(* Tasks that are ready run, and Tokio grants its mutexes in turn. *)
FairSpec ==
  /\ Spec
  /\ \A t \in Task : WF_vars(Proceed(t))
  /\ \A n \in ScanId : WF_vars(Poll(n))

-----------------------------------------------------------------------------
(* Properties. *)

TypeOK ==
  /\ lock \in Task \cup {None}
  /\ {scanTask, forwarder, scanCb, count} \subseteq 0 .. MaxScans
  /\ \A t \in Task : pc[t] \in CallerPc
  /\ \A n \in ScanId : pc[n] \in PollPc /\ (pc[n] = "none" => scanTask # n)
  /\ op \in [Task -> {"discover", "find", "stop"}] /\ mine \in [Task -> 0 .. MaxScans]
  /\ calls \in [Task -> 0 .. MaxCalls] /\ rxOpen \in [ScanId -> BOOLEAN] /\ last \in BOOLEAN

\* The radio never scans with nobody to stop it: Kotlin's scan has a polling
\* task that will, unless a call is just about to store that task or to stop the
\* scan itself.  The one exception is a polling task that panicked, which is
\* still stored for the next call to find.
NoOrphanScan ==
  scanCb # 0 =>
    \/ scanTask = scanCb /\ pc[scanCb] \in {"polling", "stop", "panicked"}
    \/ \E t \in Task : pc[t] \in {"halt", "started", "stop"}

\* Concurrent calls of discover do not get each other rejected (the comment on
\* the lock in discover): a second scan is rejected only while a stop_scan has
\* taken the first one's task and not yet stopped it.
RejectedOnlyDuringStop ==
  [][\A t \in Task : pc[t] = "start" /\ pc'[t] = "idle" /\ scanCb # 0 =>
       \E u \in Task : pc[u] = "stop"]_vars

\* With no call under way and no scan, the last update said so (what
\* set_scanning_update_channel documents; the code does not keep it, README 3.2).
LastScanUpdateIsCurrent ==
  (\A t \in Task : pc[t] = "idle") /\ ~IsScanning => ~last

\* Every call returns, and the radio comes to rest after the last one unless a
\* polling task panicked.
ScanningEnds ==
  /\ \A t \in Task : pc[t] # "idle" ~> pc[t] = "idle"
  /\ scanCb # 0 ~> scanCb = 0 \/ pc[scanCb] = "panicked"
=============================================================================
