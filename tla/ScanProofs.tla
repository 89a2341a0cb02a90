----------------------------- MODULE ScanProofs -----------------------------
(***************************************************************************)
(* Proofs about Scan, for any number of callers, calls and scans.          *)
(***************************************************************************)
EXTENDS Scan, TLAPS

-----------------------------------------------------------------------------
(* The inductive invariant. *)

PcOK == pc \in [Actor -> CallerPc \cup PollPc]

\* Only the holder of the state lock is inside discover's critical section, and
\* it has taken away the polling task there was.
LockDiscipline ==
  /\ \A t \in Task : pc[t] \in {"halt", "halted", "start", "started"} => lock = t
  /\ lock # None => scanTask = 0

\* A scan that was started and not stored yet is the one that runs, if one does.
StartedIsMine ==
  \A t \in Task : pc[t] = "started" => mine[t] \in ScanId /\ scanCb \in {0, mine[t]}

ScanInv == PcOK /\ TypeOK /\ LockDiscipline /\ StartedIsMine /\ NoOrphanScan

-----------------------------------------------------------------------------
(* Callers are not numbers. *)

LEMMA TasksAreNoScans ==
  /\ \A t \in Task : t \in Actor /\ t \notin ScanId /\ t # None
  /\ \A n \in ScanId : n \in Actor /\ n \notin Task /\ n # 0
  /\ \A n \in 0 .. MaxScans : n \notin Task /\ (n # 0 => n \in ScanId)
  BY TaskAssumption, BoundsAssumption DEF Actor, ScanId

LEMMA ScanInit == Init => ScanInv
<1> SUFFICES ASSUME Init PROVE ScanInv
  OBVIOUS
<1>1. PcOK
  BY DEF Init, PcOK, CallerPc, PollPc
<1>2. TypeOK
  <2>1. /\ \A t \in Task : pc[t] \in CallerPc
        /\ \A n \in ScanId : pc[n] \in PollPc /\ (pc[n] = "none" => scanTask # n)
    BY TasksAreNoScans DEF Init, CallerPc, PollPc
  <2>2. {scanTask, forwarder, scanCb, count} \subseteq 0 .. MaxScans
    BY BoundsAssumption DEF Init
  <2>3. /\ lock \in Task \cup {None}
        /\ op \in [Task -> {"discover", "find", "stop"}] /\ mine \in [Task -> 0 .. MaxScans]
        /\ calls \in [Task -> 0 .. MaxCalls] /\ rxOpen \in [ScanId -> BOOLEAN]
    BY BoundsAssumption DEF Init
  <2>4. last \in BOOLEAN
    BY DEF Init
  <2> QED
    BY <2>1, <2>2, <2>3, <2>4 DEF TypeOK
<1>3. LockDiscipline /\ StartedIsMine
  BY TasksAreNoScans DEF Init, LockDiscipline, StartedIsMine
<1>4. NoOrphanScan
  BY DEF Init, NoOrphanScan
<1> QED
  BY <1>1, <1>2, <1>3, <1>4 DEF ScanInv

-----------------------------------------------------------------------------
(* Every step keeps each part. *)

\* A step leaves every actor at a place there is.
LEMMA PcStep == PcOK /\ [Next]_vars => PcOK'
<1> SUFFICES ASSUME PcOK, [Next]_vars PROVE PcOK'
  OBVIOUS
<1> USE TasksAreNoScans
<1>1. ASSUME NEW t \in Task, Call(t) PROVE PcOK'
  BY <1>1 DEF Call, Goto, PcOK, CallerPc, PollPc
<1>2. ASSUME NEW t \in Task, TakeLock(t) PROVE PcOK'
  BY <1>2 DEF TakeLock, GotoAborting, PcOK, CallerPc, PollPc
<1>3. ASSUME NEW t \in Task, Halt(t) PROVE PcOK'
  BY <1>3 DEF Halt, AdapterStop, Goto, PcOK, CallerPc, PollPc
<1>4. ASSUME NEW t \in Task, Start(t) PROVE PcOK'
  BY <1>4 DEF Start, Goto, PcOK, CallerPc, PollPc
<1>5. ASSUME NEW t \in Task, StartFails(t) PROVE PcOK'
  BY <1>5 DEF StartFails, Goto, PcOK, CallerPc, PollPc
<1>6. ASSUME NEW t \in Task, Store(t) PROVE PcOK'
  BY <1>6 DEF Store, PcOK, CallerPc, PollPc
<1>7. ASSUME NEW t \in Task, Announce(t) PROVE PcOK'
  BY <1>7 DEF Announce, Update, Goto, PcOK, CallerPc, PollPc
<1>8. ASSUME NEW t \in Task, Receive(t) PROVE PcOK'
  BY <1>8 DEF Receive, Goto, PcOK, CallerPc, PollPc
<1>9. ASSUME NEW t \in Task, Drain(t) PROVE PcOK'
  BY <1>9 DEF Drain, Goto, PcOK, CallerPc, PollPc
<1>10. ASSUME NEW t \in Task, Take(t) PROVE PcOK'
  BY <1>10 DEF Take, GotoAborting, PcOK, CallerPc, PollPc
<1>11. ASSUME NEW t \in Task, Stop(t) PROVE PcOK'
  BY <1>11 DEF Stop, AdapterStop, Goto, PcOK, CallerPc, PollPc
<1>12. ASSUME NEW t \in Task, Report(t) PROVE PcOK'
  BY <1>12 DEF Report, Update, Goto, PcOK, CallerPc, PollPc
<1>13. ASSUME NEW n \in ScanId, Panic(n) PROVE PcOK'
  BY <1>13 DEF Panic, Goto, PcOK, CallerPc, PollPc
<1>14. ASSUME NEW n \in ScanId, Elapse(n) PROVE PcOK'
  BY <1>14 DEF Elapse, Goto, PcOK, CallerPc, PollPc
<1>15. ASSUME NEW n \in ScanId, End(n) PROVE PcOK'
  BY <1>15 DEF End, AdapterStop, Update, Goto, PcOK, CallerPc, PollPc
<1>16. ASSUME NEW n \in ScanId, DropReceiver(n) PROVE PcOK'
  BY <1>16 DEF DropReceiver, PcOK, CallerPc, PollPc
<1>17. CASE UNCHANGED vars
  BY <1>17 DEF vars, call, PcOK, CallerPc, PollPc
<1> QED
  BY <1>1, <1>2, <1>3, <1>4, <1>5, <1>6, <1>7, <1>8, <1>9, <1>10, <1>11, <1>12, <1>13,
     <1>14, <1>15, <1>16, <1>17 DEF Next, Proceed, Poll

\* Every variable keeps its type.
LEMMA TypeStep == PcOK /\ TypeOK /\ StartedIsMine /\ [Next]_vars => TypeOK'
<1> SUFFICES ASSUME PcOK, TypeOK, StartedIsMine, [Next]_vars PROVE TypeOK'
  OBVIOUS
<1> USE TasksAreNoScans
<1>1. ASSUME NEW t \in Task, Call(t) PROVE TypeOK'
  <2>1. \A u \in Task : pc'[u] \in CallerPc
    BY <1>1 DEF Call, Goto, PcOK, TypeOK, CallerPc, StartedIsMine, Live
  <2>2. \A m \in ScanId : pc'[m] \in PollPc /\ (pc'[m] = "none" => scanTask' # m)
    BY <1>1 DEF Call, Goto, PcOK, TypeOK, PollPc, StartedIsMine, call, Live
  <2>3. {scanTask', forwarder', scanCb', count'} \subseteq 0 .. MaxScans
    BY <1>1, BoundsAssumption DEF Call, Goto, TypeOK, StartedIsMine, ScanId, call
  <2>4. /\ lock' \in Task \cup {None} /\ last' \in BOOLEAN
        /\ op' \in [Task -> {"discover", "find", "stop"}] /\ mine' \in [Task -> 0 .. MaxScans]
        /\ calls' \in [Task -> 0 .. MaxCalls] /\ rxOpen' \in [ScanId -> BOOLEAN]
    BY <1>1, BoundsAssumption, OpsAssumption DEF Call, Goto, TypeOK, StartedIsMine,
       ScanId, call
  <2> QED
    BY <2>1, <2>2, <2>3, <2>4 DEF TypeOK
<1>2. ASSUME NEW t \in Task, TakeLock(t) PROVE TypeOK'
  <2>1. \A u \in Task : pc'[u] \in CallerPc
    BY <1>2 DEF TakeLock, GotoAborting, PcOK, TypeOK, CallerPc, StartedIsMine, Live
  <2>2. \A m \in ScanId : pc'[m] \in PollPc /\ (pc'[m] = "none" => scanTask' # m)
    BY <1>2 DEF TakeLock, GotoAborting, PcOK, TypeOK, PollPc, StartedIsMine, call, Live
  <2>3. {scanTask', forwarder', scanCb', count'} \subseteq 0 .. MaxScans
    BY <1>2, BoundsAssumption DEF TakeLock, GotoAborting, TypeOK, StartedIsMine, ScanId,
       call
  <2>4. /\ lock' \in Task \cup {None} /\ last' \in BOOLEAN
        /\ op' \in [Task -> {"discover", "find", "stop"}] /\ mine' \in [Task -> 0 .. MaxScans]
        /\ calls' \in [Task -> 0 .. MaxCalls] /\ rxOpen' \in [ScanId -> BOOLEAN]
    BY <1>2, BoundsAssumption, OpsAssumption DEF TakeLock, GotoAborting, TypeOK,
       StartedIsMine, ScanId, call
  <2> QED
    BY <2>1, <2>2, <2>3, <2>4 DEF TypeOK
<1>3. ASSUME NEW t \in Task, Halt(t) PROVE TypeOK'
  <2>1. \A u \in Task : pc'[u] \in CallerPc
    BY <1>3 DEF Halt, AdapterStop, Goto, PcOK, TypeOK, CallerPc, StartedIsMine, Live
  <2>2. \A m \in ScanId : pc'[m] \in PollPc /\ (pc'[m] = "none" => scanTask' # m)
    BY <1>3 DEF Halt, AdapterStop, Goto, PcOK, TypeOK, PollPc, StartedIsMine, call, Live
  <2>3. {scanTask', forwarder', scanCb', count'} \subseteq 0 .. MaxScans
    BY <1>3, BoundsAssumption DEF Halt, AdapterStop, Goto, TypeOK, StartedIsMine, ScanId,
       call
  <2>4. /\ lock' \in Task \cup {None} /\ last' \in BOOLEAN
        /\ op' \in [Task -> {"discover", "find", "stop"}] /\ mine' \in [Task -> 0 .. MaxScans]
        /\ calls' \in [Task -> 0 .. MaxCalls] /\ rxOpen' \in [ScanId -> BOOLEAN]
    BY <1>3, BoundsAssumption, OpsAssumption DEF Halt, AdapterStop, Goto, TypeOK,
       StartedIsMine, ScanId, call
  <2> QED
    BY <2>1, <2>2, <2>3, <2>4 DEF TypeOK
<1>4. ASSUME NEW t \in Task, Start(t) PROVE TypeOK'
  <2>1. \A u \in Task : pc'[u] \in CallerPc
    BY <1>4 DEF Start, Goto, PcOK, TypeOK, CallerPc, StartedIsMine, Live
  <2>2. \A m \in ScanId : pc'[m] \in PollPc /\ (pc'[m] = "none" => scanTask' # m)
    BY <1>4 DEF Start, Goto, PcOK, TypeOK, PollPc, StartedIsMine, call, Live
  <2>3. {scanTask', forwarder', scanCb', count'} \subseteq 0 .. MaxScans
    BY <1>4, BoundsAssumption DEF Start, Goto, TypeOK, StartedIsMine, ScanId, call
  <2>4. /\ lock' \in Task \cup {None} /\ last' \in BOOLEAN
        /\ op' \in [Task -> {"discover", "find", "stop"}] /\ mine' \in [Task -> 0 .. MaxScans]
        /\ calls' \in [Task -> 0 .. MaxCalls] /\ rxOpen' \in [ScanId -> BOOLEAN]
    BY <1>4, BoundsAssumption, OpsAssumption DEF Start, Goto, TypeOK, StartedIsMine,
       ScanId, call
  <2> QED
    BY <2>1, <2>2, <2>3, <2>4 DEF TypeOK
<1>5. ASSUME NEW t \in Task, StartFails(t) PROVE TypeOK'
  <2>1. \A u \in Task : pc'[u] \in CallerPc
    BY <1>5 DEF StartFails, Goto, PcOK, TypeOK, CallerPc, StartedIsMine, Live
  <2>2. \A m \in ScanId : pc'[m] \in PollPc /\ (pc'[m] = "none" => scanTask' # m)
    BY <1>5 DEF StartFails, Goto, PcOK, TypeOK, PollPc, StartedIsMine, call, Live
  <2>3. {scanTask', forwarder', scanCb', count'} \subseteq 0 .. MaxScans
    BY <1>5, BoundsAssumption DEF StartFails, Goto, TypeOK, StartedIsMine, ScanId, call
  <2>4. /\ lock' \in Task \cup {None} /\ last' \in BOOLEAN
        /\ op' \in [Task -> {"discover", "find", "stop"}] /\ mine' \in [Task -> 0 .. MaxScans]
        /\ calls' \in [Task -> 0 .. MaxCalls] /\ rxOpen' \in [ScanId -> BOOLEAN]
    BY <1>5, BoundsAssumption, OpsAssumption DEF StartFails, Goto, TypeOK, StartedIsMine,
       ScanId, call
  <2> QED
    BY <2>1, <2>2, <2>3, <2>4 DEF TypeOK
<1>6. ASSUME NEW t \in Task, Store(t) PROVE TypeOK'
  <2>1. \A u \in Task : pc'[u] \in CallerPc
    BY <1>6 DEF Store, PcOK, TypeOK, CallerPc, StartedIsMine, Live
  <2>2. \A m \in ScanId : pc'[m] \in PollPc /\ (pc'[m] = "none" => scanTask' # m)
    BY <1>6 DEF Store, PcOK, TypeOK, PollPc, StartedIsMine, call, Live
  <2>3. {scanTask', forwarder', scanCb', count'} \subseteq 0 .. MaxScans
    BY <1>6, BoundsAssumption DEF Store, TypeOK, StartedIsMine, ScanId, call
  <2>4. /\ lock' \in Task \cup {None} /\ last' \in BOOLEAN
        /\ op' \in [Task -> {"discover", "find", "stop"}] /\ mine' \in [Task -> 0 .. MaxScans]
        /\ calls' \in [Task -> 0 .. MaxCalls] /\ rxOpen' \in [ScanId -> BOOLEAN]
    BY <1>6, BoundsAssumption, OpsAssumption DEF Store, TypeOK, StartedIsMine, ScanId, call
  <2> QED
    BY <2>1, <2>2, <2>3, <2>4 DEF TypeOK
<1>7. ASSUME NEW t \in Task, Announce(t) PROVE TypeOK'
  <2>1. \A u \in Task : pc'[u] \in CallerPc
    BY <1>7 DEF Announce, Update, Goto, PcOK, TypeOK, CallerPc, StartedIsMine, Live
  <2>2. \A m \in ScanId : pc'[m] \in PollPc /\ (pc'[m] = "none" => scanTask' # m)
    BY <1>7 DEF Announce, Update, Goto, PcOK, TypeOK, PollPc, StartedIsMine, call, Live
  <2>3. {scanTask', forwarder', scanCb', count'} \subseteq 0 .. MaxScans
    BY <1>7, BoundsAssumption DEF Announce, Update, Goto, TypeOK, StartedIsMine, ScanId,
       call
  <2>4. /\ lock' \in Task \cup {None} /\ last' \in BOOLEAN
        /\ op' \in [Task -> {"discover", "find", "stop"}] /\ mine' \in [Task -> 0 .. MaxScans]
        /\ calls' \in [Task -> 0 .. MaxCalls] /\ rxOpen' \in [ScanId -> BOOLEAN]
    BY <1>7, BoundsAssumption, OpsAssumption DEF Announce, Update, Goto, TypeOK,
       StartedIsMine, ScanId, call
  <2> QED
    BY <2>1, <2>2, <2>3, <2>4 DEF TypeOK
<1>8. ASSUME NEW t \in Task, Receive(t) PROVE TypeOK'
  <2>1. \A u \in Task : pc'[u] \in CallerPc
    BY <1>8 DEF Receive, Goto, PcOK, TypeOK, CallerPc, StartedIsMine, Live
  <2>2. \A m \in ScanId : pc'[m] \in PollPc /\ (pc'[m] = "none" => scanTask' # m)
    BY <1>8 DEF Receive, Goto, PcOK, TypeOK, PollPc, StartedIsMine, call, Live
  <2>3. {scanTask', forwarder', scanCb', count'} \subseteq 0 .. MaxScans
    BY <1>8, BoundsAssumption DEF Receive, Goto, TypeOK, StartedIsMine, ScanId, call
  <2>4. /\ lock' \in Task \cup {None} /\ last' \in BOOLEAN
        /\ op' \in [Task -> {"discover", "find", "stop"}] /\ mine' \in [Task -> 0 .. MaxScans]
        /\ calls' \in [Task -> 0 .. MaxCalls] /\ rxOpen' \in [ScanId -> BOOLEAN]
    BY <1>8, BoundsAssumption, OpsAssumption DEF Receive, Goto, TypeOK, StartedIsMine,
       ScanId, call
  <2> QED
    BY <2>1, <2>2, <2>3, <2>4 DEF TypeOK
<1>9. ASSUME NEW t \in Task, Drain(t) PROVE TypeOK'
  <2>1. \A u \in Task : pc'[u] \in CallerPc
    BY <1>9 DEF Drain, Goto, PcOK, TypeOK, CallerPc, StartedIsMine, Live
  <2>2. \A m \in ScanId : pc'[m] \in PollPc /\ (pc'[m] = "none" => scanTask' # m)
    BY <1>9 DEF Drain, Goto, PcOK, TypeOK, PollPc, StartedIsMine, call, Live
  <2>3. {scanTask', forwarder', scanCb', count'} \subseteq 0 .. MaxScans
    BY <1>9, BoundsAssumption DEF Drain, Goto, TypeOK, StartedIsMine, ScanId, call
  <2>4. /\ lock' \in Task \cup {None} /\ last' \in BOOLEAN
        /\ op' \in [Task -> {"discover", "find", "stop"}] /\ mine' \in [Task -> 0 .. MaxScans]
        /\ calls' \in [Task -> 0 .. MaxCalls] /\ rxOpen' \in [ScanId -> BOOLEAN]
    BY <1>9, BoundsAssumption, OpsAssumption DEF Drain, Goto, TypeOK, StartedIsMine,
       ScanId, call
  <2> QED
    BY <2>1, <2>2, <2>3, <2>4 DEF TypeOK
<1>10. ASSUME NEW t \in Task, Take(t) PROVE TypeOK'
  <2>1. \A u \in Task : pc'[u] \in CallerPc
    BY <1>10 DEF Take, GotoAborting, PcOK, TypeOK, CallerPc, StartedIsMine, Live
  <2>2. \A m \in ScanId : pc'[m] \in PollPc /\ (pc'[m] = "none" => scanTask' # m)
    BY <1>10 DEF Take, GotoAborting, PcOK, TypeOK, PollPc, StartedIsMine, call, Live
  <2>3. {scanTask', forwarder', scanCb', count'} \subseteq 0 .. MaxScans
    BY <1>10, BoundsAssumption DEF Take, GotoAborting, TypeOK, StartedIsMine, ScanId, call
  <2>4. /\ lock' \in Task \cup {None} /\ last' \in BOOLEAN
        /\ op' \in [Task -> {"discover", "find", "stop"}] /\ mine' \in [Task -> 0 .. MaxScans]
        /\ calls' \in [Task -> 0 .. MaxCalls] /\ rxOpen' \in [ScanId -> BOOLEAN]
    BY <1>10, BoundsAssumption, OpsAssumption DEF Take, GotoAborting, TypeOK,
       StartedIsMine, ScanId, call
  <2> QED
    BY <2>1, <2>2, <2>3, <2>4 DEF TypeOK
<1>11. ASSUME NEW t \in Task, Stop(t) PROVE TypeOK'
  <2>1. \A u \in Task : pc'[u] \in CallerPc
    BY <1>11 DEF Stop, AdapterStop, Goto, PcOK, TypeOK, CallerPc, StartedIsMine, Live
  <2>2. \A m \in ScanId : pc'[m] \in PollPc /\ (pc'[m] = "none" => scanTask' # m)
    BY <1>11 DEF Stop, AdapterStop, Goto, PcOK, TypeOK, PollPc, StartedIsMine, call, Live
  <2>3. {scanTask', forwarder', scanCb', count'} \subseteq 0 .. MaxScans
    BY <1>11, BoundsAssumption DEF Stop, AdapterStop, Goto, TypeOK, StartedIsMine, ScanId,
       call
  <2>4. /\ lock' \in Task \cup {None} /\ last' \in BOOLEAN
        /\ op' \in [Task -> {"discover", "find", "stop"}] /\ mine' \in [Task -> 0 .. MaxScans]
        /\ calls' \in [Task -> 0 .. MaxCalls] /\ rxOpen' \in [ScanId -> BOOLEAN]
    BY <1>11, BoundsAssumption, OpsAssumption DEF Stop, AdapterStop, Goto, TypeOK,
       StartedIsMine, ScanId, call
  <2> QED
    BY <2>1, <2>2, <2>3, <2>4 DEF TypeOK
<1>12. ASSUME NEW t \in Task, Report(t) PROVE TypeOK'
  <2>1. \A u \in Task : pc'[u] \in CallerPc
    BY <1>12 DEF Report, Update, Goto, PcOK, TypeOK, CallerPc, StartedIsMine, Live
  <2>2. \A m \in ScanId : pc'[m] \in PollPc /\ (pc'[m] = "none" => scanTask' # m)
    BY <1>12 DEF Report, Update, Goto, PcOK, TypeOK, PollPc, StartedIsMine, call, Live
  <2>3. {scanTask', forwarder', scanCb', count'} \subseteq 0 .. MaxScans
    BY <1>12, BoundsAssumption DEF Report, Update, Goto, TypeOK, StartedIsMine, ScanId, call
  <2>4. /\ lock' \in Task \cup {None} /\ last' \in BOOLEAN
        /\ op' \in [Task -> {"discover", "find", "stop"}] /\ mine' \in [Task -> 0 .. MaxScans]
        /\ calls' \in [Task -> 0 .. MaxCalls] /\ rxOpen' \in [ScanId -> BOOLEAN]
    BY <1>12, BoundsAssumption, OpsAssumption DEF Report, Update, Goto, TypeOK,
       StartedIsMine, ScanId, call
  <2> QED
    BY <2>1, <2>2, <2>3, <2>4 DEF TypeOK
<1>13. ASSUME NEW n \in ScanId, Panic(n) PROVE TypeOK'
  <2>1. \A u \in Task : pc'[u] \in CallerPc
    BY <1>13 DEF Panic, Goto, PcOK, TypeOK, CallerPc, StartedIsMine, Live
  <2>2. \A m \in ScanId : pc'[m] \in PollPc /\ (pc'[m] = "none" => scanTask' # m)
    BY <1>13 DEF Panic, Goto, PcOK, TypeOK, PollPc, StartedIsMine, call, Live
  <2>3. {scanTask', forwarder', scanCb', count'} \subseteq 0 .. MaxScans
    BY <1>13, BoundsAssumption DEF Panic, Goto, TypeOK, StartedIsMine, ScanId, call
  <2>4. /\ lock' \in Task \cup {None} /\ last' \in BOOLEAN
        /\ op' \in [Task -> {"discover", "find", "stop"}] /\ mine' \in [Task -> 0 .. MaxScans]
        /\ calls' \in [Task -> 0 .. MaxCalls] /\ rxOpen' \in [ScanId -> BOOLEAN]
    BY <1>13, BoundsAssumption, OpsAssumption DEF Panic, Goto, TypeOK, StartedIsMine,
       ScanId, call
  <2> QED
    BY <2>1, <2>2, <2>3, <2>4 DEF TypeOK
<1>14. ASSUME NEW n \in ScanId, Elapse(n) PROVE TypeOK'
  <2>1. \A u \in Task : pc'[u] \in CallerPc
    BY <1>14 DEF Elapse, Goto, PcOK, TypeOK, CallerPc, StartedIsMine, Live
  <2>2. \A m \in ScanId : pc'[m] \in PollPc /\ (pc'[m] = "none" => scanTask' # m)
    BY <1>14 DEF Elapse, Goto, PcOK, TypeOK, PollPc, StartedIsMine, call, Live
  <2>3. {scanTask', forwarder', scanCb', count'} \subseteq 0 .. MaxScans
    BY <1>14, BoundsAssumption DEF Elapse, Goto, TypeOK, StartedIsMine, ScanId, call
  <2>4. /\ lock' \in Task \cup {None} /\ last' \in BOOLEAN
        /\ op' \in [Task -> {"discover", "find", "stop"}] /\ mine' \in [Task -> 0 .. MaxScans]
        /\ calls' \in [Task -> 0 .. MaxCalls] /\ rxOpen' \in [ScanId -> BOOLEAN]
    BY <1>14, BoundsAssumption, OpsAssumption DEF Elapse, Goto, TypeOK, StartedIsMine,
       ScanId, call
  <2> QED
    BY <2>1, <2>2, <2>3, <2>4 DEF TypeOK
<1>15. ASSUME NEW n \in ScanId, End(n) PROVE TypeOK'
  <2>1. \A u \in Task : pc'[u] \in CallerPc
    BY <1>15 DEF End, AdapterStop, Update, Goto, PcOK, TypeOK, CallerPc, StartedIsMine, Live
  <2>2. \A m \in ScanId : pc'[m] \in PollPc /\ (pc'[m] = "none" => scanTask' # m)
    BY <1>15 DEF End, AdapterStop, Update, Goto, PcOK, TypeOK, PollPc, StartedIsMine,
       call, Live
  <2>3. {scanTask', forwarder', scanCb', count'} \subseteq 0 .. MaxScans
    BY <1>15, BoundsAssumption DEF End, AdapterStop, Update, Goto, TypeOK, StartedIsMine,
       ScanId, call
  <2>4. /\ lock' \in Task \cup {None} /\ last' \in BOOLEAN
        /\ op' \in [Task -> {"discover", "find", "stop"}] /\ mine' \in [Task -> 0 .. MaxScans]
        /\ calls' \in [Task -> 0 .. MaxCalls] /\ rxOpen' \in [ScanId -> BOOLEAN]
    BY <1>15, BoundsAssumption, OpsAssumption DEF End, AdapterStop, Update, Goto, TypeOK,
       StartedIsMine, ScanId, call
  <2> QED
    BY <2>1, <2>2, <2>3, <2>4 DEF TypeOK
<1>16. ASSUME NEW n \in ScanId, DropReceiver(n) PROVE TypeOK'
  BY <1>16, BoundsAssumption, OpsAssumption DEF DropReceiver, PcOK, TypeOK, StartedIsMine,
     CallerPc, PollPc, ScanId, call, Live
<1>17. CASE UNCHANGED vars
  BY <1>17 DEF vars, call, PcOK, TypeOK, StartedIsMine, CallerPc, PollPc, ScanId, call, Live
<1> QED
  BY <1>1, <1>2, <1>3, <1>4, <1>5, <1>6, <1>7, <1>8, <1>9, <1>10, <1>11, <1>12, <1>13,
     <1>14, <1>15, <1>16, <1>17 DEF Next, Proceed, Poll

\* The lock keeps the section to one caller.
LEMMA LockStep == PcOK /\ TypeOK /\ LockDiscipline /\ [Next]_vars => LockDiscipline'
<1> SUFFICES ASSUME PcOK, TypeOK, LockDiscipline, [Next]_vars PROVE LockDiscipline'
  OBVIOUS
<1> USE TasksAreNoScans
<1>1. ASSUME NEW t \in Task, Call(t) PROVE LockDiscipline'
  BY <1>1 DEF Call, Goto, PcOK, LockDiscipline, call, Live
<1>2. ASSUME NEW t \in Task, TakeLock(t) PROVE LockDiscipline'
  BY <1>2 DEF TakeLock, GotoAborting, PcOK, LockDiscipline, call, Live
<1>3. ASSUME NEW t \in Task, Halt(t) PROVE LockDiscipline'
  BY <1>3 DEF Halt, AdapterStop, Goto, PcOK, LockDiscipline, call, Live
<1>4. ASSUME NEW t \in Task, Start(t) PROVE LockDiscipline'
  BY <1>4 DEF Start, Goto, PcOK, LockDiscipline, call, Live
<1>5. ASSUME NEW t \in Task, StartFails(t) PROVE LockDiscipline'
  BY <1>5 DEF StartFails, Goto, PcOK, LockDiscipline, call, Live
<1>6. ASSUME NEW t \in Task, Store(t) PROVE LockDiscipline'
  BY <1>6 DEF Store, PcOK, LockDiscipline, call, Live
<1>7. ASSUME NEW t \in Task, Announce(t) PROVE LockDiscipline'
  BY <1>7 DEF Announce, Update, Goto, PcOK, LockDiscipline, call, Live
<1>8. ASSUME NEW t \in Task, Receive(t) PROVE LockDiscipline'
  BY <1>8 DEF Receive, Goto, PcOK, LockDiscipline, call, Live
<1>9. ASSUME NEW t \in Task, Drain(t) PROVE LockDiscipline'
  BY <1>9 DEF Drain, Goto, PcOK, LockDiscipline, call, Live
<1>10. ASSUME NEW t \in Task, Take(t) PROVE LockDiscipline'
  BY <1>10 DEF Take, GotoAborting, PcOK, LockDiscipline, call, Live
<1>11. ASSUME NEW t \in Task, Stop(t) PROVE LockDiscipline'
  BY <1>11 DEF Stop, AdapterStop, Goto, PcOK, LockDiscipline, call, Live
<1>12. ASSUME NEW t \in Task, Report(t) PROVE LockDiscipline'
  BY <1>12 DEF Report, Update, Goto, PcOK, LockDiscipline, call, Live
<1>13. ASSUME NEW n \in ScanId, Panic(n) PROVE LockDiscipline'
  BY <1>13 DEF Panic, Goto, PcOK, LockDiscipline, call, Live
<1>14. ASSUME NEW n \in ScanId, Elapse(n) PROVE LockDiscipline'
  BY <1>14 DEF Elapse, Goto, PcOK, LockDiscipline, call, Live
<1>15. ASSUME NEW n \in ScanId, End(n) PROVE LockDiscipline'
  BY <1>15 DEF End, AdapterStop, Update, Goto, PcOK, LockDiscipline, call, Live
<1>16. ASSUME NEW n \in ScanId, DropReceiver(n) PROVE LockDiscipline'
  BY <1>16 DEF DropReceiver, PcOK, LockDiscipline, call, Live
<1>17. CASE UNCHANGED vars
  BY <1>17 DEF vars, call, PcOK, LockDiscipline, call, Live
<1> QED
  BY <1>1, <1>2, <1>3, <1>4, <1>5, <1>6, <1>7, <1>8, <1>9, <1>10, <1>11, <1>12, <1>13,
     <1>14, <1>15, <1>16, <1>17 DEF Next, Proceed, Poll

\* A started scan stays that of its caller.
LEMMA StartedStep ==
  PcOK /\ TypeOK /\ LockDiscipline /\ StartedIsMine /\ [Next]_vars => StartedIsMine'
<1> SUFFICES ASSUME PcOK, TypeOK, LockDiscipline, StartedIsMine, [Next]_vars
             PROVE  StartedIsMine'
  OBVIOUS
<1> USE TasksAreNoScans
<1>1. ASSUME NEW t \in Task, Call(t) PROVE StartedIsMine'
  BY <1>1, BoundsAssumption DEF Call, Goto, PcOK, TypeOK, LockDiscipline, StartedIsMine,
     call, Live, ScanId
<1>2. ASSUME NEW t \in Task, TakeLock(t) PROVE StartedIsMine'
  BY <1>2, BoundsAssumption DEF TakeLock, GotoAborting, PcOK, TypeOK, LockDiscipline,
     StartedIsMine, call, Live, ScanId
<1>3. ASSUME NEW t \in Task, Halt(t) PROVE StartedIsMine'
  BY <1>3, BoundsAssumption DEF Halt, AdapterStop, Goto, PcOK, TypeOK, LockDiscipline,
     StartedIsMine, call, Live, ScanId
<1>4. ASSUME NEW t \in Task, Start(t) PROVE StartedIsMine'
  BY <1>4, BoundsAssumption DEF Start, Goto, PcOK, TypeOK, LockDiscipline, StartedIsMine,
     call, Live, ScanId
<1>5. ASSUME NEW t \in Task, StartFails(t) PROVE StartedIsMine'
  BY <1>5, BoundsAssumption DEF StartFails, Goto, PcOK, TypeOK, LockDiscipline,
     StartedIsMine, call, Live, ScanId
<1>6. ASSUME NEW t \in Task, Store(t) PROVE StartedIsMine'
  BY <1>6, BoundsAssumption DEF Store, PcOK, TypeOK, LockDiscipline, StartedIsMine, call,
     Live, ScanId
<1>7. ASSUME NEW t \in Task, Announce(t) PROVE StartedIsMine'
  BY <1>7, BoundsAssumption DEF Announce, Update, Goto, PcOK, TypeOK, LockDiscipline,
     StartedIsMine, call, Live, ScanId
<1>8. ASSUME NEW t \in Task, Receive(t) PROVE StartedIsMine'
  BY <1>8, BoundsAssumption DEF Receive, Goto, PcOK, TypeOK, LockDiscipline,
     StartedIsMine, call, Live, ScanId
<1>9. ASSUME NEW t \in Task, Drain(t) PROVE StartedIsMine'
  BY <1>9, BoundsAssumption DEF Drain, Goto, PcOK, TypeOK, LockDiscipline, StartedIsMine,
     call, Live, ScanId
<1>10. ASSUME NEW t \in Task, Take(t) PROVE StartedIsMine'
  BY <1>10, BoundsAssumption DEF Take, GotoAborting, PcOK, TypeOK, LockDiscipline,
     StartedIsMine, call, Live, ScanId
<1>11. ASSUME NEW t \in Task, Stop(t) PROVE StartedIsMine'
  BY <1>11, BoundsAssumption DEF Stop, AdapterStop, Goto, PcOK, TypeOK, LockDiscipline,
     StartedIsMine, call, Live, ScanId
<1>12. ASSUME NEW t \in Task, Report(t) PROVE StartedIsMine'
  BY <1>12, BoundsAssumption DEF Report, Update, Goto, PcOK, TypeOK, LockDiscipline,
     StartedIsMine, call, Live, ScanId
<1>13. ASSUME NEW n \in ScanId, Panic(n) PROVE StartedIsMine'
  BY <1>13, BoundsAssumption DEF Panic, Goto, PcOK, TypeOK, LockDiscipline, StartedIsMine,
     call, Live, ScanId
<1>14. ASSUME NEW n \in ScanId, Elapse(n) PROVE StartedIsMine'
  BY <1>14, BoundsAssumption DEF Elapse, Goto, PcOK, TypeOK, LockDiscipline,
     StartedIsMine, call, Live, ScanId
<1>15. ASSUME NEW n \in ScanId, End(n) PROVE StartedIsMine'
  BY <1>15, BoundsAssumption DEF End, AdapterStop, Update, Goto, PcOK, TypeOK,
     LockDiscipline, StartedIsMine, call, Live, ScanId
<1>16. ASSUME NEW n \in ScanId, DropReceiver(n) PROVE StartedIsMine'
  BY <1>16, BoundsAssumption DEF DropReceiver, PcOK, TypeOK, LockDiscipline,
     StartedIsMine, call, Live, ScanId
<1>17. CASE UNCHANGED vars
  BY <1>17 DEF vars, call, PcOK, TypeOK, LockDiscipline, StartedIsMine, call, Live, ScanId
<1> QED
  BY <1>1, <1>2, <1>3, <1>4, <1>5, <1>6, <1>7, <1>8, <1>9, <1>10, <1>11, <1>12, <1>13,
     <1>14, <1>15, <1>16, <1>17 DEF Next, Proceed, Poll

\* Whoever takes the polling task of a scan away stops the scan.
LEMMA OrphanStep ==
  PcOK /\ TypeOK /\ LockDiscipline /\ StartedIsMine /\ NoOrphanScan /\ [Next]_vars => NoOrphanScan'
<1> SUFFICES ASSUME PcOK, TypeOK, LockDiscipline, StartedIsMine, NoOrphanScan, [Next]_vars
             PROVE  NoOrphanScan'
  OBVIOUS
<1> USE TasksAreNoScans
<1>1. ASSUME NEW t \in Task, Call(t) PROVE NoOrphanScan'
  BY <1>1 DEF Call, Goto, PcOK, StartedIsMine, NoOrphanScan, call, Live
<1>2. ASSUME NEW t \in Task, TakeLock(t) PROVE NoOrphanScan'
  <2>1. CASE scanTask = 0
    <3> SUFFICES ASSUME scanCb' # 0
                 PROVE  \E u \in Task : pc'[u] \in {"halt", "started", "stop"}
      BY DEF NoOrphanScan
    <3>1. PICK u \in Task : pc[u] \in {"halt", "started", "stop"}
      BY <1>2, <2>1 DEF TakeLock, NoOrphanScan
    <3>2. u # t /\ u # scanTask /\ u \in Actor
      BY <1>2, <2>1, <3>1, BoundsAssumption DEF TakeLock
    <3>3. pc'[u] = pc[u]
      BY <1>2, <3>2 DEF TakeLock, GotoAborting
    <3> QED
      BY <3>1, <3>3
  <2>2. CASE scanTask # 0
    <3>1. pc'[t] = "halt"
      BY <1>2, <2>2 DEF TakeLock, GotoAborting, PcOK
    <3> QED
      BY <3>1 DEF NoOrphanScan
  <2> QED
    BY <2>1, <2>2
<1>3. ASSUME NEW t \in Task, Halt(t) PROVE NoOrphanScan'
  <2>1. CASE pc[t] = "halt" /\ scanCb' = 0
    BY <2>1 DEF NoOrphanScan
  <2>2. CASE pc[t] = "halted" /\ pc' = [pc EXCEPT ![t] = "start"] /\ UNCHANGED <<scanCb, scanTask>>
    BY <2>2 DEF PcOK, NoOrphanScan
  <2> QED
    BY <1>3, <2>1, <2>2 DEF Halt, AdapterStop, Goto
<1>4. ASSUME NEW t \in Task, Start(t) PROVE NoOrphanScan'
  BY <1>4 DEF Start, Goto, PcOK, StartedIsMine, NoOrphanScan, call, Live
<1>5. ASSUME NEW t \in Task, StartFails(t) PROVE NoOrphanScan'
  BY <1>5 DEF StartFails, Goto, PcOK, StartedIsMine, NoOrphanScan, call, Live
<1>6. ASSUME NEW t \in Task, Store(t) PROVE NoOrphanScan'
  BY <1>6 DEF Store, PcOK, StartedIsMine, NoOrphanScan, call, Live
<1>7. ASSUME NEW t \in Task, Announce(t) PROVE NoOrphanScan'
  BY <1>7 DEF Announce, Update, Goto, PcOK, StartedIsMine, NoOrphanScan, call, Live
<1>8. ASSUME NEW t \in Task, Receive(t) PROVE NoOrphanScan'
  BY <1>8 DEF Receive, Goto, PcOK, StartedIsMine, NoOrphanScan, call, Live
<1>9. ASSUME NEW t \in Task, Drain(t) PROVE NoOrphanScan'
  BY <1>9 DEF Drain, Goto, PcOK, StartedIsMine, NoOrphanScan, call, Live
<1>10. ASSUME NEW t \in Task, Take(t) PROVE NoOrphanScan'
  BY <1>10 DEF Take, GotoAborting, PcOK, StartedIsMine, NoOrphanScan, call, Live
<1>11. ASSUME NEW t \in Task, Stop(t) PROVE NoOrphanScan'
  <2>1. CASE pc[t] = "stop" /\ scanCb' = 0
    BY <2>1 DEF NoOrphanScan
  <2>2. CASE pc[t] = "stopped" /\ pc' = [pc EXCEPT ![t] = "report"] /\ UNCHANGED <<scanCb, scanTask>>
    BY <2>2 DEF PcOK, NoOrphanScan
  <2> QED
    BY <1>11, <2>1, <2>2 DEF Stop, AdapterStop, Goto
<1>12. ASSUME NEW t \in Task, Report(t) PROVE NoOrphanScan'
  BY <1>12 DEF Report, Update, Goto, PcOK, StartedIsMine, NoOrphanScan, call, Live
<1>13. ASSUME NEW n \in ScanId, Panic(n) PROVE NoOrphanScan'
  BY <1>13 DEF Panic, Goto, PcOK, StartedIsMine, NoOrphanScan, call, Live
<1>14. ASSUME NEW n \in ScanId, Elapse(n) PROVE NoOrphanScan'
  BY <1>14 DEF Elapse, Goto, PcOK, StartedIsMine, NoOrphanScan, call, Live
<1>15. ASSUME NEW n \in ScanId, End(n) PROVE NoOrphanScan'
  <2>1. CASE pc[n] = "stop" /\ scanCb' = 0
    BY <2>1 DEF NoOrphanScan
  <2>2. CASE pc[n] = "stopped" /\ pc' = [pc EXCEPT ![n] = "report"] /\ UNCHANGED <<scanCb, scanTask>>
    BY <2>2 DEF PcOK, NoOrphanScan
  <2>3. CASE pc[n] = "report" /\ pc' = [pc EXCEPT ![n] = "ended"] /\ UNCHANGED <<scanCb, scanTask>>
    BY <2>3 DEF PcOK, NoOrphanScan
  <2> QED
    BY <1>15, <2>1, <2>2, <2>3 DEF End, AdapterStop, Update, Goto
<1>16. ASSUME NEW n \in ScanId, DropReceiver(n) PROVE NoOrphanScan'
  BY <1>16 DEF DropReceiver, PcOK, StartedIsMine, NoOrphanScan, call, Live
<1>17. CASE UNCHANGED vars
  BY <1>17 DEF vars, call, PcOK, StartedIsMine, NoOrphanScan, call, Live
<1> QED
  BY <1>1, <1>2, <1>3, <1>4, <1>5, <1>6, <1>7, <1>8, <1>9, <1>10, <1>11, <1>12, <1>13,
     <1>14, <1>15, <1>16, <1>17 DEF Next, Proceed, Poll

LEMMA ScanStep == ScanInv /\ [Next]_vars => ScanInv'
  BY PcStep, TypeStep, LockStep, StartedStep, OrphanStep DEF ScanInv

LEMMA ScanInvariance == Spec => []ScanInv
  BY ScanInit, ScanStep, PTL DEF Spec

-----------------------------------------------------------------------------
(* The theorems. *)

\* Every variable of the scan (handler.rs, android/mod.rs) has its type in every
\* reachable state.
THEOREM ScanTypeCorrect == Spec => []TypeOK
<1>1. ScanInv => TypeOK
  BY DEF ScanInv
<1> QED
  BY <1>1, ScanInvariance, PTL

\* However discover, stop_scan, scan_for and the end of a scan interleave, the
\* radio never scans without somebody who will stop it.
THEOREM NoScanIsOrphaned == Spec => []NoOrphanScan
<1>1. ScanInv => NoOrphanScan
  BY DEF ScanInv
<1> QED
  BY <1>1, ScanInvariance, PTL

\* Concurrent calls of discover do not get each other rejected by Android: a scan
\* is rejected only while a stop_scan is about to stop the one before it.
THEOREM RejectionsExplained == Spec => RejectedOnlyDuringStop
<1> DEFINE Rejected(t) == pc[t] = "start" /\ pc'[t] = "idle" /\ scanCb # 0
<1>1. ASSUME ScanInv, NEW t \in Task, Rejected(t) PROVE \E u \in Task : pc[u] = "stop"
  <2>1. lock = t /\ scanTask = 0
    BY <1>1, TasksAreNoScans DEF ScanInv, LockDiscipline
  <2>2. PICK u \in Task : pc[u] \in {"halt", "started", "stop"}
    BY <1>1, <2>1 DEF ScanInv, NoOrphanScan
  <2>3. pc[u] \in {"halt", "started"} => u = t
    BY <1>1, <2>1 DEF ScanInv, LockDiscipline
  <2> QED
    BY <1>1, <2>2, <2>3
<1>2. ScanInv => [\A t \in Task : Rejected(t) => \E u \in Task : pc[u] = "stop"]_vars
  BY <1>1
<1> QED
  BY <1>2, ScanInvariance, PTL DEF RejectedOnlyDuringStop
=============================================================================
