----------------------------- MODULE WriteQueue -----------------------------
(* The write queue of an Android peripheral (Peripheral.kt).  Callers, on    *)
(* any thread, append writes; the main looper runs processWriteQueue and     *)
(* the write callbacks; a binder thread fails everything when the link is    *)
(* lost.  The Bluetooth stack takes one write at a time and answers it late. *)
(*                                                                           *)
(* A write is the number under which it was appended.  Clocks are not        *)
(* modelled: a write expires, and the wait for a callback elapses, at any    *)
(* time the code allows for.                                                 *)
EXTENDS Integers, FiniteSets, SequencesExt

CONSTANTS
  MaxWrites,         \* bound: writes of a run
  Char,              \* the characteristics
  Kinds,             \* the kinds of write that callers make
  MaxAttempts,       \* maxAttempts of the peripheral
  MaxLosses,         \* bound: losses of the link and of attempts to connect
  Statuses,          \* of "ok", "transient" and "error", how the stack answers
  CallersMayCancel,  \* callers drop the futures of their writes
  None

Write == 1 .. MaxWrites

ASSUME BoundsAssumption ==
  /\ MaxWrites \in Nat /\ MaxAttempts \in Nat \ {0} /\ MaxLosses \in Nat
  /\ Statuses \subseteq {"ok", "transient", "error"}
  /\ CallersMayCancel \in BOOLEAN
ASSUME KindAssumption == Kinds \subseteq [withResponse : BOOLEAN, skip : BOOLEAN]

VARIABLES
  queue,       \* writeQueue
  active,      \* activeWrite, or NoWrite
  op,          \* the fields of each PendingWrite that change or decide
  elapsed,     \* the wait for the callback of the active write, sent, is over
  expired,     \* writes that are past their timeoutAfter
  starting,    \* callers between the queue lock and runOnMain
  main,        \* where the main looper is
  current,     \* its local variable of that name, while it sends
  wakeups,     \* posted calls of processWriteQueue
  posted,      \* posted write callbacks
  gatt,        \* this.gatt is set (up), lost, or being connected
  failing,     \* times that binder threads are about to fail all writes
  losses,      \* losses of the link so far
  stack,       \* the write the stack is busy with, or NoWrite
  count,       \* the number of writes appended
  outcome,     \* the first answer to each invoke
  delivered,   \* writes the stack has answered with success
  sends,       \* accepted sends of each write that the stack has not refused
  overdue      \* writes given up on or sent again while a callback of theirs may come

link == <<gatt, failing, losses, stack>>
history == <<delivered, sends, overdue>>
vars == <<queue, active, op, elapsed, expired, starting, main, current, wakeups,
          posted, link, count, outcome, history>>

NoWrite == 0
(* A callback is `of` the write the stack was busy with; the code sees only   *)
(* the characteristic of that write.                                         *)
Callback == [of : Write, status : Statuses]
PendingWrite == [char : Char \cup {None}, withResponse : BOOLEAN, skip : BOOLEAN, sent : BOOLEAN,
                 attempt : 0 .. MaxAttempts + 1]

Appended == 1 .. count

(* Writes that are in the queue or active. *)
Waiting == Range(queue) \cup ({active} \ {NoWrite})

(* Its callback may still come. *)
Owed(w) == w \in {stack, current} \/ \E k \in DOMAIN posted : posted[k].of = w

(* An invoke takes its first answer only.  A write that does not wait has    *)
(* been answered when it was appended, so its later answers fall away too.   *)
Answer(ws, answer) ==
  outcome' = [w \in Write |-> IF w \in ws /\ outcome[w] = "none"
                              THEN answer ELSE outcome[w]]

Init ==
  /\ queue = <<>> /\ active = NoWrite /\ elapsed = FALSE
  /\ op = [w \in Write |-> [char |-> None, withResponse |-> FALSE,
                            skip |-> FALSE, sent |-> FALSE, attempt |-> 0]]
  /\ expired = {} /\ starting = {}
  /\ main = "idle" /\ current = NoWrite /\ wakeups = 0 /\ posted = <<>>
  /\ gatt = "up" /\ failing = 0 /\ losses = 0 /\ stack = NoWrite
  /\ count = 0 /\ outcome = [w \in Write |-> "none"]
  /\ delivered = {} /\ sends = [w \in Write |-> 0] /\ overdue = {}

-----------------------------------------------------------------------------
(* Callers.                                                                  *)

(* The handler holds gatt_lock over a write that waits: unless its future is *)
(* dropped, the next write comes when the earlier ones are answered or over. *)
CallerIsFree ==
  CallersMayCancel \/ \A w \in Appended : outcome[w] # "none" \/ w \in expired

Enqueue(char, kind) ==
  LET w == count + 1 IN
  /\ count < MaxWrites
  /\ CallerIsFree
  /\ count' = w
  /\ op' = [op EXCEPT ![w].char = char, ![w].withResponse = kind.withResponse,
                         ![w].skip = kind.skip]
  /\ queue' = Append(queue, w)
  /\ starting' = IF active = NoWrite THEN starting \cup {w} ELSE starting
  /\ IF kind.skip THEN Answer({w}, "resolved") ELSE UNCHANGED outcome
  /\ UNCHANGED <<active, elapsed, expired, main, current, wakeups, posted,
                 link, history>>

PostStart(w) ==
  /\ w \in starting
  /\ starting' = starting \ {w}
  /\ wakeups' = wakeups + 1
  /\ UNCHANGED <<queue, active, op, elapsed, expired, main, current, posted,
                 link, count, outcome, history>>

-----------------------------------------------------------------------------
(* The main looper: processWriteQueue.                                       *)

StartProcess ==
  /\ main = "idle" /\ wakeups > 0
  /\ wakeups' = wakeups - 1
  /\ main' = "pick"
  /\ UNCHANGED <<queue, active, op, elapsed, expired, starting, current, posted,
                 link, count, outcome, history>>

(* The loop over the queue takes each write from the front, and puts it back *)
(* at the end unless it has timed out.                                       *)
Live(q) ==
  LET kept[n \in 0 .. Len(q)] ==
        IF n = 0 THEN <<>>
        ELSE IF q[n] \in expired THEN kept[n - 1]
        ELSE Append(kept[n - 1], q[n])
  IN  kept[Len(q)]

(* Mutant: takes the newest write. *)
PickNewest ==
  /\ main = "pick"
  /\ main' = "decide"
  /\ IF active # NoWrite
     THEN UNCHANGED <<queue, active>>
     ELSE LET live == Live(queue) IN
          IF live = <<>> THEN queue' = <<>> /\ UNCHANGED active
          ELSE queue' = Front(live) /\ active' = Last(live)
  /\ UNCHANGED <<op, elapsed, expired, starting, current, wakeups, posted,
                 link, count, outcome, history>>

(* Expired writes leave the queue with a log line, and no answer. *)
Pick ==
  /\ main = "pick"
  /\ main' = "decide"
  /\ IF active # NoWrite
     THEN UNCHANGED <<queue, active>>
     ELSE LET live == Live(queue) IN
          IF live = <<>> THEN queue' = <<>> /\ UNCHANGED active
          ELSE queue' = Tail(live) /\ active' = Head(live)
  /\ UNCHANGED <<op, elapsed, expired, starting, current, wakeups, posted,
                 link, count, outcome, history>>

NothingToDo ==
  /\ main = "decide" /\ active = NoWrite
  /\ main' = "idle"
  /\ UNCHANGED <<queue, active, op, elapsed, expired, starting, current, wakeups,
                 posted, link, count, outcome, history>>

(* Mutant: trusts the callback to come once the wait is over. *)
KeepWaitingOnce ==
  /\ main = "decide" /\ active # NoWrite /\ op[active].sent
  /\ ~elapsed \/ (op[active].withResponse /\ active \notin expired)
  /\ wakeups' = IF elapsed THEN wakeups ELSE wakeups + 1
  /\ main' = "idle"
  /\ UNCHANGED <<queue, active, op, elapsed, expired, starting, current, posted,
                 link, count, outcome, history>>

(* Mutant: waits for the callback beyond the timeout. *)
KeepWaitingForever ==
  /\ main = "decide" /\ active # NoWrite /\ op[active].sent
  /\ ~elapsed \/ op[active].withResponse
  /\ wakeups' = wakeups + 1
  /\ main' = "idle"
  /\ UNCHANGED <<queue, active, op, elapsed, expired, starting, current, posted,
                 link, count, outcome, history>>

(* Within the window, and after it for a write with response that has time   *)
(* left: look again later.                                                   *)
KeepWaiting ==
  /\ main = "decide" /\ active # NoWrite /\ op[active].sent
  /\ ~elapsed \/ (op[active].withResponse /\ active \notin expired)
  /\ wakeups' = wakeups + 1
  /\ main' = "idle"
  /\ UNCHANGED <<queue, active, op, elapsed, expired, starting, current, posted,
                 link, count, outcome, history>>

(* Mutant: forgets the invoke. *)
GiveUpWaitingSilently ==
  /\ main = "decide" /\ active # NoWrite /\ op[active].sent
  /\ elapsed /\ op[active].withResponse /\ active \in expired
  /\ active' = NoWrite /\ elapsed' = FALSE
  /\ main' = "pick"
  /\ UNCHANGED <<queue, op, expired, starting, current, wakeups, posted,
                 link, count, outcome, history>>

(* The callback of a write with response did not come in time. *)
GiveUpWaiting ==
  /\ main = "decide" /\ active # NoWrite /\ op[active].sent
  /\ elapsed /\ op[active].withResponse /\ active \in expired
  /\ active' = NoWrite /\ elapsed' = FALSE
  /\ Answer({active}, "rejected")
  /\ main' = "pick"
  /\ UNCHANGED <<queue, op, expired, starting, current, wakeups, posted,
                 link, count, history>>

(* Mutant: sends again without asking for the kind of the write. *)
MaySendAgain == ~op[active].sent \/ elapsed

(* A write without response is sent again if no callback came. *)
MaySend ==
  ~op[active].sent \/ (elapsed /\ ~op[active].withResponse)

(* The write is sent, or sent again, on the GATT object read here. *)
PrepareSend ==
  /\ main = "decide" /\ active # NoWrite /\ MaySend /\ gatt = "up"
  /\ op' = [op EXCEPT ![active].sent = FALSE]
  /\ elapsed' = FALSE
  /\ current' = active
  /\ main' = "send"
  /\ UNCHANGED <<queue, active, expired, starting, wakeups, posted,
                 link, count, outcome, history>>

(* failPendingWrites *)
FailPendingWrites ==
  /\ queue' = <<>> /\ active' = NoWrite /\ elapsed' = FALSE
  /\ Answer(Waiting, "rejected")
  /\ overdue' = overdue \cup {w \in {active} \ {NoWrite} : Owed(w)}
  /\ UNCHANGED <<delivered, sends>>

(* No GATT object is left: all writes are failed. *)
NoGatt ==
  /\ main = "decide" /\ active # NoWrite /\ MaySend /\ gatt # "up"
  /\ op' = [op EXCEPT ![active].sent = FALSE]
  /\ FailPendingWrites
  /\ main' = "idle"
  /\ UNCHANGED <<expired, starting, current, wakeups, posted, link, count>>

(* writeCharacteristic accepts the write. *)
Accept ==
  /\ main = "send" /\ stack = NoWrite /\ gatt = "up"
  /\ stack' = current
  /\ sends' = [sends EXCEPT ![current] = @ + 1]
  /\ op' = [op EXCEPT ![current].sent = TRUE]
  /\ elapsed' = FALSE
  /\ wakeups' = wakeups + 1
  /\ main' = "idle" /\ current' = NoWrite
  /\ UNCHANGED <<queue, active, expired, starting, posted, gatt, failing,
                 losses, count, outcome, delivered, overdue>>

(* The write ends: the next one is picked in the same call. *)
EndWrite(rejected) ==
  /\ active' = IF active = current THEN NoWrite ELSE active
  /\ Answer(rejected \cup {current}, "rejected")
  /\ main' = "pick"
  /\ UNCHANGED wakeups

(* The write stays active, and is tried again after writeRetryDelayMs. *)
RetryWrite(rejected) ==
  /\ UNCHANGED active
  /\ Answer(rejected, "rejected")
  /\ main' = "idle"
  /\ wakeups' = wakeups + 1

EndOrRetry(attempt, rejected) ==
  /\ IF current \in expired \/ attempt >= MaxAttempts
     THEN EndWrite(rejected) ELSE RetryWrite(rejected)
  /\ current' = NoWrite

(* writeCharacteristic says that the stack is busy.  That is no attempt, and *)
(* the writes that expired in the queue meanwhile are rejected.              *)
Busy ==
  /\ main = "send" /\ stack # NoWrite
  /\ queue' = Live(queue)
  /\ EndOrRetry(op[current].attempt, Range(queue) \cap expired)
  /\ UNCHANGED <<op, elapsed, expired, starting, posted, link, count, history>>

(* writeCharacteristic fails, as it also does when the link has been lost. *)
StartFails ==
  /\ main = "send"
  /\ op' = [op EXCEPT ![current].attempt = @ + 1]
  /\ EndOrRetry(op[current].attempt + 1, {})
  /\ UNCHANGED <<queue, elapsed, expired, starting, posted, link, count, history>>

-----------------------------------------------------------------------------
(* Mutant: does not count the attempts. *)
AnsweredUnbounded(status) ==
  \/ /\ status = "ok"
     /\ active' = NoWrite /\ elapsed' = FALSE
     /\ Answer({active}, "resolved")
     /\ UNCHANGED op
  \/ /\ status = "transient"
     /\ active \notin expired
     /\ op' = [op EXCEPT ![active].sent = FALSE, ![active].attempt = @ + 1]
     /\ elapsed' = FALSE
     /\ UNCHANGED <<active, outcome>>
  \/ /\ status # "ok"
     /\ \/ status = "error"
        \/ op[active].attempt >= MaxAttempts
        \/ active \in expired
     /\ op' = [op EXCEPT ![active].sent = FALSE]
     /\ active' = NoWrite /\ elapsed' = FALSE
     /\ Answer({active}, "rejected")

(* The main looper: processOnCharWrite.  The callback names a characteristic *)
(* and a status, not a write; it ends with processWriteQueue.                *)
Answered(status) ==
  \/ /\ status = "ok"
     /\ active' = NoWrite /\ elapsed' = FALSE
     /\ Answer({active}, "resolved")
     /\ UNCHANGED op
  \/ /\ status = "transient"
     /\ op[active].attempt < MaxAttempts /\ active \notin expired
     /\ op' = [op EXCEPT ![active].sent = FALSE, ![active].attempt = @ + 1]
     /\ elapsed' = FALSE
     /\ UNCHANGED <<active, outcome>>
  \/ /\ status # "ok"
     /\ \/ status = "error"
        \/ op[active].attempt >= MaxAttempts
        \/ active \in expired
     /\ op' = [op EXCEPT ![active].sent = FALSE]
     /\ active' = NoWrite /\ elapsed' = FALSE
     /\ Answer({active}, "rejected")

(* Mutant: does not compare the characteristics. *)
HandleAnyCallback ==
  /\ main = "idle" /\ posted # <<>>
  /\ posted' = Tail(posted)
  /\ IF active = NoWrite
     THEN UNCHANGED <<active, op, elapsed, outcome, main>>
     ELSE main' = "pick" /\ Answered(Head(posted).status)
  /\ UNCHANGED <<queue, expired, starting, current, wakeups, link, count, history>>

HandleCallback ==
  /\ main = "idle" /\ posted # <<>>
  /\ posted' = Tail(posted)
  /\ IF active = NoWrite \/ op[active].char # op[Head(posted).of].char
     THEN UNCHANGED <<active, op, elapsed, outcome, main>>
     ELSE main' = "pick" /\ Answered(Head(posted).status)
  /\ UNCHANGED <<queue, expired, starting, current, wakeups, link, count, history>>

-----------------------------------------------------------------------------
(* The stack and the clocks.                                                 *)

(* The stack finishes the write it is busy with; onCharacteristicWrite posts *)
(* the callback to the main looper.                                          *)
StackAnswers(status) ==
  /\ stack # NoWrite
  /\ stack' = NoWrite
  /\ posted' = Append(posted, [of |-> stack, status |-> status])
  /\ IF status = "ok"
     THEN delivered' = delivered \cup {stack} /\ UNCHANGED sends
     ELSE sends' = [sends EXCEPT ![stack] = @ - 1] /\ UNCHANGED delivered
  /\ UNCHANGED <<queue, active, op, elapsed, expired, starting, main, current,
                 wakeups, gatt, failing, losses, count, outcome, overdue>>

(* onConnectionStateChange of a link or an attempt that ends: first the GATT *)
(* object is closed, then the writes are failed, twice if a disconnect waits *)
(* for it.  The fallback of disconnect does the same on the main looper.     *)
LinkDown ==
  /\ gatt # "lost" /\ losses < MaxLosses
  /\ gatt' = "lost" /\ stack' = NoWrite /\ losses' = losses + 1
  /\ failing' \in {failing + 1, failing + 2}
  /\ UNCHANGED <<queue, active, op, elapsed, expired, starting, main, current,
                 wakeups, posted, count, outcome, history>>

LinkFails ==
  /\ failing > 0
  /\ failing' = failing - 1
  /\ FailPendingWrites
  /\ UNCHANGED <<op, expired, starting, main, current, wakeups, posted, gatt,
                 losses, stack, count>>

(* disconnect without a GATT object; it gives up an attempt to connect. *)
DisconnectWithoutGatt ==
  /\ gatt # "up"
  /\ gatt' = "lost"
  /\ FailPendingWrites
  /\ UNCHANGED <<op, expired, starting, main, current, wakeups, posted, failing,
                 losses, stack, count>>

(* connectGatt runs on the main looper. *)
ConnectGatt ==
  /\ main = "idle" /\ gatt = "lost"
  /\ gatt' = "connecting"
  /\ UNCHANGED <<queue, active, op, elapsed, expired, starting, main, current,
                 wakeups, posted, failing, losses, stack, count, outcome, history>>

LinkUp ==
  /\ gatt = "connecting"
  /\ gatt' = "up"
  /\ UNCHANGED <<queue, active, op, elapsed, expired, starting, main, current,
                 wakeups, posted, failing, losses, stack, count, outcome, history>>

(* What is answered or forgotten does not expire any more. *)
Expire(w) ==
  /\ w \in (Waiting \cup {current}) \ (expired \cup {NoWrite})
  /\ expired' = expired \cup {w}
  /\ UNCHANGED <<queue, active, op, elapsed, starting, main, current, wakeups,
                 posted, link, count, outcome, history>>

(* The wait takes seconds and the looper is quick: a callback that is posted *)
(* by then has been handled.                                                 *)
Elapse ==
  /\ active # NoWrite /\ op[active].sent /\ ~elapsed /\ posted = <<>>
  /\ elapsed' = TRUE
  /\ overdue' = overdue \cup {w \in {active} : Owed(w)}
  /\ UNCHANGED <<queue, active, op, expired, starting, main, current, wakeups,
                 posted, link, count, outcome, delivered, sends>>

-----------------------------------------------------------------------------
Process == \/ StartProcess \/ Pick \/ NothingToDo \/ KeepWaiting \/ GiveUpWaiting
           \/ PrepareSend \/ NoGatt \/ Accept \/ Busy \/ StartFails
Caller == \E char \in Char, kind \in Kinds : Enqueue(char, kind)
Stack == \E status \in Statuses : StackAnswers(status)
Link == LinkDown \/ LinkFails \/ DisconnectWithoutGatt \/ ConnectGatt \/ LinkUp
Clock == Elapse \/ \E w \in Write : Expire(w)

Next == \/ Process \/ HandleCallback
        \/ Caller \/ \E w \in Write : PostStart(w)
        \/ Stack \/ Link \/ Clock

Spec == Init /\ [][Next]_vars

(* The looper runs everything that is posted, threads go on, time passes,    *)
(* and every write has a timeout.  The stack need not answer.                *)
FairSpec ==
  /\ Spec
  /\ WF_vars(Process) /\ SF_vars(HandleCallback) /\ SF_vars(StartProcess)
  /\ WF_vars(LinkFails) /\ WF_vars(Elapse)
  /\ \A w \in Write : WF_vars(PostStart(w)) /\ WF_vars(Expire(w))

-----------------------------------------------------------------------------
TypeOK ==
  /\ queue \in Seq(Write) /\ active \in Write \cup {NoWrite}
  /\ op \in [Write -> PendingWrite]
  /\ elapsed \in BOOLEAN /\ expired \subseteq Write /\ starting \subseteq Write
  /\ main \in {"idle", "pick", "decide", "send"}
  /\ current \in Write \cup {NoWrite} /\ wakeups \in Nat
  /\ posted \in Seq(Callback)
  /\ gatt \in {"up", "lost", "connecting"} /\ failing \in Nat
  /\ losses \in 0 .. MaxLosses /\ stack \in Write \cup {NoWrite}
  /\ count \in 0 .. MaxWrites
  /\ outcome \in [Write -> {"none", "resolved", "rejected"}]
  /\ delivered \subseteq Write /\ sends \in [Write -> Nat] /\ overdue \subseteq Write

(* The queue never stalls: while a write waits, a call of processWriteQueue  *)
(* is posted or running, or someone is about to post one or to fail all      *)
(* writes.  Nothing else would ever look at the queue again, as the next     *)
(* write starts it only if no write is active (Peripheral.kt 761, 781).      *)
NoStalledQueue ==
  Waiting # {} => wakeups > 0 \/ main # "idle" \/ starting # {} \/ failing > 0

(* The invoke of a write that left the queue is answered, unless the write   *)
(* expired before it was ever sent.                                          *)
SentWriteIsAnswered ==
  \A w \in Appended : w \notin Waiting /\ outcome[w] = "none" =>
    w \in expired /\ sends[w] = 0

(* Writes are sent in the order in which they were appended, whatever is     *)
(* sent again, refused as busy or expired in between.                        *)
InOrder ==
  \A v, w \in Appended : v < w /\ v \in Waiting => sends[w] = 0 /\ w # stack

(* Earlier writes to the characteristic of a write.                          *)
Earlier(w) == {v \in Appended : v < w /\ op[v].char = op[w].char}

(* The callback names a characteristic and no write, so one that comes late  *)
(* is taken for that of a later write to the characteristic.                 *)
MayBeMistaken(w) == Earlier(w) \cap overdue # {}

(* A write whose invoke is resolved has been delivered by the stack.  If not, *)
(* an earlier write to the same characteristic has, after one of those was given up  *)
(* on or sent again too early for its callback (Peripheral.kt 336).           *)
ResolvedMeansDelivered ==
  \A w \in Appended : outcome[w] = "resolved" /\ ~op[w].skip =>
    w \in delivered \/ (MayBeMistaken(w) /\ Earlier(w) \cap delivered # {})

(* A write with response is not sent again unless the stack refused it, or    *)
(* an earlier write to the same characteristic, that was given up on too early *)
(* for its callback: the device may have executed it (Peripheral.kt 840-843). *)
WithResponseSentOnce ==
  \A w \in Appended : op[w].withResponse => sends[w] <= 1 \/ MayBeMistaken(w)

(* Every invoke is "answered exactly once" (Invoke.kt 7): a write that left  *)
(* the queue has been answered.                                              *)
NoWriteForgotten ==
  \A w \in Appended : w \notin Waiting => outcome[w] # "none"

(* Every write leaves the queue, even if the stack never answers.            *)
QueueDrains == \A w \in Write : w \in Waiting ~> w \notin Waiting
=============================================================================
