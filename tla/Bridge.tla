------------------------------- MODULE Bridge -------------------------------
(***************************************************************************)
(* The command bridge between Rust and Kotlin (android/bridge.rs).  A task *)
(* makes one call, possibly with a channel for a stream of values.  Kotlin *)
(* answers on any thread, inside the invocation or long after it, twice    *)
(* when two threads pass the unguarded `answered` flag of Invoke together, *)
(* or never.  Time is not modelled: a call expires at any moment.          *)
(*                                                                         *)
(* The bridge is set up when the handler is, and its longest stream is     *)
(* that of the events, which the handler's event pump reads (handler.rs).  *)
(***************************************************************************)
EXTENDS Naturals, Sequences

CONSTANTS
  Task,      \* the tasks, each of which makes one call
  Streams,   \* the tasks that open a channel and pass it to their call
  Pumps,     \* those of them that start the event pump, with the call `events`
  Starter,   \* the threads that initialise the bridge
  MaxEmits,  \* bound: values Kotlin sends to one channel
  None

ASSUME StreamsAssumption == Pumps \subseteq Streams /\ Streams \subseteq Task /\ None \notin Task
ASSUME EmitsAssumption == MaxEmits \in Nat

(* An answer that is no JSON, or not of the expected type, is an "error". *)
Answer == {"ok", "error"}

VARIABLES
  starter,    \* where each starter is
  bridge,     \* BRIDGE is set
  handler,    \* HANDLER is set
  pumpLock,   \* the task that holds the mutex event_pump, or None
  pump,       \* the task whose stream the event pump reads, or None
  nextId,     \* next_id
  pending,    \* the task whose sender is registered under an id
  channels,   \* the task whose channel is registered under an id
  pc,         \* where each task is
  id,         \* the id of its call, or 0
  chan,       \* the id of its channel, or 0
  slot,       \* the oneshot of its call
  rx,         \* the values in its channel
  rxOpen,     \* its receiver exists
  result,     \* the result of its call
  got,        \* the last value the stream yielded
  eventChannel, \* the channel Kotlin sends events to, or 0
  answering,  \* answers of Kotlin threads that are past the `answered` test
  answered,   \* the flag of Invoke
  given,      \* the answers Kotlin gave, in order
  emitted     \* the values Kotlin sent to its channel

startVars == <<starter, bridge, handler>>
pumpVars == <<pumpLock, pump>>
rustVars == <<pumpVars, nextId, pending, channels, pc, id, chan, slot, rx, rxOpen, result, got>>
kotlinVars == <<eventChannel, answering, answered, given, emitted>>
vars == <<startVars, rustVars, kotlinVars>>

Pc == {"idle", "locked", "waiting", "expired", "closing", "unregistered", "streaming", "done"}
Result == {"none", "unreached", "timeout", "abandoned"} \cup Answer

Init ==
  /\ starter = [s \in Starter |-> "idle"] /\ bridge = FALSE /\ handler = FALSE
  /\ pumpLock = None /\ pump = None /\ eventChannel = 0
  /\ nextId = 1 /\ pending = <<>> /\ channels = <<>>
  /\ pc = [t \in Task |-> "idle"]
  /\ id = [t \in Task |-> 0] /\ chan = [t \in Task |-> 0]
  /\ slot = [t \in Task |-> "empty"] /\ result = [t \in Task |-> "none"]
  /\ rx = [t \in Task |-> <<>>] /\ rxOpen = [t \in Task |-> FALSE]
  /\ got = [t \in Task |-> 0] /\ emitted = [t \in Task |-> 0]
  /\ answering = [t \in Task |-> {}] /\ answered = [t \in Task |-> FALSE]
  /\ given = [t \in Task |-> <<>>]

(* A map with one more entry, and a map without one. *)
Insert(map, k, t) == [i \in DOMAIN map \cup {k} |-> IF i = k THEN t ELSE map[i]]
Remove(map, k) == [i \in DOMAIN map \ {k} |-> map[i]]

Goto(t, where) == pc' = [pc EXCEPT ![t] = where]

(* Where a task whose call did not succeed drops its ChannelReceiver. *)
Failed(t) == IF rxOpen[t] THEN "closing" ELSE "done"

(* Whoever starts the pump unlocks it when its call has ended. *)
Unlock(t) == pumpLock' = IF pumpLock = t THEN None ELSE pumpLock

(* The stream of a successful `events` is the one the pump reads from now on; *)
(* a pump without a stream ends at once.                                      *)
SpawnPump(t, a) == pump' = IF t \in Pumps /\ a = "ok" THEN t ELSE pump

-----------------------------------------------------------------------------
(* Initialisation: blec::init, or the host's init_with before it. *)

StartInit(s) ==
  /\ starter[s] = "idle"
  /\ starter' = [starter EXCEPT ![s] = IF handler THEN "done" ELSE IF bridge THEN "stored" ELSE "loading"]
  /\ UNCHANGED <<bridge, handler, rustVars, kotlinVars>>

(* The class is found in the app or the embedded dex, the natives are bound *)
(* and Kotlin's init has run.                                               *)
LoadBridge(s) ==
  /\ starter[s] = "loading"
  /\ starter' = [starter EXCEPT ![s] = "loaded"]
  /\ UNCHANGED <<bridge, handler, rustVars, kotlinVars>>

(* There is no context, no class, or the dex does not load. *)
LoadFails(s) ==
  /\ starter[s] = "loading"
  /\ starter' = [starter EXCEPT ![s] = "idle"]
  /\ UNCHANGED <<bridge, handler, rustVars, kotlinVars>>

(* The bridge of a starter that is late is dropped. *)
StoreBridge(s) ==
  /\ starter[s] = "loaded"
  /\ starter' = [starter EXCEPT ![s] = "stored"] /\ bridge' = TRUE
  /\ UNCHANGED <<handler, rustVars, kotlinVars>>

(* So is its handler; it returns the one there is. *)
StoreHandler(s) ==
  /\ starter[s] = "stored"
  /\ starter' = [starter EXCEPT ![s] = "done"] /\ handler' = TRUE
  /\ UNCHANGED <<bridge, rustVars, kotlinVars>>

-----------------------------------------------------------------------------
(* The event pump: get_or_init_adapter. *)

(* Mutant: the pump is looked at with the lock, and started without it. *)
StartPumpUnlocked(t) ==
  /\ handler /\ t \in Pumps /\ pc[t] = "idle" /\ pumpLock = None
  /\ Goto(t, IF pump = None THEN "locked" ELSE "done")
  /\ UNCHANGED <<startVars, pumpVars, nextId, pending, channels, id, chan, slot, rx, rxOpen, result, got,
                 kotlinVars>>

(* It is started with the lock held, unless it runs.  On Android its stream *)
(* never ends.                                                              *)
StartPump(t) ==
  /\ handler /\ t \in Pumps /\ pc[t] = "idle" /\ pumpLock = None
  /\ pumpLock' = IF pump = None THEN t ELSE None
  /\ Goto(t, IF pump = None THEN "locked" ELSE "done")
  /\ UNCHANGED <<startVars, pump, nextId, pending, channels, id, chan, slot, rx, rxOpen, result, got,
                 kotlinVars>>

-----------------------------------------------------------------------------
(* A call.  Nobody else sees what it registers before it invokes Kotlin, so *)
(* that is one step; it waits for nothing in between.                       *)

(* The ids of its channel, if any, and of itself. *)
Register(t) ==
  /\ handler /\ pc[t] = IF t \in Pumps THEN "locked" ELSE "idle"
  /\ nextId' = nextId + IF t \in Streams THEN 2 ELSE 1
  /\ id' = [id EXCEPT ![t] = nextId' - 1]
  /\ IF t \in Streams
       THEN /\ chan' = [chan EXCEPT ![t] = nextId] /\ rxOpen' = [rxOpen EXCEPT ![t] = TRUE]
            /\ channels' = Insert(channels, nextId, t)
       ELSE UNCHANGED <<chan, rxOpen, channels>>

(* The command is under way in Kotlin, whose answer may come from now on. *)
StartCall(t) ==
  /\ t \notin Pumps /\ Register(t)
  /\ pending' = Insert(pending, id'[t], t) /\ Goto(t, "waiting")
  /\ UNCHANGED <<startVars, pumpVars, slot, rx, result, got, kotlinVars>>

(* The command `events` answers before invoke returns. *)
CallEvents(t) ==
  /\ t \in Pumps /\ Register(t)
  /\ \E a \in Answer :
       /\ eventChannel' = IF a = "ok" THEN chan'[t] ELSE eventChannel
       /\ slot' = [slot EXCEPT ![t] = a] /\ given' = [given EXCEPT ![t] = <<a>>]
  /\ answered' = [answered EXCEPT ![t] = TRUE] /\ Goto(t, "waiting")
  /\ UNCHANGED <<startVars, pumpVars, pending, rx, result, got, answering, emitted>>

(* Mutant: the entry of a call that never started stays. *)
InvokeFailsKeepingEntry(t) ==
  /\ Register(t)
  /\ pending' = Insert(pending, id'[t], t)
  /\ result' = [result EXCEPT ![t] = "unreached"] /\ Unlock(t)
  /\ Goto(t, IF t \in Streams THEN "closing" ELSE "done")
  /\ UNCHANGED <<startVars, pump, slot, rx, got, kotlinVars>>

(* The invocation throws before the command starts; the entry is removed. *)
InvokeFails(t) ==
  /\ Register(t)
  /\ result' = [result EXCEPT ![t] = "unreached"] /\ Unlock(t)
  /\ Goto(t, IF t \in Streams THEN "closing" ELSE "done")
  /\ UNCHANGED <<startVars, pump, pending, slot, rx, got, kotlinVars>>

(* Mutant: does not wait. *)
TakeAnswerAtOnce(t) ==
  /\ pc[t] = "waiting"
  /\ result' = [result EXCEPT ![t] = slot[t]]
  /\ Goto(t, IF slot[t] = "ok" /\ rxOpen[t] THEN "streaming" ELSE Failed(t))
  /\ SpawnPump(t, slot[t]) /\ Unlock(t)
  /\ UNCHANGED <<startVars, nextId, pending, channels, id, chan, slot, rx, rxOpen, got, kotlinVars>>

(* The timeout looks at the answer before it looks at the clock. *)
TakeAnswer(t) ==
  /\ pc[t] = "waiting" /\ slot[t] # "empty"
  /\ result' = [result EXCEPT ![t] = slot[t]]
  /\ Goto(t, IF slot[t] = "ok" /\ rxOpen[t] THEN "streaming" ELSE Failed(t))
  /\ SpawnPump(t, slot[t]) /\ Unlock(t)
  /\ UNCHANGED <<startVars, nextId, pending, channels, id, chan, slot, rx, rxOpen, got, kotlinVars>>

(* Mutant: only the handler has timeouts. *)
ExpireNever(t) == FALSE

Expire(t) ==
  /\ pc[t] = "waiting" /\ slot[t] = "empty" /\ Goto(t, "expired")
  /\ UNCHANGED <<startVars, pumpVars, nextId, pending, channels, id, chan, slot, rx, rxOpen, result, got, kotlinVars>>

(* An answer that came since is lost. *)
RemoveExpired(t) ==
  /\ pc[t] = "expired"
  /\ pending' = Remove(pending, id[t])
  /\ result' = [result EXCEPT ![t] = "timeout"] /\ Goto(t, Failed(t)) /\ Unlock(t)
  /\ UNCHANGED <<startVars, pump, nextId, channels, id, chan, slot, rx, rxOpen, got, kotlinVars>>

(* The handler's own timeout, or a caller, drops the future: nothing removes *)
(* the entry before Kotlin answers.                                          *)
DropFuture(t) ==
  /\ pc[t] = "waiting"
  /\ result' = [result EXCEPT ![t] = "abandoned"] /\ Goto(t, Failed(t)) /\ Unlock(t)
  /\ UNCHANGED <<startVars, pump, nextId, pending, channels, id, chan, slot, rx, rxOpen, got, kotlinVars>>

-----------------------------------------------------------------------------
(* The receiving end of a channel. *)

Receive(t) ==
  /\ pc[t] = "streaming" /\ rx[t] # <<>>
  /\ got' = [got EXCEPT ![t] = Head(rx[t])] /\ rx' = [rx EXCEPT ![t] = Tail(@)]
  /\ UNCHANGED <<startVars, pumpVars, nextId, pending, channels, pc, id, chan, slot, rxOpen, result, kotlinVars>>

StopStreaming(t) ==
  /\ pc[t] = "streaming" /\ t \notin Pumps /\ Goto(t, "closing")
  /\ UNCHANGED <<startVars, pumpVars, nextId, pending, channels, id, chan, slot, rx, rxOpen, result, got, kotlinVars>>

(* Drop for ChannelReceiver runs before its fields are dropped. *)
Unregister(t) ==
  /\ pc[t] = "closing"
  /\ channels' = Remove(channels, chan[t]) /\ Goto(t, "unregistered")
  /\ UNCHANGED <<startVars, pumpVars, nextId, pending, id, chan, slot, rx, rxOpen, result, got, kotlinVars>>

DropReceiver(t) ==
  /\ pc[t] = "unregistered"
  /\ rxOpen' = [rxOpen EXCEPT ![t] = FALSE] /\ rx' = [rx EXCEPT ![t] = <<>>]
  /\ Goto(t, "done")
  /\ UNCHANGED <<startVars, pumpVars, nextId, pending, channels, id, chan, slot, result, got, kotlinVars>>

-----------------------------------------------------------------------------
(* Kotlin. *)

(* Kotlin knows a call from its invocation on. *)
Known(t) == pc[t] \notin {"idle", "locked"} /\ id[t] # 0 /\ result[t] # "unreached"

TestAnswered(t, a) ==
  /\ Known(t) /\ ~answered[t] /\ t \notin Pumps
  /\ answering' = [answering EXCEPT ![t] = @ \cup {a}]
  /\ UNCHANGED <<startVars, rustVars, eventChannel, answered, given, emitted>>

(* Mutant: the entry stays, for calls that are answered in parts. *)
AnswerKeepingEntry(t, a) ==
  /\ a \in answering[t]
  /\ answering' = [answering EXCEPT ![t] = @ \ {a}]
  /\ answered' = [answered EXCEPT ![t] = TRUE]
  /\ given' = [given EXCEPT ![t] = Append(@, a)]
  /\ slot' = [u \in Task |-> IF id[t] \in DOMAIN pending /\ pending[id[t]] = u THEN a ELSE slot[u]]
  /\ UNCHANGED <<startVars, pumpVars, nextId, pending, channels, pc, id, chan, rx, rxOpen, result, got,
                 eventChannel, emitted>>

(* nativeResolve or nativeReject: complete takes the entry, and sends the *)
(* answer to nobody when the call is gone.                                *)
Complete(t, a) ==
  /\ a \in answering[t]
  /\ answering' = [answering EXCEPT ![t] = @ \ {a}]
  /\ answered' = [answered EXCEPT ![t] = TRUE]
  /\ given' = [given EXCEPT ![t] = Append(@, a)]
  /\ slot' = [u \in Task |-> IF id[t] \in DOMAIN pending /\ pending[id[t]] = u THEN a ELSE slot[u]]
  /\ pending' = Remove(pending, id[t])
  /\ UNCHANGED <<startVars, pumpVars, nextId, channels, pc, id, chan, rx, rxOpen, result, got,
                 eventChannel, emitted>>

(* nativeChannelSend looks the id up and sends under the lock of channels. *)
ChannelSend(t) ==
  /\ Known(t) /\ chan[t] # 0 /\ emitted[t] < MaxEmits
  /\ t \in Pumps => eventChannel = chan[t]
  /\ emitted' = [emitted EXCEPT ![t] = @ + 1]
  /\ rx' = [u \in Task |-> IF chan[t] \in DOMAIN channels /\ channels[chan[t]] = u
                             THEN Append(rx[u], emitted[t] + 1) ELSE rx[u]]
  /\ UNCHANGED <<startVars, pumpVars, nextId, pending, channels, pc, id, chan, slot, rxOpen, result, got,
                 eventChannel, answering, answered, given>>

-----------------------------------------------------------------------------
Start(s) ==
  StartInit(s) \/ LoadBridge(s) \/ LoadFails(s) \/ StoreBridge(s) \/ StoreHandler(s)

StartTask(t) == StartPump(t) \/ (t \notin Pumps /\ (StartCall(t) \/ InvokeFails(t)))

(* What a task does without being told to. *)
Proceed(t) ==
  \/ CallEvents(t) \/ (t \in Pumps /\ InvokeFails(t))
  \/ TakeAnswer(t) \/ Expire(t) \/ RemoveExpired(t)
  \/ Unregister(t) \/ DropReceiver(t)

Rust(t) == StartTask(t) \/ Proceed(t) \/ DropFuture(t) \/ Receive(t) \/ StopStreaming(t)

Kotlin(t) == ChannelSend(t) \/ \E a \in Answer : TestAnswered(t, a) \/ Complete(t, a)

Next == (\E s \in Starter : Start(s)) \/ (\E t \in Task : Rust(t) \/ Kotlin(t))

Spec == Init /\ [][Next]_vars

(* The executor runs every task that is ready, the timers included.  Kotlin *)
(* owes nothing.                                                            *)
FairSpec == Spec /\ \A t \in Task : WF_vars(Proceed(t))

-----------------------------------------------------------------------------
(* Properties. *)

TypeOK ==
  /\ starter \in [Starter -> {"idle", "loading", "loaded", "stored", "done"}]
  /\ bridge \in BOOLEAN /\ handler \in BOOLEAN
  /\ pumpLock \in Pumps \cup {None} /\ pump \in Pumps \cup {None} /\ eventChannel \in Nat
  /\ nextId \in Nat \ {0}
  /\ pending \in [DOMAIN pending -> Task] /\ channels \in [DOMAIN channels -> Task]
  /\ pc \in [Task -> Pc] /\ id \in [Task -> Nat] /\ chan \in [Task -> Nat]
  /\ slot \in [Task -> Answer \cup {"empty"}] /\ result \in [Task -> Result]
  /\ rx \in [Task -> Seq(Nat)] /\ rxOpen \in [Task -> BOOLEAN] /\ got \in [Task -> Nat]
  /\ answering \in [Task -> SUBSET Answer] /\ answered \in [Task -> BOOLEAN]
  /\ given \in [Task -> Seq(Answer)] /\ emitted \in [Task -> Nat]

\* A call that waits can still be woken by Kotlin, or has its answer: the error
\* "the android side dropped the call" of `call` never occurs.
WaitingIsReachable ==
  \A t \in Task : pc[t] = "waiting" /\ slot[t] = "empty"
                    => id[t] \in DOMAIN pending /\ pending[id[t]] = t

\* A pending entry is that of a call in progress, or of a dropped future that
\* Kotlin has not answered yet.
PendingIsNeeded ==
  \A i \in DOMAIN pending : LET t == pending[i] IN
    /\ id[t] = i /\ given[t] = <<>>
    /\ pc[t] \in {"waiting", "expired"} \/ result[t] = "abandoned"

\* "The map is only cleaned up when `ChannelReceiver` drops, which cannot race
\* with" a send (native_channel_send): a registered channel has its receiver.
RegisteredHasReceiver == \A i \in DOMAIN channels : rxOpen[channels[i]] /\ chan[channels[i]] = i

\* The maps of the bridge hold what they must and no garbage, however starters,
\* answers, timeouts and dropped futures interleave.
EntriesAreExact == WaitingIsReachable /\ PendingIsNeeded /\ RegisteredHasReceiver

\* Kotlin keeps one channel for events, and it is the one the event pump reads:
\* the handler never runs a second pump, nor one that hears nothing.
PumpHearsEvents ==
  \A t \in Pumps : pc[t] = "streaming" => pump = t /\ eventChannel = chan[t] /\ chan[t] \in DOMAIN channels

\* The bridge keeps the promise of RemoteCalls to the code above it.
Calls == INSTANCE RemoteCalls WITH Answer <- Answer, given <- given, result <- result,
                                   emitted <- emitted, got <- got
CallsPromise == Calls!Spec

\* Every call ends, though Kotlin may never answer, and the lock of the pump is
\* free again.
EveryCallEnds ==
  \A t \in Task : pc[t] \in {"locked", "waiting"} ~> pc[t] \in {"streaming", "done"} /\ pumpLock # t
=============================================================================
