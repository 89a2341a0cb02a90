---------------------------- MODULE BridgeProofs ----------------------------
(***************************************************************************)
(* Proofs about Bridge, for any number of tasks, streams, starts of the    *)
(* event pump and values, and whatever Kotlin answers.                     *)
(***************************************************************************)
EXTENDS Bridge, SequenceTheorems, TLAPS

-----------------------------------------------------------------------------
(* The inductive invariant. *)

\* An id is that of one call or one channel, and 0 that of none.
IdsAreUnique ==
  /\ \A t \in Task : id[t] < nextId /\ chan[t] < nextId
  /\ \A t, u \in Task : id[t] # 0 /\ id[t] = id[u] => t = u
  /\ \A t, u \in Task : chan[t] # 0 /\ chan[t] = chan[u] => t = u

\* A task without an id has not called: nobody has anything of it.
Untouched(t) ==
  /\ pc[t] \in {"idle", "locked"} => id[t] = 0
  /\ id[t] = 0 => /\ pc[t] \in {"idle", "locked", "done"} /\ ~rxOpen[t] /\ chan[t] = 0
                  /\ answering[t] = {} /\ given[t] = <<>> /\ slot[t] = "empty" /\ result[t] = "none"
                  /\ emitted[t] = 0 /\ got[t] = 0 /\ rx[t] = <<>>

NothingBeforeTheCall == \A t \in Task : Untouched(t)

\* The slot of a call holds the first answer Kotlin gave to it, and a call has
\* no result before it stops waiting.
FirstAnswer(t) ==
  /\ slot[t] # "empty" => given[t] # <<>> /\ slot[t] = Head(given[t])
  /\ answering[t] # {} => id[t] # 0 /\ result[t] # "unreached" /\ t \notin Pumps
  /\ pc[t] \in {"waiting", "expired"} => result[t] = "none"
  /\ pc[t] = "streaming" => result[t] = "ok"

SlotHoldsFirstAnswer == \A t \in Task : FirstAnswer(t)

\* The sender of an entry has not been used.
PendingIsUnanswered == \A i \in DOMAIN pending : slot[pending[i]] = "empty"

\* A channel is registered exactly as long as its task may read it.
ChannelsAreRegistered ==
  /\ \A i \in DOMAIN channels : pc[channels[i]] \in {"waiting", "expired", "streaming", "closing"}
  /\ \A t \in Task :
       /\ pc[t] \in {"streaming", "closing"} => rxOpen[t]
       /\ pc[t] \in {"idle", "locked", "done"} => ~rxOpen[t]
       /\ rxOpen[t] /\ pc[t] \in {"waiting", "expired", "streaming", "closing"} =>
            chan[t] # 0 /\ chan[t] \in DOMAIN channels /\ channels[chan[t]] = t

\* A channel holds the values that were sent and not yielded yet, in order.
Rest(t) ==
  /\ got[t] + Len(rx[t]) <= emitted[t]
  /\ \A k \in 1..Len(rx[t]) : rx[t][k] = got[t] + k
  /\ rxOpen[t] /\ pc[t] # "unregistered" => got[t] + Len(rx[t]) = emitted[t]

ChannelsHoldTheRest == \A t \in Task : Rest(t)

\* The one that holds the lock of the pump found none, and its channel is the
\* one Kotlin sends events to when `events` succeeded.
PumpIsGuarded ==
  \A t \in Pumps :
    /\ pc[t] \in {"locked", "waiting", "expired"} => pumpLock = t /\ pump = None
    /\ pc[t] = "waiting" /\ slot[t] = "ok" => eventChannel = chan[t]

CallInv ==
  IdsAreUnique /\ NothingBeforeTheCall /\ SlotHoldsFirstAnswer /\ PendingIsUnanswered
  /\ EntriesAreExact

ChannelInv == ChannelsAreRegistered /\ ChannelsHoldTheRest

BridgeInv == TypeOK /\ CallInv /\ ChannelInv /\ PumpIsGuarded /\ PumpHearsEvents

-----------------------------------------------------------------------------
(* What a task or Kotlin does for one task. *)
TaskStep(t) ==
  \/ StartPump(t) \/ StartCall(t) \/ CallEvents(t) \/ InvokeFails(t)
  \/ TakeAnswer(t) \/ Expire(t) \/ RemoveExpired(t) \/ DropFuture(t)
  \/ Receive(t) \/ StopStreaming(t) \/ Unregister(t) \/ DropReceiver(t)
  \/ (\E a \in Answer : TestAnswered(t, a) \/ Complete(t, a)) \/ ChannelSend(t)

-----------------------------------------------------------------------------
\* Initialisation touches nothing of the tasks.
LEMMA TaskSteps == [Next]_vars => UNCHANGED <<rustVars, kotlinVars>> \/ \E t \in Task : TaskStep(t)
<1>1. ASSUME NEW s \in Starter, Start(s) PROVE UNCHANGED <<rustVars, kotlinVars>>
  BY <1>1 DEF Start, StartInit, LoadBridge, LoadFails, StoreBridge, StoreHandler
<1>2. ASSUME NEW t \in Task, Rust(t) \/ Kotlin(t) PROVE TaskStep(t)
  BY <1>2 DEF Rust, Kotlin, StartTask, Proceed, TaskStep
<1> QED
  BY <1>1, <1>2 DEF Next, vars

\* Registering gives a task, which has nothing yet, ids that nobody has.
GetsIds(t) ==
  /\ Untouched(t) /\ id[t] = 0 /\ pc[t] \in {"idle", "locked"}
  /\ nextId \in Nat /\ nextId > 0 /\ nextId' \in Nat /\ nextId' > nextId
  /\ id' \in [Task -> Nat] /\ chan' \in [Task -> Nat] /\ rxOpen' \in [Task -> BOOLEAN]
  /\ id'[t] >= nextId /\ id'[t] < nextId' /\ id'[t] \notin DOMAIN pending
  /\ chan'[t] \in {0, nextId}
  /\ \A u \in Task : u # t => id'[u] = id[u] /\ chan'[u] = chan[u] /\ rxOpen'[u] = rxOpen[u]

GetsChannel(t) ==
  /\ chan'[t] = nextId /\ rxOpen'[t] = TRUE /\ nextId \notin DOMAIN channels
  /\ channels' \in [DOMAIN channels' -> Task]
  /\ DOMAIN channels' = DOMAIN channels \cup {nextId} /\ channels'[nextId] = t
  /\ \A i \in DOMAIN channels : channels'[i] = channels[i]

GetsNoChannel(t) == chan'[t] = 0 /\ rxOpen'[t] = FALSE /\ channels' = channels

LEMMA NewIds ==
  ASSUME TypeOK, CallInv, NEW t \in Task, Register(t)
  PROVE  GetsIds(t) /\ IF t \in Streams THEN GetsChannel(t) ELSE GetsNoChannel(t)
<1>1. Untouched(t) /\ id[t] = 0 /\ pc[t] \in {"idle", "locked"} /\ chan[t] = 0 /\ ~rxOpen[t]
  BY DEF Register, CallInv, NothingBeforeTheCall, Untouched
<1>2. nextId \in Nat /\ nextId > 0 /\ nextId' = nextId + IF t \in Streams THEN 2 ELSE 1
  BY DEF Register, TypeOK
<1>3. id' = [id EXCEPT ![t] = nextId' - 1] /\ id \in [Task -> Nat]
  BY DEF Register, TypeOK
<1>4. nextId' \in Nat /\ nextId' > nextId /\ nextId' - 1 \in Nat /\ nextId' - 1 >= nextId
  BY <1>2
<1>5. \A i \in DOMAIN pending : i < nextId
  BY DEF TypeOK, CallInv, IdsAreUnique, EntriesAreExact, PendingIsNeeded
<1>6. \A i \in DOMAIN channels : i < nextId
  BY DEF TypeOK, CallInv, IdsAreUnique, EntriesAreExact, RegisteredHasReceiver
<1>7. id'[t] = nextId' - 1 /\ id'[t] \notin DOMAIN pending
  BY <1>2, <1>3, <1>4, <1>5
<1>8. id' \in [Task -> Nat] /\ \A u \in Task : u # t => id'[u] = id[u]
  BY <1>3, <1>4
<1>9. CASE t \in Streams
  <2>1. /\ chan' = [chan EXCEPT ![t] = nextId] /\ rxOpen' = [rxOpen EXCEPT ![t] = TRUE]
        /\ channels' = Insert(channels, nextId, t)
        /\ chan \in [Task -> Nat] /\ rxOpen \in [Task -> BOOLEAN] /\ channels \in [DOMAIN channels -> Task]
    BY <1>9 DEF Register, TypeOK
  <2>2. nextId \notin DOMAIN channels
    BY <1>2, <1>6
  <2>3. /\ channels' \in [DOMAIN channels' -> Task] /\ DOMAIN channels' = DOMAIN channels \cup {nextId}
        /\ channels'[nextId] = t /\ \A i \in DOMAIN channels : i # nextId => channels'[i] = channels[i]
    BY <2>1 DEF Insert
  <2>4. chan'[t] = nextId /\ rxOpen'[t] = TRUE
    BY <2>1
  <2>5. GetsChannel(t)
    BY <2>2, <2>3, <2>4 DEF GetsChannel
  <2>6. chan' \in [Task -> Nat] /\ rxOpen' \in [Task -> BOOLEAN]
    BY <1>2, <2>1
  <2>7. \A u \in Task : u # t => chan'[u] = chan[u] /\ rxOpen'[u] = rxOpen[u]
    BY <2>1
  <2>8. GetsIds(t)
    BY <1>1, <1>2, <1>4, <1>7, <1>8, <2>4, <2>6, <2>7 DEF GetsIds
  <2> QED
    BY <1>9, <2>5, <2>8
<1>10. CASE t \notin Streams
  <2>1. /\ chan' = chan /\ rxOpen' = rxOpen /\ channels' = channels
        /\ chan \in [Task -> Nat] /\ rxOpen \in [Task -> BOOLEAN]
    BY <1>10 DEF Register, TypeOK
  <2>2. GetsNoChannel(t)
    BY <1>1, <2>1 DEF GetsNoChannel
  <2>3. chan' \in [Task -> Nat] /\ rxOpen' \in [Task -> BOOLEAN] /\ chan'[t] = 0
    BY <1>1, <2>1
  <2>4. GetsIds(t)
    BY <1>1, <1>2, <1>4, <1>7, <1>8, <2>1, <2>3 DEF GetsIds
  <2> QED
    BY <1>10, <2>2, <2>4
<1> QED
  BY <1>9, <1>10

\* The map of channels stays one of tasks.
LEMMA NewChannels ==
  ASSUME TypeOK, CallInv, NEW t \in Task, Register(t)
  PROVE  channels' \in [DOMAIN channels' -> Task]
<1>1. CASE t \in Streams
  BY <1>1, NewIds DEF GetsChannel
<1>2. CASE t \notin Streams
  <2>1. channels' = channels /\ channels \in [DOMAIN channels -> Task]
    BY <1>2, NewIds DEF GetsNoChannel, TypeOK
  <2> QED
    BY <2>1
<1> QED
  BY <1>1, <1>2

\* A call that starts adds its own entry.
GetsEntry(t) ==
  /\ pending' \in [DOMAIN pending' -> Task]
  /\ DOMAIN pending' = DOMAIN pending \cup {id'[t]} /\ pending'[id'[t]] = t
  /\ \A i \in DOMAIN pending : pending'[i] = pending[i]

LEMMA NewEntry ==
  ASSUME TypeOK, CallInv, NEW t \in Task, StartCall(t)
  PROVE  GetsEntry(t)
<1>1. id'[t] \notin DOMAIN pending
  BY NewIds DEF StartCall, GetsIds
<1>2. pending' = Insert(pending, id'[t], t) /\ pending \in [DOMAIN pending -> Task]
  BY DEF StartCall, TypeOK
<1>3. /\ pending' \in [DOMAIN pending' -> Task] /\ DOMAIN pending' = DOMAIN pending \cup {id'[t]}
      /\ pending'[id'[t]] = t /\ \A i \in DOMAIN pending : i # id'[t] => pending'[i] = pending[i]
  BY <1>2 DEF Insert
<1> QED
  BY <1>1, <1>3 DEF GetsEntry

\* Ids stay unique, and registered channels have their receivers.
LEMMA RegisterIds ==
  ASSUME TypeOK, CallInv, NEW t \in Task, Register(t)
  PROVE  IdsAreUnique' /\ RegisteredHasReceiver'
<1>1. GetsIds(t)
  BY NewIds
<1>2. \A u \in Task : id'[u] < nextId' /\ chan'[u] < nextId'
  <2> SUFFICES ASSUME NEW u \in Task PROVE id'[u] < nextId' /\ chan'[u] < nextId'
    OBVIOUS
  <2>1. CASE u = t
    BY <1>1, <2>1 DEF GetsIds
  <2>2. CASE u # t
    <3>1. id[u] \in Nat /\ chan[u] \in Nat /\ id[u] < nextId /\ chan[u] < nextId
      BY DEF TypeOK, CallInv, IdsAreUnique
    <3> QED
      BY <1>1, <2>2, <3>1 DEF GetsIds
  <2> QED
    BY <2>1, <2>2
<1>3. ASSUME NEW u \in Task, NEW v \in Task,
             (id'[u] # 0 /\ id'[u] = id'[v]) \/ (chan'[u] # 0 /\ chan'[u] = chan'[v])
      PROVE  u = v
  <2>1. \A w \in Task : id[w] \in Nat /\ chan[w] \in Nat /\ id[w] < nextId /\ chan[w] < nextId
    BY DEF TypeOK, CallInv, IdsAreUnique
  <2>2. CASE u # t /\ v # t
    BY <1>1, <1>3, <2>2 DEF GetsIds, CallInv, IdsAreUnique
  <2>3. CASE u = t /\ v # t
    BY <1>1, <1>3, <2>1, <2>3 DEF GetsIds
  <2>4. CASE u # t /\ v = t
    BY <1>1, <1>3, <2>1, <2>4 DEF GetsIds
  <2> QED
    BY <2>2, <2>3, <2>4
<1>4. RegisteredHasReceiver'
  <2> SUFFICES ASSUME NEW i \in DOMAIN channels' PROVE rxOpen'[channels'[i]] /\ chan'[channels'[i]] = i
    BY DEF RegisteredHasReceiver
  <2>1. ASSUME i \in DOMAIN channels, channels'[i] = channels[i] PROVE rxOpen'[channels'[i]] /\ chan'[channels'[i]] = i
    <3>1. channels[i] \in Task /\ rxOpen[channels[i]] /\ chan[channels[i]] = i
      BY <2>1 DEF TypeOK, CallInv, EntriesAreExact, RegisteredHasReceiver
    <3>2. ~rxOpen[t]
      BY <1>1 DEF GetsIds, Untouched
    <3>3. channels[i] # t
      BY <3>1, <3>2
    <3> QED
      BY <1>1, <2>1, <3>1, <3>3 DEF GetsIds
  <2>2. CASE t \in Streams
    <3>1. GetsChannel(t)
      BY <2>2, NewIds
    <3>2. CASE i = nextId
      BY <3>1, <3>2 DEF GetsChannel
    <3>3. CASE i # nextId
      BY <2>1, <3>1, <3>3 DEF GetsChannel
    <3> QED
      BY <3>2, <3>3
  <2>3. CASE t \notin Streams
    BY <2>1, <2>3, NewIds DEF GetsNoChannel
  <2> QED
    BY <2>2, <2>3
<1> QED
  BY <1>2, <1>3, <1>4 DEF IdsAreUnique

\* Nothing is registered for a task that has not called.
LEMMA NothingRegistered ==
  ASSUME TypeOK, CallInv, NEW t \in Task, id[t] = 0
  PROVE  /\ \A i \in DOMAIN pending : pending[i] \in Task /\ pending[i] # t
         /\ \A i \in DOMAIN channels : channels[i] \in Task /\ channels[i] # t
<1>1. Untouched(t)
  BY DEF CallInv, NothingBeforeTheCall
<1>2. \A i \in DOMAIN pending : pending[i] \in Task /\ pending[i] # t
  BY <1>1 DEF Untouched, TypeOK, CallInv, EntriesAreExact, PendingIsNeeded
<1>3. \A i \in DOMAIN channels : channels[i] \in Task /\ channels[i] # t
  BY <1>1 DEF Untouched, TypeOK, CallInv, EntriesAreExact, RegisteredHasReceiver
<1> QED
  BY <1>2, <1>3

\* Other channels stay where they are when a task registers.
LEMMA OtherChannels ==
  ASSUME TypeOK, CallInv, NEW t \in Task, Register(t)
  PROVE  \A i \in DOMAIN channels : i \in DOMAIN channels' /\ channels'[i] = channels[i]
<1>1. CASE t \in Streams
  BY <1>1, NewIds DEF GetsChannel
<1>2. CASE t \notin Streams
  BY <1>2, NewIds DEF GetsNoChannel
<1> QED
  BY <1>1, <1>2

\* A channel is registered for a task that waits, or that has to close it.
LEMMA RegisterChannels ==
  ASSUME TypeOK, CallInv, ChannelInv, NEW t \in Task, Register(t),
         pc'[t] \in {"waiting", "closing", "done"},
         pc'[t] = "closing" => t \in Streams, pc'[t] = "done" => t \notin Streams,
         \A u \in Task : u # t => pc'[u] = pc[u]
  PROVE  ChannelsAreRegistered'
<1>1. GetsIds(t)
  BY NewIds
<1>2. \A i \in DOMAIN channels : channels[i] \in Task /\ channels[i] # t
  BY <1>1, NothingRegistered DEF GetsIds
<1>3. ASSUME NEW i \in DOMAIN channels'
      PROVE  pc'[channels'[i]] \in {"waiting", "expired", "streaming", "closing"}
  <2>1. CASE i \in DOMAIN channels
    <3>1. channels'[i] = channels[i]
      BY <2>1, OtherChannels
    <3>2. pc'[channels[i]] = pc[channels[i]]
      BY <1>2, <2>1
    <3> QED
      BY <2>1, <3>1, <3>2 DEF ChannelInv, ChannelsAreRegistered
  <2>2. CASE i \notin DOMAIN channels
    <3>1. CASE t \in Streams
      <4>1. GetsChannel(t)
        BY <3>1, NewIds
      <4>2. channels'[i] = t
        BY <2>2, <4>1 DEF GetsChannel
      <4> QED
        BY <3>1, <4>2
    <3>2. CASE t \notin Streams
      BY <2>2, <3>2, NewIds DEF GetsNoChannel
    <3> QED
      BY <3>1, <3>2
  <2> QED
    BY <2>1, <2>2
<1>4. ASSUME NEW u \in Task
      PROVE  /\ pc'[u] \in {"streaming", "closing"} => rxOpen'[u]
             /\ pc'[u] \in {"idle", "locked", "done"} => ~rxOpen'[u]
             /\ rxOpen'[u] /\ pc'[u] \in {"waiting", "expired", "streaming", "closing"} =>
                  chan'[u] # 0 /\ chan'[u] \in DOMAIN channels' /\ channels'[chan'[u]] = u
  <2>1. CASE u # t
    <3>1. chan'[u] = chan[u] /\ rxOpen'[u] = rxOpen[u] /\ pc'[u] = pc[u]
      BY <1>1, <2>1 DEF GetsIds
    <3>2. chan[u] \in DOMAIN channels => chan[u] \in DOMAIN channels' /\ channels'[chan[u]] = channels[chan[u]]
      BY OtherChannels
    <3> QED
      BY <3>1, <3>2 DEF ChannelInv, ChannelsAreRegistered
  <2>2. CASE u = t /\ t \in Streams
    <3>1. GetsChannel(t) /\ nextId > 0
      BY <1>1, <2>2, NewIds DEF GetsIds
    <3>2. nextId \in DOMAIN channels'
      BY <3>1 DEF GetsChannel
    <3> QED
      BY <2>2, <3>1, <3>2 DEF GetsChannel
  <2>3. CASE u = t /\ t \notin Streams
    BY <2>3, NewIds DEF GetsNoChannel
  <2> QED
    BY <2>1, <2>2, <2>3
<1> QED
  BY <1>3, <1>4 DEF ChannelsAreRegistered

\* Every step keeps the types.
LEMMA TypeStep ==
  ASSUME TypeOK, CallInv, [Next]_vars
  PROVE  TypeOK'
<1> USE StreamsAssumption, EmitsAssumption
<1> USE DEF startVars, rustVars, kotlinVars, pumpVars
<1>0. ASSUME NEW s \in Starter, Start(s) PROVE TypeOK'
  BY <1>0 DEF TypeOK, Start, StartInit, LoadBridge, LoadFails, StoreBridge, StoreHandler
<1>1. ASSUME NEW t \in Task, StartPump(t) PROVE TypeOK'
  BY <1>1 DEF StartPump, Goto, TypeOK, Pc, Result, Answer
<1>2. ASSUME NEW t \in Task, StartCall(t) PROVE TypeOK'
  <2>1. Register(t)
    BY <1>2 DEF StartCall
  <2>2. GetsEntry(t)
    BY <1>2, NewEntry
  <2>3. nextId' \in Nat \ {0} /\ channels' \in [DOMAIN channels' -> Task]
    BY <2>1, NewIds, NewChannels DEF GetsIds
  <2>4. id' \in [Task -> Nat] /\ chan' \in [Task -> Nat] /\ rxOpen' \in [Task -> BOOLEAN]
    BY <2>1, NewIds DEF GetsIds
  <2>5. pending' \in [DOMAIN pending' -> Task]
    BY <2>2 DEF GetsEntry
  <2> QED
    BY <1>2, <2>3, <2>4, <2>5 DEF TypeOK, StartCall, Goto, Pc
<1>3. ASSUME NEW t \in Task, CallEvents(t) PROVE TypeOK'
  <2>1. Register(t)
    BY <1>3 DEF CallEvents
  <2>2. eventChannel' \in Nat /\ slot' \in [Task -> Answer \cup {"empty"}] /\ given' \in [Task -> Seq(Answer)]
    <3>1. PICK a \in Answer : /\ eventChannel' = IF a = "ok" THEN chan'[t] ELSE eventChannel
                             /\ slot' = [slot EXCEPT ![t] = a] /\ given' = [given EXCEPT ![t] = <<a>>]
      BY <1>3 DEF CallEvents
    <3>2. <<a>> \in Seq(Answer)
      OBVIOUS
    <3>3. chan'[t] \in Nat
      BY <2>1, NewIds DEF GetsIds
    <3>4. eventChannel \in Nat /\ slot \in [Task -> Answer \cup {"empty"}] /\ given \in [Task -> Seq(Answer)]
      BY DEF TypeOK
    <3> QED
      BY <3>1, <3>2, <3>3, <3>4
  <2>3. nextId' \in Nat \ {0} /\ channels' \in [DOMAIN channels' -> Task]
    BY <2>1, NewIds, NewChannels DEF GetsIds
  <2>4. id' \in [Task -> Nat] /\ chan' \in [Task -> Nat] /\ rxOpen' \in [Task -> BOOLEAN]
    BY <2>1, NewIds DEF GetsIds
  <2> QED
    BY <1>3, <2>2, <2>3, <2>4 DEF TypeOK, CallEvents, Goto, Pc
<1>4. ASSUME NEW t \in Task, InvokeFails(t) PROVE TypeOK'
  <2>1. Register(t)
    BY <1>4 DEF InvokeFails
  <2>2. nextId' \in Nat \ {0} /\ channels' \in [DOMAIN channels' -> Task]
    BY <2>1, NewIds, NewChannels DEF GetsIds
  <2>3. id' \in [Task -> Nat] /\ chan' \in [Task -> Nat] /\ rxOpen' \in [Task -> BOOLEAN]
    BY <2>1, NewIds DEF GetsIds
  <2> QED
    BY <1>4, <2>2, <2>3 DEF TypeOK, InvokeFails, Goto, Unlock, Pc, Result
<1>5. ASSUME NEW t \in Task, TakeAnswer(t) PROVE TypeOK'
  BY <1>5 DEF TakeAnswer, Goto, SpawnPump, Unlock, Failed, TypeOK, Pc, Result,
    Answer
<1>6. ASSUME NEW t \in Task, Expire(t) PROVE TypeOK'
  BY <1>6 DEF Expire, Goto, TypeOK, Pc, Result, Answer
<1>7. ASSUME NEW t \in Task, RemoveExpired(t) PROVE TypeOK'
  <2>1. pending' \in [DOMAIN pending' -> Task]
    BY <1>7 DEF TypeOK, RemoveExpired, Remove
  <2> QED
    BY <1>7, <2>1 DEF TypeOK, RemoveExpired, Goto, Failed, Unlock, Pc, Result
<1>8. ASSUME NEW t \in Task, DropFuture(t) PROVE TypeOK'
  BY <1>8 DEF DropFuture, Goto, Failed, Unlock, TypeOK, Pc, Result, Answer
<1>9. ASSUME NEW t \in Task, Receive(t) PROVE TypeOK'
  <2>1. rx[t] \in Seq(Nat) /\ rx[t] # <<>>
    BY <1>9 DEF TypeOK, Receive
  <2>2. Head(rx[t]) \in Nat /\ Tail(rx[t]) \in Seq(Nat)
    BY <2>1, HeadTailProperties
  <2> QED
    BY <1>9, <2>2 DEF TypeOK, Receive
<1>10. ASSUME NEW t \in Task, StopStreaming(t) PROVE TypeOK'
  BY <1>10 DEF StopStreaming, Goto, TypeOK, Pc, Result, Answer
<1>11. ASSUME NEW t \in Task, Unregister(t) PROVE TypeOK'
  <2>1. channels' \in [DOMAIN channels' -> Task]
    BY <1>11 DEF TypeOK, Unregister, Remove
  <2> QED
    BY <1>11, <2>1 DEF TypeOK, Unregister, Goto, Pc
<1>12. ASSUME NEW t \in Task, DropReceiver(t) PROVE TypeOK'
  <2>1. <<>> \in Seq(Nat)
    OBVIOUS
  <2> QED
    BY <1>12, <2>1 DEF TypeOK, DropReceiver, Goto, Pc
<1>13. ASSUME NEW t \in Task, NEW a \in Answer, TestAnswered(t, a) PROVE TypeOK'
  BY <1>13 DEF TestAnswered, Known, TypeOK, Pc, Result, Answer
<1>14. ASSUME NEW t \in Task, NEW a \in Answer, Complete(t, a) PROVE TypeOK'
  <2>1. given[t] \in Seq(Answer)
    BY DEF TypeOK
  <2>2. Append(given[t], a) \in Seq(Answer)
    BY <2>1, AppendProperties
  <2>3. pending' \in [DOMAIN pending' -> Task]
    BY <1>14 DEF TypeOK, Complete, Remove
  <2> QED
    BY <1>14, <2>2, <2>3 DEF TypeOK, Complete
<1>15. ASSUME NEW t \in Task, ChannelSend(t) PROVE TypeOK'
  <2>1. emitted[t] + 1 \in Nat
    BY DEF TypeOK
  <2>2. \A u \in Task : rx[u] \in Seq(Nat)
    BY DEF TypeOK
  <2>3. \A u \in Task : Append(rx[u], emitted[t] + 1) \in Seq(Nat)
    BY <2>1, <2>2, AppendProperties
  <2> QED
    BY <1>15, <2>1, <2>3 DEF TypeOK, ChannelSend
<1>16. CASE UNCHANGED vars
  BY <1>16 DEF vars, TypeOK
<1> QED
  BY <1>0, <1>1, <1>2, <1>3, <1>4, <1>5, <1>6, <1>7, <1>8, <1>9, <1>10, <1>11,
    <1>12, <1>13, <1>14, <1>15, <1>16 DEF Next, Rust, Kotlin, StartTask, Proceed

\* Every step keeps ids unique.
LEMMA IdsStep ==
  ASSUME TypeOK, CallInv, [Next]_vars
  PROVE  IdsAreUnique'
<1> USE StreamsAssumption, EmitsAssumption
<1>1. CASE UNCHANGED <<rustVars, kotlinVars>>
  BY <1>1 DEF rustVars, kotlinVars, pumpVars, TypeOK, CallInv, IdsAreUnique
<1>2. ASSUME NEW t \in Task, StartPump(t) PROVE IdsAreUnique'
  BY <1>2 DEF StartPump, Goto, startVars, rustVars, kotlinVars, pumpVars, TypeOK,
    CallInv, IdsAreUnique
<1>3. ASSUME NEW t \in Task, StartCall(t) PROVE IdsAreUnique'
  BY <1>3, RegisterIds DEF StartCall
<1>4. ASSUME NEW t \in Task, CallEvents(t) PROVE IdsAreUnique'
  BY <1>4, RegisterIds DEF CallEvents
<1>5. ASSUME NEW t \in Task, InvokeFails(t) PROVE IdsAreUnique'
  BY <1>5, RegisterIds DEF InvokeFails
<1>6. ASSUME NEW t \in Task, TakeAnswer(t) PROVE IdsAreUnique'
  BY <1>6 DEF TakeAnswer, Goto, SpawnPump, Unlock, Failed, startVars, rustVars,
    kotlinVars, pumpVars, TypeOK, CallInv, IdsAreUnique
<1>7. ASSUME NEW t \in Task, Expire(t) PROVE IdsAreUnique'
  BY <1>7 DEF Expire, Goto, startVars, rustVars, kotlinVars, pumpVars, TypeOK,
    CallInv, IdsAreUnique
<1>8. ASSUME NEW t \in Task, RemoveExpired(t) PROVE IdsAreUnique'
  BY <1>8 DEF RemoveExpired, Goto, Remove, Failed, Unlock, startVars, rustVars,
    kotlinVars, pumpVars, TypeOK, CallInv, IdsAreUnique
<1>9. ASSUME NEW t \in Task, DropFuture(t) PROVE IdsAreUnique'
  BY <1>9 DEF DropFuture, Goto, Failed, Unlock, startVars, rustVars, kotlinVars,
    pumpVars, TypeOK, CallInv, IdsAreUnique
<1>10. ASSUME NEW t \in Task, Receive(t) PROVE IdsAreUnique'
  BY <1>10 DEF Receive, startVars, rustVars, kotlinVars, pumpVars, TypeOK, CallInv,
    IdsAreUnique
<1>11. ASSUME NEW t \in Task, StopStreaming(t) PROVE IdsAreUnique'
  BY <1>11 DEF StopStreaming, Goto, startVars, rustVars, kotlinVars, pumpVars,
    TypeOK, CallInv, IdsAreUnique
<1>12. ASSUME NEW t \in Task, Unregister(t) PROVE IdsAreUnique'
  BY <1>12 DEF Unregister, Goto, Remove, startVars, rustVars, kotlinVars, pumpVars,
    TypeOK, CallInv, IdsAreUnique
<1>13. ASSUME NEW t \in Task, DropReceiver(t) PROVE IdsAreUnique'
  BY <1>13 DEF DropReceiver, Goto, startVars, rustVars, kotlinVars, pumpVars,
    TypeOK, CallInv, IdsAreUnique
<1>14. ASSUME NEW t \in Task, NEW a \in Answer, TestAnswered(t, a) PROVE IdsAreUnique'
  BY <1>14 DEF TestAnswered, Known, startVars, rustVars, kotlinVars, pumpVars,
    TypeOK, CallInv, IdsAreUnique
<1>15. ASSUME NEW t \in Task, NEW a \in Answer, Complete(t, a) PROVE IdsAreUnique'
  BY <1>15 DEF Complete, Remove, startVars, rustVars, kotlinVars, pumpVars, TypeOK,
    CallInv, IdsAreUnique
<1>16. ASSUME NEW t \in Task, ChannelSend(t) PROVE IdsAreUnique'
  BY <1>16 DEF ChannelSend, Known, startVars, rustVars, kotlinVars, pumpVars,
    TypeOK, CallInv, IdsAreUnique
<1> QED
  BY <1>1, <1>2, <1>3, <1>4, <1>5, <1>6, <1>7, <1>8, <1>9, <1>10, <1>11, <1>12,
    <1>13, <1>14, <1>15, <1>16, TaskSteps DEF TaskStep

\* Every step keeps what there is before a call.
LEMMA NothingStep ==
  ASSUME TypeOK, CallInv, ChannelInv, [Next]_vars
  PROVE  NothingBeforeTheCall'
<1> SUFFICES ASSUME NEW u \in Task PROVE Untouched(u)'
  BY DEF NothingBeforeTheCall
<1> USE StreamsAssumption, EmitsAssumption
<1>1. CASE UNCHANGED <<rustVars, kotlinVars>>
  BY <1>1 DEF rustVars, kotlinVars, pumpVars, TypeOK, CallInv, NothingBeforeTheCall,
    Untouched
<1>2. ASSUME NEW t \in Task, StartPump(t) PROVE Untouched(u)'
  BY <1>2 DEF StartPump, Goto, startVars, rustVars, kotlinVars, pumpVars, TypeOK,
    CallInv, NothingBeforeTheCall, Untouched
<1>3. ASSUME NEW t \in Task, StartCall(t) PROVE Untouched(u)'
  <2>1. GetsIds(t) /\ IF t \in Streams THEN GetsChannel(t) ELSE GetsNoChannel(t)
    BY <1>3, NewIds DEF StartCall
  <2>2. CASE u = t
    BY <1>3, <2>1, <2>2 DEF StartCall, Goto, startVars, rustVars, kotlinVars, pumpVars, TypeOK, GetsIds, GetsChannel, GetsNoChannel, Untouched
  <2>3. CASE u # t
    <3>1. Untouched(u)
      BY DEF CallInv, ChannelInv, NothingBeforeTheCall
    <3> QED
      BY <1>3, <2>1, <2>3, <3>1 DEF StartCall, Goto, startVars, rustVars, kotlinVars, pumpVars, TypeOK, GetsIds, Untouched
  <2> QED
    BY <2>2, <2>3
<1>4. ASSUME NEW t \in Task, CallEvents(t) PROVE Untouched(u)'
  <2>1. GetsIds(t) /\ IF t \in Streams THEN GetsChannel(t) ELSE GetsNoChannel(t)
    BY <1>4, NewIds DEF CallEvents
  <2>2. CASE u = t
    BY <1>4, <2>1, <2>2 DEF CallEvents, Goto, startVars, rustVars, kotlinVars, pumpVars, TypeOK, GetsIds, GetsChannel, GetsNoChannel, Untouched
  <2>3. CASE u # t
    <3>1. Untouched(u)
      BY DEF CallInv, ChannelInv, NothingBeforeTheCall
    <3> QED
      BY <1>4, <2>1, <2>3, <3>1 DEF CallEvents, Goto, startVars, rustVars, kotlinVars, pumpVars, TypeOK, GetsIds, Untouched
  <2> QED
    BY <2>2, <2>3
<1>5. ASSUME NEW t \in Task, InvokeFails(t) PROVE Untouched(u)'
  <2>1. GetsIds(t) /\ IF t \in Streams THEN GetsChannel(t) ELSE GetsNoChannel(t)
    BY <1>5, NewIds DEF InvokeFails
  <2>2. CASE u = t
    BY <1>5, <2>1, <2>2 DEF InvokeFails, Goto, Unlock, startVars, rustVars, kotlinVars, pumpVars, TypeOK, GetsIds, GetsChannel, GetsNoChannel, Untouched
  <2>3. CASE u # t
    <3>1. Untouched(u)
      BY DEF CallInv, ChannelInv, NothingBeforeTheCall
    <3> QED
      BY <1>5, <2>1, <2>3, <3>1 DEF InvokeFails, Goto, Unlock, startVars, rustVars, kotlinVars, pumpVars, TypeOK, GetsIds, Untouched
  <2> QED
    BY <2>2, <2>3
<1>6. ASSUME NEW t \in Task, TakeAnswer(t) PROVE Untouched(u)'
  BY <1>6 DEF TakeAnswer, Goto, SpawnPump, Unlock, Failed, startVars, rustVars,
    kotlinVars, pumpVars, TypeOK, CallInv, NothingBeforeTheCall, Untouched
<1>7. ASSUME NEW t \in Task, Expire(t) PROVE Untouched(u)'
  BY <1>7 DEF Expire, Goto, startVars, rustVars, kotlinVars, pumpVars, TypeOK,
    CallInv, NothingBeforeTheCall, Untouched
<1>8. ASSUME NEW t \in Task, RemoveExpired(t) PROVE Untouched(u)'
  BY <1>8 DEF RemoveExpired, Goto, Remove, Failed, Unlock, startVars, rustVars,
    kotlinVars, pumpVars, TypeOK, CallInv, NothingBeforeTheCall, Untouched
<1>9. ASSUME NEW t \in Task, DropFuture(t) PROVE Untouched(u)'
  BY <1>9 DEF DropFuture, Goto, Failed, Unlock, startVars, rustVars, kotlinVars,
    pumpVars, TypeOK, CallInv, NothingBeforeTheCall, Untouched
<1>10. ASSUME NEW t \in Task, Receive(t) PROVE Untouched(u)'
  BY <1>10 DEF Receive, startVars, rustVars, kotlinVars, pumpVars, TypeOK, CallInv,
    NothingBeforeTheCall, Untouched
<1>11. ASSUME NEW t \in Task, StopStreaming(t) PROVE Untouched(u)'
  BY <1>11 DEF StopStreaming, Goto, startVars, rustVars, kotlinVars, pumpVars,
    TypeOK, CallInv, NothingBeforeTheCall, Untouched
<1>12. ASSUME NEW t \in Task, Unregister(t) PROVE Untouched(u)'
  BY <1>12 DEF Unregister, Goto, Remove, startVars, rustVars, kotlinVars, pumpVars,
    TypeOK, CallInv, NothingBeforeTheCall, Untouched
<1>13. ASSUME NEW t \in Task, DropReceiver(t) PROVE Untouched(u)'
  BY <1>13 DEF DropReceiver, Goto, startVars, rustVars, kotlinVars, pumpVars,
    TypeOK, CallInv, NothingBeforeTheCall, Untouched
<1>14. ASSUME NEW t \in Task, NEW a \in Answer, TestAnswered(t, a) PROVE Untouched(u)'
  BY <1>14 DEF TestAnswered, Known, startVars, rustVars, kotlinVars, pumpVars,
    TypeOK, CallInv, NothingBeforeTheCall, Untouched
<1>15. ASSUME NEW t \in Task, NEW a \in Answer, Complete(t, a) PROVE Untouched(u)'
  <2>1. id[t] # 0 /\ Untouched(u)
    BY <1>15 DEF Complete, CallInv, SlotHoldsFirstAnswer, FirstAnswer, NothingBeforeTheCall
  <2>2. id[u] = 0 => u # t /\ slot'[u] = slot[u]
    BY <1>15, <2>1 DEF Complete, TypeOK, CallInv, EntriesAreExact, PendingIsNeeded
  <2> QED
    BY <1>15, <2>1, <2>2 DEF Complete, startVars, pumpVars, TypeOK, Untouched
<1>16. ASSUME NEW t \in Task, ChannelSend(t) PROVE Untouched(u)'
  <2>1. id[t] # 0 /\ chan[t] # 0 /\ Untouched(u)
    BY <1>16 DEF ChannelSend, Known, CallInv, NothingBeforeTheCall
  <2>2. id[u] = 0 => u # t /\ chan[u] = 0
    BY <2>1 DEF Untouched
  <2>3. id[u] = 0 => rx'[u] = rx[u] /\ emitted'[u] = emitted[u]
    BY <1>16, <2>1, <2>2 DEF ChannelSend, TypeOK, CallInv, EntriesAreExact, RegisteredHasReceiver
  <2> QED
    BY <1>16, <2>1, <2>2, <2>3 DEF ChannelSend, startVars, pumpVars, Untouched
<1> QED
  BY <1>1, <1>2, <1>3, <1>4, <1>5, <1>6, <1>7, <1>8, <1>9, <1>10, <1>11, <1>12,
    <1>13, <1>14, <1>15, <1>16, TaskSteps DEF TaskStep

\* Every step keeps the first answer.
LEMMA SlotStep ==
  ASSUME TypeOK, CallInv, [Next]_vars
  PROVE  SlotHoldsFirstAnswer'
<1> SUFFICES ASSUME NEW u \in Task PROVE FirstAnswer(u)'
  BY DEF SlotHoldsFirstAnswer
<1> USE StreamsAssumption, EmitsAssumption
<1>1. CASE UNCHANGED <<rustVars, kotlinVars>>
  BY <1>1 DEF rustVars, kotlinVars, pumpVars, TypeOK, CallInv, SlotHoldsFirstAnswer,
    FirstAnswer
<1>2. ASSUME NEW t \in Task, StartPump(t) PROVE FirstAnswer(u)'
  BY <1>2 DEF StartPump, Goto, startVars, rustVars, kotlinVars, pumpVars, TypeOK,
    CallInv, SlotHoldsFirstAnswer, FirstAnswer
<1>3. ASSUME NEW t \in Task, StartCall(t) PROVE FirstAnswer(u)'
  <2>1. GetsIds(t) /\ IF t \in Streams THEN GetsChannel(t) ELSE GetsNoChannel(t)
    BY <1>3, NewIds DEF StartCall
  <2>2. CASE u = t
    BY <1>3, <2>1, <2>2 DEF StartCall, Goto, startVars, rustVars, kotlinVars, pumpVars, TypeOK, GetsIds, GetsChannel, GetsNoChannel, FirstAnswer, Untouched
  <2>3. CASE u # t
    <3>1. FirstAnswer(u)
      BY DEF CallInv, ChannelInv, SlotHoldsFirstAnswer
    <3> QED
      BY <1>3, <2>1, <2>3, <3>1 DEF StartCall, Goto, startVars, rustVars, kotlinVars, pumpVars, TypeOK, GetsIds, FirstAnswer
  <2> QED
    BY <2>2, <2>3
<1>4. ASSUME NEW t \in Task, CallEvents(t) PROVE FirstAnswer(u)'
  <2>1. GetsIds(t) /\ IF t \in Streams THEN GetsChannel(t) ELSE GetsNoChannel(t)
    BY <1>4, NewIds DEF CallEvents
  <2>2. CASE u = t
    BY <1>4, <2>1, <2>2 DEF CallEvents, Goto, startVars, rustVars, kotlinVars, pumpVars, TypeOK, GetsIds, GetsChannel, GetsNoChannel, FirstAnswer, Untouched, Answer
  <2>3. CASE u # t
    <3>1. FirstAnswer(u)
      BY DEF CallInv, ChannelInv, SlotHoldsFirstAnswer
    <3> QED
      BY <1>4, <2>1, <2>3, <3>1 DEF CallEvents, Goto, startVars, rustVars, kotlinVars, pumpVars, TypeOK, GetsIds, FirstAnswer
  <2> QED
    BY <2>2, <2>3
<1>5. ASSUME NEW t \in Task, InvokeFails(t) PROVE FirstAnswer(u)'
  <2>1. GetsIds(t) /\ IF t \in Streams THEN GetsChannel(t) ELSE GetsNoChannel(t)
    BY <1>5, NewIds DEF InvokeFails
  <2>2. CASE u = t
    BY <1>5, <2>1, <2>2 DEF InvokeFails, Goto, Unlock, startVars, rustVars, kotlinVars, pumpVars, TypeOK, GetsIds, GetsChannel, GetsNoChannel, FirstAnswer, Untouched
  <2>3. CASE u # t
    <3>1. FirstAnswer(u)
      BY DEF CallInv, ChannelInv, SlotHoldsFirstAnswer
    <3> QED
      BY <1>5, <2>1, <2>3, <3>1 DEF InvokeFails, Goto, Unlock, startVars, rustVars, kotlinVars, pumpVars, TypeOK, GetsIds, FirstAnswer
  <2> QED
    BY <2>2, <2>3
<1>6. ASSUME NEW t \in Task, TakeAnswer(t) PROVE FirstAnswer(u)'
  BY <1>6 DEF TakeAnswer, Goto, SpawnPump, Unlock, Failed, startVars, rustVars,
    kotlinVars, pumpVars, TypeOK, CallInv, SlotHoldsFirstAnswer, FirstAnswer, Answer
<1>7. ASSUME NEW t \in Task, Expire(t) PROVE FirstAnswer(u)'
  BY <1>7 DEF Expire, Goto, startVars, rustVars, kotlinVars, pumpVars, TypeOK,
    CallInv, SlotHoldsFirstAnswer, FirstAnswer
<1>8. ASSUME NEW t \in Task, RemoveExpired(t) PROVE FirstAnswer(u)'
  BY <1>8 DEF RemoveExpired, Goto, Remove, Failed, Unlock, startVars, rustVars,
    kotlinVars, pumpVars, TypeOK, CallInv, SlotHoldsFirstAnswer, FirstAnswer
<1>9. ASSUME NEW t \in Task, DropFuture(t) PROVE FirstAnswer(u)'
  BY <1>9 DEF DropFuture, Goto, Failed, Unlock, startVars, rustVars, kotlinVars,
    pumpVars, TypeOK, CallInv, SlotHoldsFirstAnswer, FirstAnswer
<1>10. ASSUME NEW t \in Task, Receive(t) PROVE FirstAnswer(u)'
  BY <1>10 DEF Receive, startVars, rustVars, kotlinVars, pumpVars, TypeOK, CallInv,
    SlotHoldsFirstAnswer, FirstAnswer
<1>11. ASSUME NEW t \in Task, StopStreaming(t) PROVE FirstAnswer(u)'
  BY <1>11 DEF StopStreaming, Goto, startVars, rustVars, kotlinVars, pumpVars,
    TypeOK, CallInv, SlotHoldsFirstAnswer, FirstAnswer
<1>12. ASSUME NEW t \in Task, Unregister(t) PROVE FirstAnswer(u)'
  BY <1>12 DEF Unregister, Goto, Remove, startVars, rustVars, kotlinVars, pumpVars,
    TypeOK, CallInv, SlotHoldsFirstAnswer, FirstAnswer
<1>13. ASSUME NEW t \in Task, DropReceiver(t) PROVE FirstAnswer(u)'
  BY <1>13 DEF DropReceiver, Goto, startVars, rustVars, kotlinVars, pumpVars,
    TypeOK, CallInv, SlotHoldsFirstAnswer, FirstAnswer
<1>14. ASSUME NEW t \in Task, NEW a \in Answer, TestAnswered(t, a) PROVE FirstAnswer(u)'
  BY <1>14 DEF TestAnswered, Known, startVars, rustVars, kotlinVars, pumpVars,
    TypeOK, CallInv, SlotHoldsFirstAnswer, FirstAnswer, NothingBeforeTheCall,
    Untouched
<1>15. ASSUME NEW t \in Task, NEW a \in Answer, Complete(t, a) PROVE FirstAnswer(u)'
  <2>1. FirstAnswer(u) /\ FirstAnswer(t) /\ id[t] # 0 /\ id[t] \in Nat
    BY <1>15 DEF Complete, TypeOK, CallInv, SlotHoldsFirstAnswer, FirstAnswer
  <2>2. CASE u # t
    <3>1. slot'[u] = slot[u]
      BY <1>15, <2>1, <2>2 DEF Complete, TypeOK, CallInv, IdsAreUnique, EntriesAreExact, PendingIsNeeded
    <3>2. given'[u] = given[u] /\ answering'[u] = answering[u] /\ result' = result /\ pc' = pc /\ id' = id
      BY <1>15, <2>2 DEF Complete, TypeOK
    <3> QED
      BY <2>1, <3>1, <3>2 DEF FirstAnswer
  <2>3. CASE u = t
    <3>1. /\ given[t] \in Seq(Answer) /\ given'[t] = Append(given[t], a) /\ answering'[t] \subseteq answering[t]
          /\ result' = result /\ pc' = pc /\ id' = id /\ answering[t] # {}
      BY <1>15 DEF Complete, TypeOK
    <3>2. given'[t] # <<>> /\ (given[t] # <<>> => Head(given'[t]) = Head(given[t])) /\ (given[t] = <<>> => Head(given'[t]) = a)
      BY <3>1
    <3>3. slot'[t] = slot[t] \/ (slot'[t] = a /\ given[t] = <<>>)
      BY <1>15 DEF Complete, TypeOK, CallInv, EntriesAreExact, PendingIsNeeded
    <3> QED
      BY <2>1, <2>3, <3>1, <3>2, <3>3 DEF FirstAnswer
  <2> QED
    BY <2>2, <2>3
<1>16. ASSUME NEW t \in Task, ChannelSend(t) PROVE FirstAnswer(u)'
  BY <1>16 DEF ChannelSend, Known, startVars, rustVars, kotlinVars, pumpVars,
    TypeOK, CallInv, SlotHoldsFirstAnswer, FirstAnswer
<1> QED
  BY <1>1, <1>2, <1>3, <1>4, <1>5, <1>6, <1>7, <1>8, <1>9, <1>10, <1>11, <1>12,
    <1>13, <1>14, <1>15, <1>16, TaskSteps DEF TaskStep

\* Every step keeps the senders unused.
LEMMA PendingStep ==
  ASSUME TypeOK, CallInv, [Next]_vars
  PROVE  PendingIsUnanswered'
<1> USE StreamsAssumption, EmitsAssumption
<1>1. CASE UNCHANGED <<rustVars, kotlinVars>>
  BY <1>1 DEF rustVars, kotlinVars, pumpVars, TypeOK, CallInv, EntriesAreExact,
    PendingIsUnanswered, PendingIsNeeded
<1>2. ASSUME NEW t \in Task, StartPump(t) PROVE PendingIsUnanswered'
  BY <1>2 DEF StartPump, Goto, startVars, rustVars, kotlinVars, pumpVars, TypeOK,
    CallInv, EntriesAreExact, PendingIsUnanswered, PendingIsNeeded
<1>3. ASSUME NEW t \in Task, StartCall(t) PROVE PendingIsUnanswered'
  <2>1. GetsIds(t) /\ IF t \in Streams THEN GetsChannel(t) ELSE GetsNoChannel(t)
    BY <1>3, NewIds DEF StartCall
  <2>2. GetsEntry(t)
    BY <1>3, NewEntry
  <2> QED
    BY <1>3, <2>1, <2>2 DEF StartCall, Goto, startVars, rustVars, kotlinVars,
      pumpVars, GetsIds, GetsChannel, GetsNoChannel, GetsEntry, TypeOK, CallInv,
      EntriesAreExact, PendingIsUnanswered, PendingIsNeeded, Untouched
<1>4. ASSUME NEW t \in Task, CallEvents(t) PROVE PendingIsUnanswered'
  <2>1. id[t] = 0
    BY <1>4, NewIds DEF CallEvents, GetsIds
  <2>2. \A i \in DOMAIN pending : pending[i] \in Task /\ pending[i] # t
    BY <2>1, NothingRegistered
  <2>3. pending' = pending /\ \A u \in Task : u # t => slot'[u] = slot[u]
    BY <1>4 DEF CallEvents, TypeOK
  <2> QED
    BY <2>2, <2>3 DEF CallInv, PendingIsUnanswered
<1>5. ASSUME NEW t \in Task, InvokeFails(t) PROVE PendingIsUnanswered'
  <2>1. GetsIds(t) /\ IF t \in Streams THEN GetsChannel(t) ELSE GetsNoChannel(t)
    BY <1>5, NewIds DEF InvokeFails
  <2> QED
    BY <1>5, <2>1 DEF InvokeFails, Goto, Unlock, startVars, rustVars, kotlinVars,
      pumpVars, GetsIds, GetsChannel, GetsNoChannel, TypeOK, CallInv,
      EntriesAreExact, PendingIsUnanswered, PendingIsNeeded, Untouched
<1>6. ASSUME NEW t \in Task, TakeAnswer(t) PROVE PendingIsUnanswered'
  BY <1>6 DEF TakeAnswer, Goto, SpawnPump, Unlock, Failed, startVars, rustVars,
    kotlinVars, pumpVars, TypeOK, CallInv, EntriesAreExact, PendingIsUnanswered,
    PendingIsNeeded
<1>7. ASSUME NEW t \in Task, Expire(t) PROVE PendingIsUnanswered'
  BY <1>7 DEF Expire, Goto, startVars, rustVars, kotlinVars, pumpVars, TypeOK,
    CallInv, EntriesAreExact, PendingIsUnanswered, PendingIsNeeded
<1>8. ASSUME NEW t \in Task, RemoveExpired(t) PROVE PendingIsUnanswered'
  BY <1>8 DEF RemoveExpired, Goto, Remove, Failed, Unlock, startVars, rustVars,
    kotlinVars, pumpVars, TypeOK, CallInv, EntriesAreExact, PendingIsUnanswered,
    PendingIsNeeded
<1>9. ASSUME NEW t \in Task, DropFuture(t) PROVE PendingIsUnanswered'
  BY <1>9 DEF DropFuture, Goto, Failed, Unlock, startVars, rustVars, kotlinVars,
    pumpVars, TypeOK, CallInv, EntriesAreExact, PendingIsUnanswered, PendingIsNeeded
<1>10. ASSUME NEW t \in Task, Receive(t) PROVE PendingIsUnanswered'
  BY <1>10 DEF Receive, startVars, rustVars, kotlinVars, pumpVars, TypeOK, CallInv,
    EntriesAreExact, PendingIsUnanswered, PendingIsNeeded
<1>11. ASSUME NEW t \in Task, StopStreaming(t) PROVE PendingIsUnanswered'
  BY <1>11 DEF StopStreaming, Goto, startVars, rustVars, kotlinVars, pumpVars,
    TypeOK, CallInv, EntriesAreExact, PendingIsUnanswered, PendingIsNeeded
<1>12. ASSUME NEW t \in Task, Unregister(t) PROVE PendingIsUnanswered'
  BY <1>12 DEF Unregister, Goto, Remove, startVars, rustVars, kotlinVars, pumpVars,
    TypeOK, CallInv, EntriesAreExact, PendingIsUnanswered, PendingIsNeeded
<1>13. ASSUME NEW t \in Task, DropReceiver(t) PROVE PendingIsUnanswered'
  BY <1>13 DEF DropReceiver, Goto, startVars, rustVars, kotlinVars, pumpVars,
    TypeOK, CallInv, EntriesAreExact, PendingIsUnanswered, PendingIsNeeded
<1>14. ASSUME NEW t \in Task, NEW a \in Answer, TestAnswered(t, a) PROVE PendingIsUnanswered'
  BY <1>14 DEF TestAnswered, Known, startVars, rustVars, kotlinVars, pumpVars,
    TypeOK, CallInv, EntriesAreExact, PendingIsUnanswered, PendingIsNeeded
<1>15. ASSUME NEW t \in Task, NEW a \in Answer, Complete(t, a) PROVE PendingIsUnanswered'
  BY <1>15 DEF Complete, Remove, startVars, rustVars, kotlinVars, pumpVars, TypeOK,
    CallInv, EntriesAreExact, PendingIsUnanswered, PendingIsNeeded
<1>16. ASSUME NEW t \in Task, ChannelSend(t) PROVE PendingIsUnanswered'
  BY <1>16 DEF ChannelSend, Known, startVars, rustVars, kotlinVars, pumpVars,
    TypeOK, CallInv, EntriesAreExact, PendingIsUnanswered, PendingIsNeeded
<1> QED
  BY <1>1, <1>2, <1>3, <1>4, <1>5, <1>6, <1>7, <1>8, <1>9, <1>10, <1>11, <1>12,
    <1>13, <1>14, <1>15, <1>16, TaskSteps DEF TaskStep

\* Every step keeps waiting calls in reach.
LEMMA WaitingStep ==
  ASSUME TypeOK, CallInv, [Next]_vars
  PROVE  WaitingIsReachable'
<1> USE StreamsAssumption, EmitsAssumption
<1>1. CASE UNCHANGED <<rustVars, kotlinVars>>
  BY <1>1 DEF rustVars, kotlinVars, pumpVars, TypeOK, CallInv, EntriesAreExact,
    WaitingIsReachable
<1>2. ASSUME NEW t \in Task, StartPump(t) PROVE WaitingIsReachable'
  BY <1>2 DEF StartPump, Goto, startVars, rustVars, kotlinVars, pumpVars, TypeOK,
    CallInv, EntriesAreExact, WaitingIsReachable
<1>3. ASSUME NEW t \in Task, StartCall(t) PROVE WaitingIsReachable'
  <2>1. GetsIds(t) /\ GetsEntry(t)
    BY <1>3, NewIds, NewEntry DEF StartCall
  <2>2. slot' = slot /\ \A u \in Task : u # t => pc'[u] = pc[u]
    BY <1>3 DEF StartCall, Goto, TypeOK
  <2> SUFFICES ASSUME NEW u \in Task, pc'[u] = "waiting", slot'[u] = "empty"
               PROVE  id'[u] \in DOMAIN pending' /\ pending'[id'[u]] = u
    BY DEF WaitingIsReachable
  <2>3. CASE u = t
    BY <2>1, <2>3 DEF GetsEntry
  <2>4. CASE u # t
    <3>1. id[u] \in DOMAIN pending /\ pending[id[u]] = u
      BY <2>2, <2>4 DEF CallInv, EntriesAreExact, WaitingIsReachable
    <3>2. id'[u] = id[u]
      BY <2>1, <2>4 DEF GetsIds
    <3> QED
      BY <2>1, <3>1, <3>2 DEF GetsEntry
  <2> QED
    BY <2>3, <2>4
<1>4. ASSUME NEW t \in Task, CallEvents(t) PROVE WaitingIsReachable'
  <2>1. GetsIds(t) /\ IF t \in Streams THEN GetsChannel(t) ELSE GetsNoChannel(t)
    BY <1>4, NewIds DEF CallEvents
  <2> QED
    BY <1>4, <2>1 DEF CallEvents, Goto, startVars, rustVars, kotlinVars, pumpVars,
      GetsIds, GetsChannel, GetsNoChannel, TypeOK, CallInv, EntriesAreExact,
      WaitingIsReachable, Answer
<1>5. ASSUME NEW t \in Task, InvokeFails(t) PROVE WaitingIsReachable'
  <2>1. GetsIds(t) /\ IF t \in Streams THEN GetsChannel(t) ELSE GetsNoChannel(t)
    BY <1>5, NewIds DEF InvokeFails
  <2> QED
    BY <1>5, <2>1 DEF InvokeFails, Goto, Unlock, startVars, rustVars, kotlinVars,
      pumpVars, GetsIds, GetsChannel, GetsNoChannel, TypeOK, CallInv,
      EntriesAreExact, WaitingIsReachable
<1>6. ASSUME NEW t \in Task, TakeAnswer(t) PROVE WaitingIsReachable'
  BY <1>6 DEF TakeAnswer, Goto, SpawnPump, Unlock, Failed, startVars, rustVars,
    kotlinVars, pumpVars, TypeOK, CallInv, EntriesAreExact, WaitingIsReachable
<1>7. ASSUME NEW t \in Task, Expire(t) PROVE WaitingIsReachable'
  BY <1>7 DEF Expire, Goto, startVars, rustVars, kotlinVars, pumpVars, TypeOK,
    CallInv, EntriesAreExact, WaitingIsReachable
<1>8. ASSUME NEW t \in Task, RemoveExpired(t) PROVE WaitingIsReachable'
  BY <1>8 DEF RemoveExpired, Goto, Remove, Failed, Unlock, startVars, rustVars,
    kotlinVars, pumpVars, TypeOK, CallInv, EntriesAreExact, WaitingIsReachable,
    IdsAreUnique, NothingBeforeTheCall, Untouched
<1>9. ASSUME NEW t \in Task, DropFuture(t) PROVE WaitingIsReachable'
  BY <1>9 DEF DropFuture, Goto, Failed, Unlock, startVars, rustVars, kotlinVars,
    pumpVars, TypeOK, CallInv, EntriesAreExact, WaitingIsReachable
<1>10. ASSUME NEW t \in Task, Receive(t) PROVE WaitingIsReachable'
  BY <1>10 DEF Receive, startVars, rustVars, kotlinVars, pumpVars, TypeOK, CallInv,
    EntriesAreExact, WaitingIsReachable
<1>11. ASSUME NEW t \in Task, StopStreaming(t) PROVE WaitingIsReachable'
  BY <1>11 DEF StopStreaming, Goto, startVars, rustVars, kotlinVars, pumpVars,
    TypeOK, CallInv, EntriesAreExact, WaitingIsReachable
<1>12. ASSUME NEW t \in Task, Unregister(t) PROVE WaitingIsReachable'
  BY <1>12 DEF Unregister, Goto, Remove, startVars, rustVars, kotlinVars, pumpVars,
    TypeOK, CallInv, EntriesAreExact, WaitingIsReachable
<1>13. ASSUME NEW t \in Task, DropReceiver(t) PROVE WaitingIsReachable'
  BY <1>13 DEF DropReceiver, Goto, startVars, rustVars, kotlinVars, pumpVars,
    TypeOK, CallInv, EntriesAreExact, WaitingIsReachable
<1>14. ASSUME NEW t \in Task, NEW a \in Answer, TestAnswered(t, a) PROVE WaitingIsReachable'
  BY <1>14 DEF TestAnswered, Known, startVars, rustVars, kotlinVars, pumpVars,
    TypeOK, CallInv, EntriesAreExact, WaitingIsReachable
<1>15. ASSUME NEW t \in Task, NEW a \in Answer, Complete(t, a) PROVE WaitingIsReachable'
  BY <1>15 DEF Complete, Remove, startVars, rustVars, kotlinVars, pumpVars, TypeOK,
    CallInv, EntriesAreExact, WaitingIsReachable, IdsAreUnique,
    SlotHoldsFirstAnswer, FirstAnswer, PendingIsNeeded, Answer
<1>16. ASSUME NEW t \in Task, ChannelSend(t) PROVE WaitingIsReachable'
  BY <1>16 DEF ChannelSend, Known, startVars, rustVars, kotlinVars, pumpVars,
    TypeOK, CallInv, EntriesAreExact, WaitingIsReachable
<1> QED
  BY <1>1, <1>2, <1>3, <1>4, <1>5, <1>6, <1>7, <1>8, <1>9, <1>10, <1>11, <1>12,
    <1>13, <1>14, <1>15, <1>16, TaskSteps DEF TaskStep

\* Every step keeps entries only as long as they are needed.
LEMMA NeededStep ==
  ASSUME TypeOK, CallInv, [Next]_vars
  PROVE  PendingIsNeeded'
<1> USE StreamsAssumption, EmitsAssumption
<1>1. CASE UNCHANGED <<rustVars, kotlinVars>>
  BY <1>1 DEF rustVars, kotlinVars, pumpVars, TypeOK, CallInv, EntriesAreExact,
    PendingIsNeeded
<1>2. ASSUME NEW t \in Task, StartPump(t) PROVE PendingIsNeeded'
  BY <1>2 DEF StartPump, Goto, startVars, rustVars, kotlinVars, pumpVars, TypeOK,
    CallInv, EntriesAreExact, PendingIsNeeded
<1>3. ASSUME NEW t \in Task, StartCall(t) PROVE PendingIsNeeded'
  <2>1. GetsIds(t) /\ GetsEntry(t)
    BY <1>3, NewIds, NewEntry DEF StartCall
  <2>2. \A i \in DOMAIN pending : pending[i] \in Task /\ pending[i] # t
    BY <2>1, NothingRegistered DEF GetsIds
  <2>3. /\ result' = result /\ given' = given
        /\ \A u \in Task : u # t => pc'[u] = pc[u] /\ given'[u] = given[u]
    BY <1>3 DEF StartCall, Goto, kotlinVars, TypeOK
  <2>4. ASSUME NEW i \in DOMAIN pending
        PROVE  /\ pending'[i] = pending[i] /\ id'[pending[i]] = i /\ given'[pending[i]] = <<>>
               /\ pc'[pending[i]] \in {"waiting", "expired"} \/ result'[pending[i]] = "abandoned"
    <3>1. pending'[i] = pending[i]
      BY <2>1 DEF GetsEntry
    <3>2. id'[pending[i]] = id[pending[i]]
      BY <2>1, <2>2 DEF GetsIds
    <3>3. given'[pending[i]] = given[pending[i]] /\ pc'[pending[i]] = pc[pending[i]]
      BY <2>2, <2>3
    <3> QED
      BY <2>3, <3>1, <3>2, <3>3 DEF CallInv, EntriesAreExact, PendingIsNeeded
  <2>5. /\ pending'[id'[t]] = t /\ given'[t] = <<>> /\ pc'[t] = "waiting"
        /\ DOMAIN pending' = DOMAIN pending \cup {id'[t]}
    <3>1. given[t] = <<>>
      BY <2>1 DEF GetsIds, Untouched
    <3>2. pc'[t] = "waiting"
      BY <1>3 DEF StartCall, Goto, TypeOK
    <3> QED
      BY <2>1, <2>3, <3>1, <3>2 DEF GetsEntry
  <2> QED
    BY <2>4, <2>5 DEF PendingIsNeeded
<1>4. ASSUME NEW t \in Task, CallEvents(t) PROVE PendingIsNeeded'
  <2>1. GetsIds(t)
    BY <1>4, NewIds DEF CallEvents
  <2>2. \A i \in DOMAIN pending : pending[i] \in Task /\ pending[i] # t
    BY <2>1, NothingRegistered DEF GetsIds
  <2>3. /\ result' = result /\ pending' = pending
        /\ \A u \in Task : u # t => pc'[u] = pc[u] /\ given'[u] = given[u]
    BY <1>4 DEF CallEvents, Goto, kotlinVars, TypeOK
  <2>4. ASSUME NEW i \in DOMAIN pending
        PROVE  /\ pending'[i] = pending[i] /\ id'[pending[i]] = i /\ given'[pending[i]] = <<>>
               /\ pc'[pending[i]] \in {"waiting", "expired"} \/ result'[pending[i]] = "abandoned"
    <3>1. pending'[i] = pending[i]
      BY <2>3
    <3>2. id'[pending[i]] = id[pending[i]]
      BY <2>1, <2>2 DEF GetsIds
    <3>3. given'[pending[i]] = given[pending[i]] /\ pc'[pending[i]] = pc[pending[i]]
      BY <2>2, <2>3
    <3> QED
      BY <2>3, <3>1, <3>2, <3>3 DEF CallInv, EntriesAreExact, PendingIsNeeded
  <2> QED
    BY <2>3, <2>4 DEF PendingIsNeeded
<1>5. ASSUME NEW t \in Task, InvokeFails(t) PROVE PendingIsNeeded'
  <2>1. GetsIds(t) /\ IF t \in Streams THEN GetsChannel(t) ELSE GetsNoChannel(t)
    BY <1>5, NewIds DEF InvokeFails
  <2> QED
    BY <1>5, <2>1 DEF InvokeFails, Goto, Unlock, startVars, rustVars, kotlinVars,
      pumpVars, GetsIds, GetsChannel, GetsNoChannel, TypeOK, CallInv,
      EntriesAreExact, PendingIsNeeded, Untouched
<1>6. ASSUME NEW t \in Task, TakeAnswer(t) PROVE PendingIsNeeded'
  BY <1>6 DEF TakeAnswer, Goto, SpawnPump, Unlock, Failed, startVars, rustVars,
    kotlinVars, pumpVars, TypeOK, CallInv, EntriesAreExact, PendingIsNeeded,
    PendingIsUnanswered
<1>7. ASSUME NEW t \in Task, Expire(t) PROVE PendingIsNeeded'
  BY <1>7 DEF Expire, Goto, startVars, rustVars, kotlinVars, pumpVars, TypeOK,
    CallInv, EntriesAreExact, PendingIsNeeded
<1>8. ASSUME NEW t \in Task, RemoveExpired(t) PROVE PendingIsNeeded'
  BY <1>8 DEF RemoveExpired, Goto, Remove, Failed, Unlock, startVars, rustVars,
    kotlinVars, pumpVars, TypeOK, CallInv, EntriesAreExact, PendingIsNeeded,
    IdsAreUnique
<1>9. ASSUME NEW t \in Task, DropFuture(t) PROVE PendingIsNeeded'
  BY <1>9 DEF DropFuture, Goto, Failed, Unlock, startVars, rustVars, kotlinVars,
    pumpVars, TypeOK, CallInv, EntriesAreExact, PendingIsNeeded
<1>10. ASSUME NEW t \in Task, Receive(t) PROVE PendingIsNeeded'
  BY <1>10 DEF Receive, startVars, rustVars, kotlinVars, pumpVars, TypeOK, CallInv,
    EntriesAreExact, PendingIsNeeded
<1>11. ASSUME NEW t \in Task, StopStreaming(t) PROVE PendingIsNeeded'
  BY <1>11 DEF StopStreaming, Goto, startVars, rustVars, kotlinVars, pumpVars,
    TypeOK, CallInv, EntriesAreExact, PendingIsNeeded
<1>12. ASSUME NEW t \in Task, Unregister(t) PROVE PendingIsNeeded'
  BY <1>12 DEF Unregister, Goto, Remove, startVars, rustVars, kotlinVars, pumpVars,
    TypeOK, CallInv, EntriesAreExact, PendingIsNeeded
<1>13. ASSUME NEW t \in Task, DropReceiver(t) PROVE PendingIsNeeded'
  BY <1>13 DEF DropReceiver, Goto, startVars, rustVars, kotlinVars, pumpVars,
    TypeOK, CallInv, EntriesAreExact, PendingIsNeeded
<1>14. ASSUME NEW t \in Task, NEW a \in Answer, TestAnswered(t, a) PROVE PendingIsNeeded'
  BY <1>14 DEF TestAnswered, Known, startVars, rustVars, kotlinVars, pumpVars,
    TypeOK, CallInv, EntriesAreExact, PendingIsNeeded
<1>15. ASSUME NEW t \in Task, NEW a \in Answer, Complete(t, a) PROVE PendingIsNeeded'
  BY <1>15 DEF Complete, Remove, startVars, rustVars, kotlinVars, pumpVars, TypeOK,
    CallInv, EntriesAreExact, PendingIsNeeded
<1>16. ASSUME NEW t \in Task, ChannelSend(t) PROVE PendingIsNeeded'
  BY <1>16 DEF ChannelSend, Known, startVars, rustVars, kotlinVars, pumpVars,
    TypeOK, CallInv, EntriesAreExact, PendingIsNeeded
<1> QED
  BY <1>1, <1>2, <1>3, <1>4, <1>5, <1>6, <1>7, <1>8, <1>9, <1>10, <1>11, <1>12,
    <1>13, <1>14, <1>15, <1>16, TaskSteps DEF TaskStep

\* Every step keeps the receivers of registered channels.
LEMMA ReceiverStep ==
  ASSUME TypeOK, CallInv, ChannelInv, [Next]_vars
  PROVE  RegisteredHasReceiver'
<1> USE StreamsAssumption, EmitsAssumption
<1>1. CASE UNCHANGED <<rustVars, kotlinVars>>
  BY <1>1 DEF rustVars, kotlinVars, pumpVars, TypeOK, CallInv, EntriesAreExact,
    RegisteredHasReceiver
<1>2. ASSUME NEW t \in Task, StartPump(t) PROVE RegisteredHasReceiver'
  BY <1>2 DEF StartPump, Goto, startVars, rustVars, kotlinVars, pumpVars, TypeOK,
    CallInv, EntriesAreExact, RegisteredHasReceiver
<1>3. ASSUME NEW t \in Task, StartCall(t) PROVE RegisteredHasReceiver'
  BY <1>3, RegisterIds DEF StartCall
<1>4. ASSUME NEW t \in Task, CallEvents(t) PROVE RegisteredHasReceiver'
  BY <1>4, RegisterIds DEF CallEvents
<1>5. ASSUME NEW t \in Task, InvokeFails(t) PROVE RegisteredHasReceiver'
  BY <1>5, RegisterIds DEF InvokeFails
<1>6. ASSUME NEW t \in Task, TakeAnswer(t) PROVE RegisteredHasReceiver'
  BY <1>6 DEF TakeAnswer, Goto, SpawnPump, Unlock, Failed, startVars, rustVars,
    kotlinVars, pumpVars, TypeOK, CallInv, EntriesAreExact, RegisteredHasReceiver
<1>7. ASSUME NEW t \in Task, Expire(t) PROVE RegisteredHasReceiver'
  BY <1>7 DEF Expire, Goto, startVars, rustVars, kotlinVars, pumpVars, TypeOK,
    CallInv, EntriesAreExact, RegisteredHasReceiver
<1>8. ASSUME NEW t \in Task, RemoveExpired(t) PROVE RegisteredHasReceiver'
  BY <1>8 DEF RemoveExpired, Goto, Remove, Failed, Unlock, startVars, rustVars,
    kotlinVars, pumpVars, TypeOK, CallInv, EntriesAreExact, RegisteredHasReceiver
<1>9. ASSUME NEW t \in Task, DropFuture(t) PROVE RegisteredHasReceiver'
  BY <1>9 DEF DropFuture, Goto, Failed, Unlock, startVars, rustVars, kotlinVars,
    pumpVars, TypeOK, CallInv, EntriesAreExact, RegisteredHasReceiver
<1>10. ASSUME NEW t \in Task, Receive(t) PROVE RegisteredHasReceiver'
  BY <1>10 DEF Receive, startVars, rustVars, kotlinVars, pumpVars, TypeOK, CallInv,
    EntriesAreExact, RegisteredHasReceiver
<1>11. ASSUME NEW t \in Task, StopStreaming(t) PROVE RegisteredHasReceiver'
  BY <1>11 DEF StopStreaming, Goto, startVars, rustVars, kotlinVars, pumpVars,
    TypeOK, CallInv, EntriesAreExact, RegisteredHasReceiver
<1>12. ASSUME NEW t \in Task, Unregister(t) PROVE RegisteredHasReceiver'
  BY <1>12 DEF Unregister, Goto, Remove, startVars, rustVars, kotlinVars, pumpVars,
    TypeOK, CallInv, EntriesAreExact, RegisteredHasReceiver
<1>13. ASSUME NEW t \in Task, DropReceiver(t) PROVE RegisteredHasReceiver'
  BY <1>13 DEF DropReceiver, Goto, startVars, rustVars, kotlinVars, pumpVars,
    TypeOK, CallInv, EntriesAreExact, RegisteredHasReceiver, ChannelInv,
    ChannelsAreRegistered
<1>14. ASSUME NEW t \in Task, NEW a \in Answer, TestAnswered(t, a) PROVE RegisteredHasReceiver'
  BY <1>14 DEF TestAnswered, Known, startVars, rustVars, kotlinVars, pumpVars,
    TypeOK, CallInv, EntriesAreExact, RegisteredHasReceiver
<1>15. ASSUME NEW t \in Task, NEW a \in Answer, Complete(t, a) PROVE RegisteredHasReceiver'
  BY <1>15 DEF Complete, Remove, startVars, rustVars, kotlinVars, pumpVars, TypeOK,
    CallInv, EntriesAreExact, RegisteredHasReceiver
<1>16. ASSUME NEW t \in Task, ChannelSend(t) PROVE RegisteredHasReceiver'
  BY <1>16 DEF ChannelSend, Known, startVars, rustVars, kotlinVars, pumpVars,
    TypeOK, CallInv, EntriesAreExact, RegisteredHasReceiver
<1> QED
  BY <1>1, <1>2, <1>3, <1>4, <1>5, <1>6, <1>7, <1>8, <1>9, <1>10, <1>11, <1>12,
    <1>13, <1>14, <1>15, <1>16, TaskSteps DEF TaskStep

\* Every step keeps channels registered that can be read.
LEMMA ChannelsStep ==
  ASSUME TypeOK, CallInv, ChannelInv, [Next]_vars
  PROVE  ChannelsAreRegistered'
<1> USE StreamsAssumption, EmitsAssumption
<1>1. CASE UNCHANGED <<rustVars, kotlinVars>>
  BY <1>1 DEF rustVars, kotlinVars, pumpVars, TypeOK, CallInv, ChannelInv,
    ChannelsAreRegistered, EntriesAreExact, RegisteredHasReceiver
<1>2. ASSUME NEW t \in Task, StartPump(t) PROVE ChannelsAreRegistered'
  BY <1>2 DEF StartPump, Goto, startVars, rustVars, kotlinVars, pumpVars, TypeOK,
    CallInv, ChannelInv, ChannelsAreRegistered, EntriesAreExact,
    RegisteredHasReceiver
<1>3. ASSUME NEW t \in Task, StartCall(t) PROVE ChannelsAreRegistered'
  <2>1. Register(t) /\ pc' = [pc EXCEPT ![t] = "waiting"] /\ pc \in [Task -> Pc]
    BY <1>3 DEF StartCall, Goto, TypeOK
  <2>2. /\ pc'[t] \in {"waiting", "closing", "done"}
        /\ (pc'[t] = "closing" => t \in Streams) /\ (pc'[t] = "done" => t \notin Streams)
        /\ \A u \in Task : u # t => pc'[u] = pc[u]
    BY <2>1
  <2> QED
    BY <2>1, <2>2, RegisterChannels
<1>4. ASSUME NEW t \in Task, CallEvents(t) PROVE ChannelsAreRegistered'
  <2>1. Register(t) /\ pc' = [pc EXCEPT ![t] = "waiting"] /\ pc \in [Task -> Pc]
    BY <1>4 DEF CallEvents, Goto, TypeOK
  <2>2. /\ pc'[t] \in {"waiting", "closing", "done"}
        /\ (pc'[t] = "closing" => t \in Streams) /\ (pc'[t] = "done" => t \notin Streams)
        /\ \A u \in Task : u # t => pc'[u] = pc[u]
    BY <2>1
  <2> QED
    BY <2>1, <2>2, RegisterChannels
<1>5. ASSUME NEW t \in Task, InvokeFails(t) PROVE ChannelsAreRegistered'
  <2>1. Register(t) /\ pc' = [pc EXCEPT ![t] = IF t \in Streams THEN "closing" ELSE "done"] /\ pc \in [Task -> Pc]
    BY <1>5 DEF InvokeFails, Goto, TypeOK
  <2>2. /\ pc'[t] \in {"waiting", "closing", "done"}
        /\ (pc'[t] = "closing" => t \in Streams) /\ (pc'[t] = "done" => t \notin Streams)
        /\ \A u \in Task : u # t => pc'[u] = pc[u]
    BY <2>1
  <2> QED
    BY <2>1, <2>2, RegisterChannels
<1>6. ASSUME NEW t \in Task, TakeAnswer(t) PROVE ChannelsAreRegistered'
  BY <1>6 DEF TakeAnswer, Goto, SpawnPump, Unlock, Failed, startVars, rustVars,
    kotlinVars, pumpVars, TypeOK, CallInv, ChannelInv, ChannelsAreRegistered,
    EntriesAreExact, RegisteredHasReceiver
<1>7. ASSUME NEW t \in Task, Expire(t) PROVE ChannelsAreRegistered'
  BY <1>7 DEF Expire, Goto, startVars, rustVars, kotlinVars, pumpVars, TypeOK,
    CallInv, ChannelInv, ChannelsAreRegistered, EntriesAreExact,
    RegisteredHasReceiver
<1>8. ASSUME NEW t \in Task, RemoveExpired(t) PROVE ChannelsAreRegistered'
  BY <1>8 DEF RemoveExpired, Goto, Remove, Failed, Unlock, startVars, rustVars,
    kotlinVars, pumpVars, TypeOK, CallInv, ChannelInv, ChannelsAreRegistered,
    EntriesAreExact, RegisteredHasReceiver
<1>9. ASSUME NEW t \in Task, DropFuture(t) PROVE ChannelsAreRegistered'
  BY <1>9 DEF DropFuture, Goto, Failed, Unlock, startVars, rustVars, kotlinVars,
    pumpVars, TypeOK, CallInv, ChannelInv, ChannelsAreRegistered, EntriesAreExact,
    RegisteredHasReceiver
<1>10. ASSUME NEW t \in Task, Receive(t) PROVE ChannelsAreRegistered'
  BY <1>10 DEF Receive, startVars, rustVars, kotlinVars, pumpVars, TypeOK, CallInv,
    ChannelInv, ChannelsAreRegistered, EntriesAreExact, RegisteredHasReceiver
<1>11. ASSUME NEW t \in Task, StopStreaming(t) PROVE ChannelsAreRegistered'
  <2>1. /\ pc' = [pc EXCEPT ![t] = "closing"] /\ pc[t] = "streaming" /\ pc \in [Task -> Pc]
        /\ channels' = channels /\ chan' = chan /\ rxOpen' = rxOpen
    BY <1>11 DEF StopStreaming, Goto, TypeOK
  <2>2. \A u \in Task : pc'[u] = pc[u] \/ (pc[u] = "streaming" /\ pc'[u] = "closing")
    BY <2>1
  <2>3. \A i \in DOMAIN channels : channels[i] \in Task
    BY DEF TypeOK
  <2>4. \A i \in DOMAIN channels' : pc'[channels'[i]] \in {"waiting", "expired", "streaming", "closing"}
    BY <2>1, <2>2, <2>3 DEF ChannelInv, ChannelsAreRegistered
  <2> QED
    BY <2>1, <2>2, <2>4 DEF ChannelInv, ChannelsAreRegistered
<1>12. ASSUME NEW t \in Task, Unregister(t) PROVE ChannelsAreRegistered'
  BY <1>12 DEF Unregister, Goto, Remove, startVars, rustVars, kotlinVars, pumpVars,
    TypeOK, CallInv, ChannelInv, ChannelsAreRegistered, EntriesAreExact,
    RegisteredHasReceiver
<1>13. ASSUME NEW t \in Task, DropReceiver(t) PROVE ChannelsAreRegistered'
  BY <1>13 DEF DropReceiver, Goto, startVars, rustVars, kotlinVars, pumpVars,
    TypeOK, CallInv, ChannelInv, ChannelsAreRegistered, EntriesAreExact,
    RegisteredHasReceiver
<1>14. ASSUME NEW t \in Task, NEW a \in Answer, TestAnswered(t, a) PROVE ChannelsAreRegistered'
  BY <1>14 DEF TestAnswered, Known, startVars, rustVars, kotlinVars, pumpVars,
    TypeOK, CallInv, ChannelInv, ChannelsAreRegistered, EntriesAreExact,
    RegisteredHasReceiver
<1>15. ASSUME NEW t \in Task, NEW a \in Answer, Complete(t, a) PROVE ChannelsAreRegistered'
  BY <1>15 DEF Complete, Remove, startVars, rustVars, kotlinVars, pumpVars, TypeOK,
    CallInv, ChannelInv, ChannelsAreRegistered, EntriesAreExact,
    RegisteredHasReceiver
<1>16. ASSUME NEW t \in Task, ChannelSend(t) PROVE ChannelsAreRegistered'
  BY <1>16 DEF ChannelSend, Known, startVars, rustVars, kotlinVars, pumpVars,
    TypeOK, CallInv, ChannelInv, ChannelsAreRegistered, EntriesAreExact,
    RegisteredHasReceiver
<1> QED
  BY <1>1, <1>2, <1>3, <1>4, <1>5, <1>6, <1>7, <1>8, <1>9, <1>10, <1>11, <1>12,
    <1>13, <1>14, <1>15, <1>16, TaskSteps DEF TaskStep

\* Every step keeps the values in order.
LEMMA RestStep ==
  ASSUME TypeOK, CallInv, ChannelInv, [Next]_vars
  PROVE  ChannelsHoldTheRest'
<1> SUFFICES ASSUME NEW u \in Task PROVE Rest(u)'
  BY DEF ChannelsHoldTheRest
<1> USE StreamsAssumption, EmitsAssumption
<1>1. CASE UNCHANGED <<rustVars, kotlinVars>>
  BY <1>1 DEF rustVars, kotlinVars, pumpVars, TypeOK, CallInv, ChannelInv,
    ChannelsHoldTheRest, Rest
<1>2. ASSUME NEW t \in Task, StartPump(t) PROVE Rest(u)'
  BY <1>2 DEF StartPump, Goto, startVars, rustVars, kotlinVars, pumpVars, TypeOK,
    CallInv, ChannelInv, ChannelsHoldTheRest, Rest
<1>3. ASSUME NEW t \in Task, StartCall(t) PROVE Rest(u)'
  <2>1. GetsIds(t) /\ IF t \in Streams THEN GetsChannel(t) ELSE GetsNoChannel(t)
    BY <1>3, NewIds DEF StartCall
  <2>2. CASE u = t
    BY <1>3, <2>1, <2>2 DEF StartCall, Goto, startVars, rustVars, kotlinVars, pumpVars, TypeOK, GetsIds, GetsChannel, GetsNoChannel, Rest, Untouched
  <2>3. CASE u # t
    <3>1. Rest(u)
      BY DEF CallInv, ChannelInv, ChannelsHoldTheRest
    <3> QED
      BY <1>3, <2>1, <2>3, <3>1 DEF StartCall, Goto, startVars, rustVars, kotlinVars, pumpVars, TypeOK, GetsIds, Rest
  <2> QED
    BY <2>2, <2>3
<1>4. ASSUME NEW t \in Task, CallEvents(t) PROVE Rest(u)'
  <2>1. GetsIds(t) /\ IF t \in Streams THEN GetsChannel(t) ELSE GetsNoChannel(t)
    BY <1>4, NewIds DEF CallEvents
  <2>2. CASE u = t
    BY <1>4, <2>1, <2>2 DEF CallEvents, Goto, startVars, rustVars, kotlinVars, pumpVars, TypeOK, GetsIds, GetsChannel, GetsNoChannel, Rest, Untouched
  <2>3. CASE u # t
    <3>1. Rest(u)
      BY DEF CallInv, ChannelInv, ChannelsHoldTheRest
    <3> QED
      BY <1>4, <2>1, <2>3, <3>1 DEF CallEvents, Goto, startVars, rustVars, kotlinVars, pumpVars, TypeOK, GetsIds, Rest
  <2> QED
    BY <2>2, <2>3
<1>5. ASSUME NEW t \in Task, InvokeFails(t) PROVE Rest(u)'
  <2>1. GetsIds(t) /\ IF t \in Streams THEN GetsChannel(t) ELSE GetsNoChannel(t)
    BY <1>5, NewIds DEF InvokeFails
  <2>2. CASE u = t
    BY <1>5, <2>1, <2>2 DEF InvokeFails, Goto, Unlock, startVars, rustVars, kotlinVars, pumpVars, TypeOK, GetsIds, GetsChannel, GetsNoChannel, Rest, Untouched
  <2>3. CASE u # t
    <3>1. Rest(u)
      BY DEF CallInv, ChannelInv, ChannelsHoldTheRest
    <3> QED
      BY <1>5, <2>1, <2>3, <3>1 DEF InvokeFails, Goto, Unlock, startVars, rustVars, kotlinVars, pumpVars, TypeOK, GetsIds, Rest
  <2> QED
    BY <2>2, <2>3
<1>6. ASSUME NEW t \in Task, TakeAnswer(t) PROVE Rest(u)'
  BY <1>6 DEF TakeAnswer, Goto, SpawnPump, Unlock, Failed, startVars, rustVars,
    kotlinVars, pumpVars, TypeOK, CallInv, ChannelInv, ChannelsHoldTheRest, Rest
<1>7. ASSUME NEW t \in Task, Expire(t) PROVE Rest(u)'
  BY <1>7 DEF Expire, Goto, startVars, rustVars, kotlinVars, pumpVars, TypeOK,
    CallInv, ChannelInv, ChannelsHoldTheRest, Rest
<1>8. ASSUME NEW t \in Task, RemoveExpired(t) PROVE Rest(u)'
  BY <1>8 DEF RemoveExpired, Goto, Remove, Failed, Unlock, startVars, rustVars,
    kotlinVars, pumpVars, TypeOK, CallInv, ChannelInv, ChannelsHoldTheRest, Rest
<1>9. ASSUME NEW t \in Task, DropFuture(t) PROVE Rest(u)'
  BY <1>9 DEF DropFuture, Goto, Failed, Unlock, startVars, rustVars, kotlinVars,
    pumpVars, TypeOK, CallInv, ChannelInv, ChannelsHoldTheRest, Rest
<1>10. ASSUME NEW t \in Task, Receive(t) PROVE Rest(u)'
  <2>1. Rest(u) /\ Rest(t) /\ rx[t] \in Seq(Nat) /\ rx[t] # <<>> /\ got[t] \in Nat /\ emitted[t] \in Nat
    BY <1>10 DEF Receive, TypeOK, ChannelInv, ChannelsHoldTheRest
  <2>2. CASE u # t
    <3>1. got'[u] = got[u] /\ rx'[u] = rx[u] /\ emitted' = emitted /\ rxOpen' = rxOpen /\ pc' = pc
      BY <1>10, <2>2 DEF Receive, kotlinVars, TypeOK
    <3> QED
      BY <2>1, <3>1 DEF Rest
  <2>3. CASE u = t
    <3>1. /\ got'[t] = Head(rx[t]) /\ rx'[t] = Tail(rx[t])
          /\ emitted' = emitted /\ rxOpen' = rxOpen /\ pc' = pc
      BY <1>10 DEF Receive, kotlinVars, TypeOK
    <3>2. /\ Len(rx[t]) \in Nat /\ Len(rx[t]) > 0 /\ Head(rx[t]) = rx[t][1]
          /\ Len(Tail(rx[t])) = Len(rx[t]) - 1
          /\ \A k \in 1..Len(Tail(rx[t])) : Tail(rx[t])[k] = rx[t][k + 1]
      BY <2>1
    <3>3. got'[t] = got[t] + 1
      BY <2>1, <3>1, <3>2 DEF Rest
    <3>4. ASSUME NEW k \in 1..Len(rx'[t]) PROVE rx'[t][k] = got'[t] + k
      <4>1. k + 1 \in 1..Len(rx[t]) /\ rx'[t][k] = rx[t][k + 1]
        BY <3>1, <3>2
      <4>2. rx[t][k + 1] = got[t] + (k + 1)
        BY <2>1, <4>1 DEF Rest
      <4>3. k \in Nat /\ got[t] \in Nat
        BY <2>1, <3>2
      <4>4. got[t] + (k + 1) = got'[t] + k
        BY <3>3, <4>3
      <4> QED
        BY <4>1, <4>2, <4>4
    <3> QED
      BY <2>1, <2>3, <3>1, <3>2, <3>3, <3>4 DEF Rest
  <2> QED
    BY <2>2, <2>3
<1>11. ASSUME NEW t \in Task, StopStreaming(t) PROVE Rest(u)'
  BY <1>11 DEF StopStreaming, Goto, startVars, rustVars, kotlinVars, pumpVars,
    TypeOK, CallInv, ChannelInv, ChannelsHoldTheRest, Rest
<1>12. ASSUME NEW t \in Task, Unregister(t) PROVE Rest(u)'
  BY <1>12 DEF Unregister, Goto, Remove, startVars, rustVars, kotlinVars, pumpVars,
    TypeOK, CallInv, ChannelInv, ChannelsHoldTheRest, Rest
<1>13. ASSUME NEW t \in Task, DropReceiver(t) PROVE Rest(u)'
  <2>1. Rest(u) /\ rx[u] \in Seq(Nat) /\ got[u] \in Nat /\ emitted[u] \in Nat
    BY DEF TypeOK, ChannelInv, ChannelsHoldTheRest
  <2>2. got' = got /\ emitted' = emitted
    BY <1>13 DEF DropReceiver, kotlinVars
  <2>3. CASE u # t
    BY <1>13, <2>1, <2>2, <2>3 DEF DropReceiver, Goto, TypeOK, Rest
  <2>4. CASE u = t
    <3>1. rx'[u] = <<>> /\ rxOpen'[u] = FALSE
      BY <1>13, <2>4 DEF DropReceiver, TypeOK
    <3> QED
      BY <2>1, <2>2, <3>1 DEF Rest
  <2> QED
    BY <2>3, <2>4
<1>14. ASSUME NEW t \in Task, NEW a \in Answer, TestAnswered(t, a) PROVE Rest(u)'
  BY <1>14 DEF TestAnswered, Known, startVars, rustVars, kotlinVars, pumpVars,
    TypeOK, CallInv, ChannelInv, ChannelsHoldTheRest, Rest
<1>15. ASSUME NEW t \in Task, NEW a \in Answer, Complete(t, a) PROVE Rest(u)'
  BY <1>15 DEF Complete, Remove, startVars, rustVars, kotlinVars, pumpVars, TypeOK,
    CallInv, ChannelInv, ChannelsHoldTheRest, Rest
<1>16. ASSUME NEW t \in Task, ChannelSend(t) PROVE Rest(u)'
  <2>1. Rest(u) /\ rx[u] \in Seq(Nat) /\ got[u] \in Nat /\ emitted[u] \in Nat /\ chan[t] # 0
    BY <1>16 DEF ChannelSend, TypeOK, ChannelInv, ChannelsHoldTheRest
  <2>2. got' = got /\ rxOpen' = rxOpen /\ pc' = pc
    BY <1>16 DEF ChannelSend
  <2>3. CASE u # t
    <3>1. emitted'[u] = emitted[u]
      BY <1>16, <2>3 DEF ChannelSend, TypeOK
    <3>2. rx'[u] = rx[u]
      BY <1>16, <2>1, <2>3 DEF ChannelSend, TypeOK, CallInv, IdsAreUnique, EntriesAreExact, RegisteredHasReceiver
    <3> QED
      BY <2>1, <2>2, <3>1, <3>2 DEF Rest
  <2>4. CASE u = t
    <3>1. emitted'[u] = emitted[u] + 1
      BY <1>16, <2>4 DEF ChannelSend, TypeOK
    <3>2. CASE chan[t] \in DOMAIN channels /\ channels[chan[t]] = t
      <4>1. rxOpen[t] /\ pc[t] # "unregistered"
        BY <3>2 DEF CallInv, EntriesAreExact, RegisteredHasReceiver, ChannelInv, ChannelsAreRegistered
      <4>2. rx'[u] = Append(rx[u], emitted[u] + 1)
        BY <1>16, <2>4, <3>2 DEF ChannelSend
      <4>3. /\ Len(rx'[u]) = Len(rx[u]) + 1 /\ Len(rx[u]) \in Nat
            /\ \A k \in 1..Len(rx[u]) : rx'[u][k] = rx[u][k]
            /\ rx'[u][Len(rx[u]) + 1] = emitted[u] + 1
        BY <2>1, <4>2
      <4>4. got[u] + Len(rx[u]) = emitted[u]
        BY <2>1, <2>4, <4>1 DEF Rest
      <4>5. ASSUME NEW k \in 1..Len(rx'[u]) PROVE rx'[u][k] = got[u] + k
        <5>1. CASE k \in 1..Len(rx[u])
          BY <2>1, <4>3, <5>1 DEF Rest
        <5>2. CASE k = Len(rx[u]) + 1
          <6>1. got[u] \in Nat /\ emitted[u] \in Nat /\ Len(rx[u]) \in Nat
            BY <2>1
          <6>2. rx'[u][k] = emitted[u] + 1
            BY <4>3, <5>2
          <6>3. emitted[u] + 1 = got[u] + k
            BY <4>4, <5>2, <6>1
          <6> QED
            BY <6>2, <6>3
        <5> QED
          BY <4>3, <5>1, <5>2
      <4>6. got'[u] + Len(rx'[u]) = emitted'[u] /\ emitted'[u] \in Nat
        <5>1. got[u] \in Nat /\ emitted[u] \in Nat /\ Len(rx[u]) \in Nat
          BY <2>1
        <5> QED
          BY <2>2, <3>1, <4>3, <4>4, <5>1
      <4> QED
        BY <2>2, <4>5, <4>6 DEF Rest
    <3>3. CASE ~(chan[t] \in DOMAIN channels /\ channels[chan[t]] = t)
      <4>1. rx'[u] = rx[u]
        BY <1>16, <2>4, <3>3 DEF ChannelSend
      <4>2. ~(rxOpen[u] /\ pc[u] # "unregistered")
        <5>1. pc[u] \notin {"idle", "locked", "done"} \/ ~rxOpen[u]
          BY DEF ChannelInv, ChannelsAreRegistered
        <5> QED
          BY <2>4, <3>3, <5>1 DEF ChannelInv, ChannelsAreRegistered, TypeOK, Pc
      <4>3. Len(rx[u]) \in Nat
        BY <2>1
      <4> QED
        BY <2>1, <2>2, <3>1, <4>1, <4>2, <4>3 DEF Rest
    <3> QED
      BY <3>2, <3>3
  <2> QED
    BY <2>3, <2>4
<1> QED
  BY <1>1, <1>2, <1>3, <1>4, <1>5, <1>6, <1>7, <1>8, <1>9, <1>10, <1>11, <1>12,
    <1>13, <1>14, <1>15, <1>16, TaskSteps DEF TaskStep

\* Every step keeps the pump guarded.
LEMMA GuardStep ==
  ASSUME TypeOK, CallInv, ChannelInv, PumpIsGuarded, [Next]_vars
  PROVE  PumpIsGuarded'
<1> USE StreamsAssumption, EmitsAssumption
<1>1. CASE UNCHANGED <<rustVars, kotlinVars>>
  BY <1>1 DEF rustVars, kotlinVars, pumpVars, TypeOK, CallInv, PumpIsGuarded
<1>2. ASSUME NEW t \in Task, StartPump(t) PROVE PumpIsGuarded'
  BY <1>2 DEF StartPump, Goto, startVars, rustVars, kotlinVars, pumpVars, TypeOK,
    CallInv, PumpIsGuarded
<1>3. ASSUME NEW t \in Task, StartCall(t) PROVE PumpIsGuarded'
  <2>1. GetsIds(t) /\ IF t \in Streams THEN GetsChannel(t) ELSE GetsNoChannel(t)
    BY <1>3, NewIds DEF StartCall
  <2> QED
    BY <1>3, <2>1 DEF StartCall, Goto, startVars, rustVars, kotlinVars, pumpVars,
      GetsIds, GetsChannel, GetsNoChannel, TypeOK, CallInv, PumpIsGuarded, Untouched
<1>4. ASSUME NEW t \in Task, CallEvents(t) PROVE PumpIsGuarded'
  <2>1. GetsIds(t) /\ t \in Pumps /\ pc[t] = "locked"
    BY <1>4, NewIds DEF CallEvents, Register
  <2>2. pumpLock = t /\ pump = None
    BY <2>1 DEF PumpIsGuarded
  <2>3. pumpLock' = pumpLock /\ pump' = pump /\ \A u \in Task : u # t => pc'[u] = pc[u]
    BY <1>4 DEF CallEvents, pumpVars, Goto, TypeOK
  <2>4. PICK a \in Answer : /\ eventChannel' = IF a = "ok" THEN chan'[t] ELSE eventChannel
                           /\ slot' = [slot EXCEPT ![t] = a]
    BY <1>4 DEF CallEvents
  <2>5. slot'[t] = "ok" => eventChannel' = chan'[t]
    BY <2>4 DEF TypeOK
  <2> SUFFICES ASSUME NEW u \in Pumps
               PROVE  /\ pc'[u] \in {"locked", "waiting", "expired"} => pumpLock' = u /\ pump' = None
                      /\ pc'[u] = "waiting" /\ slot'[u] = "ok" => eventChannel' = chan'[u]
    BY DEF PumpIsGuarded
  <2>6. CASE u = t
    BY <2>2, <2>3, <2>5, <2>6
  <2>7. CASE u # t
    <3>1. pc[u] \notin {"locked", "waiting", "expired"}
      BY <2>2, <2>7 DEF PumpIsGuarded
    <3>2. pc'[u] = pc[u]
      BY <2>3, <2>7
    <3> QED
      BY <3>1, <3>2
  <2> QED
    BY <2>6, <2>7
<1>5. ASSUME NEW t \in Task, InvokeFails(t) PROVE PumpIsGuarded'
  <2>1. GetsIds(t) /\ IF t \in Streams THEN GetsChannel(t) ELSE GetsNoChannel(t)
    BY <1>5, NewIds DEF InvokeFails
  <2> QED
    BY <1>5, <2>1 DEF InvokeFails, Goto, Unlock, startVars, rustVars, kotlinVars,
      pumpVars, GetsIds, GetsChannel, GetsNoChannel, TypeOK, CallInv, PumpIsGuarded,
      Untouched
<1>6. ASSUME NEW t \in Task, TakeAnswer(t) PROVE PumpIsGuarded'
  BY <1>6 DEF TakeAnswer, Goto, SpawnPump, Unlock, Failed, startVars, rustVars,
    kotlinVars, pumpVars, TypeOK, CallInv, PumpIsGuarded
<1>7. ASSUME NEW t \in Task, Expire(t) PROVE PumpIsGuarded'
  BY <1>7 DEF Expire, Goto, startVars, rustVars, kotlinVars, pumpVars, TypeOK,
    CallInv, PumpIsGuarded
<1>8. ASSUME NEW t \in Task, RemoveExpired(t) PROVE PumpIsGuarded'
  BY <1>8 DEF RemoveExpired, Goto, Remove, Failed, Unlock, startVars, rustVars,
    kotlinVars, pumpVars, TypeOK, CallInv, PumpIsGuarded
<1>9. ASSUME NEW t \in Task, DropFuture(t) PROVE PumpIsGuarded'
  BY <1>9 DEF DropFuture, Goto, Failed, Unlock, startVars, rustVars, kotlinVars,
    pumpVars, TypeOK, CallInv, PumpIsGuarded
<1>10. ASSUME NEW t \in Task, Receive(t) PROVE PumpIsGuarded'
  BY <1>10 DEF Receive, startVars, rustVars, kotlinVars, pumpVars, TypeOK, CallInv,
    PumpIsGuarded
<1>11. ASSUME NEW t \in Task, StopStreaming(t) PROVE PumpIsGuarded'
  BY <1>11 DEF StopStreaming, Goto, startVars, rustVars, kotlinVars, pumpVars,
    TypeOK, CallInv, PumpIsGuarded
<1>12. ASSUME NEW t \in Task, Unregister(t) PROVE PumpIsGuarded'
  BY <1>12 DEF Unregister, Goto, Remove, startVars, rustVars, kotlinVars, pumpVars,
    TypeOK, CallInv, PumpIsGuarded
<1>13. ASSUME NEW t \in Task, DropReceiver(t) PROVE PumpIsGuarded'
  BY <1>13 DEF DropReceiver, Goto, startVars, rustVars, kotlinVars, pumpVars,
    TypeOK, CallInv, PumpIsGuarded
<1>14. ASSUME NEW t \in Task, NEW a \in Answer, TestAnswered(t, a) PROVE PumpIsGuarded'
  BY <1>14 DEF TestAnswered, Known, startVars, rustVars, kotlinVars, pumpVars,
    TypeOK, CallInv, PumpIsGuarded
<1>15. ASSUME NEW t \in Task, NEW a \in Answer, Complete(t, a) PROVE PumpIsGuarded'
  <2>1. id[t] # 0 /\ t \notin Pumps
    BY <1>15 DEF Complete, CallInv, SlotHoldsFirstAnswer, FirstAnswer
  <2>2. \A u \in Pumps : slot'[u] = slot[u]
    BY <1>15, <2>1 DEF Complete, TypeOK, CallInv, IdsAreUnique, EntriesAreExact, PendingIsNeeded
  <2>3. pc' = pc /\ chan' = chan /\ pumpLock' = pumpLock /\ pump' = pump /\ eventChannel' = eventChannel
    BY <1>15 DEF Complete, pumpVars
  <2> QED
    BY <2>2, <2>3 DEF PumpIsGuarded
<1>16. ASSUME NEW t \in Task, ChannelSend(t) PROVE PumpIsGuarded'
  BY <1>16 DEF ChannelSend, Known, startVars, rustVars, kotlinVars, pumpVars,
    TypeOK, CallInv, PumpIsGuarded
<1> QED
  BY <1>1, <1>2, <1>3, <1>4, <1>5, <1>6, <1>7, <1>8, <1>9, <1>10, <1>11, <1>12,
    <1>13, <1>14, <1>15, <1>16, TaskSteps DEF TaskStep

\* Every step keeps the pump and Kotlin on one channel.
LEMMA HearStep ==
  ASSUME TypeOK, CallInv, ChannelInv, PumpIsGuarded, PumpHearsEvents, [Next]_vars
  PROVE  PumpHearsEvents'
<1> USE StreamsAssumption, EmitsAssumption
<1>1. CASE UNCHANGED <<rustVars, kotlinVars>>
  BY <1>1 DEF rustVars, kotlinVars, pumpVars, TypeOK, CallInv, EntriesAreExact,
    RegisteredHasReceiver, ChannelInv, ChannelsAreRegistered, PumpIsGuarded,
    PumpHearsEvents
<1>2. ASSUME NEW t \in Task, StartPump(t) PROVE PumpHearsEvents'
  BY <1>2 DEF StartPump, Goto, startVars, rustVars, kotlinVars, pumpVars, TypeOK,
    CallInv, EntriesAreExact, RegisteredHasReceiver, ChannelInv,
    ChannelsAreRegistered, PumpIsGuarded, PumpHearsEvents
<1>3. ASSUME NEW t \in Task, StartCall(t) PROVE PumpHearsEvents'
  <2>1. Register(t)
    BY <1>3 DEF StartCall
  <2>2. pump' = pump /\ pc'[t] # "streaming" /\ \A u \in Task : u # t => pc'[u] = pc[u]
    BY <1>3 DEF StartCall, pumpVars, Goto, TypeOK
  <2> SUFFICES ASSUME NEW u \in Pumps, pc'[u] = "streaming"
               PROVE  pump' = u /\ eventChannel' = chan'[u] /\ chan'[u] \in DOMAIN channels'
    BY DEF PumpHearsEvents
  <2>3. u # t /\ pc[u] = "streaming"
    BY <2>2
  <2>4. pump = u /\ eventChannel = chan[u] /\ chan[u] \in DOMAIN channels
    BY <2>3 DEF PumpHearsEvents
  <2>5. chan'[u] = chan[u] /\ chan[u] \in DOMAIN channels'
    BY <2>1, <2>3, <2>4, NewIds, OtherChannels DEF GetsIds
  <2>6. eventChannel' = eventChannel
    BY <1>3 DEF StartCall, kotlinVars
  <2> QED
    BY <2>2, <2>4, <2>5, <2>6
<1>4. ASSUME NEW t \in Task, CallEvents(t) PROVE PumpHearsEvents'
  <2>1. Register(t)
    BY <1>4 DEF CallEvents
  <2>2. pump' = pump /\ pc'[t] # "streaming" /\ \A u \in Task : u # t => pc'[u] = pc[u]
    BY <1>4 DEF CallEvents, pumpVars, Goto, TypeOK
  <2> SUFFICES ASSUME NEW u \in Pumps, pc'[u] = "streaming"
               PROVE  pump' = u /\ eventChannel' = chan'[u] /\ chan'[u] \in DOMAIN channels'
    BY DEF PumpHearsEvents
  <2>3. u # t /\ pc[u] = "streaming"
    BY <2>2
  <2>4. pump = u /\ eventChannel = chan[u] /\ chan[u] \in DOMAIN channels
    BY <2>3 DEF PumpHearsEvents
  <2>5. chan'[u] = chan[u] /\ chan[u] \in DOMAIN channels'
    BY <2>1, <2>3, <2>4, NewIds, OtherChannels DEF GetsIds
  <2>6. eventChannel' = eventChannel
    <3>1. t \in Pumps /\ pc[t] = "locked"
      BY <1>4 DEF CallEvents, Register
    <3>2. pump = None
      BY <3>1 DEF PumpIsGuarded
    <3> QED
      BY <2>4, <3>2
  <2> QED
    BY <2>2, <2>4, <2>5, <2>6
<1>5. ASSUME NEW t \in Task, InvokeFails(t) PROVE PumpHearsEvents'
  <2>1. Register(t)
    BY <1>5 DEF InvokeFails
  <2>2. pump' = pump /\ pc'[t] # "streaming" /\ \A u \in Task : u # t => pc'[u] = pc[u]
    BY <1>5 DEF InvokeFails, pumpVars, Goto, TypeOK
  <2> SUFFICES ASSUME NEW u \in Pumps, pc'[u] = "streaming"
               PROVE  pump' = u /\ eventChannel' = chan'[u] /\ chan'[u] \in DOMAIN channels'
    BY DEF PumpHearsEvents
  <2>3. u # t /\ pc[u] = "streaming"
    BY <2>2
  <2>4. pump = u /\ eventChannel = chan[u] /\ chan[u] \in DOMAIN channels
    BY <2>3 DEF PumpHearsEvents
  <2>5. chan'[u] = chan[u] /\ chan[u] \in DOMAIN channels'
    BY <2>1, <2>3, <2>4, NewIds, OtherChannels DEF GetsIds
  <2>6. eventChannel' = eventChannel
    BY <1>5 DEF InvokeFails, kotlinVars
  <2> QED
    BY <2>2, <2>4, <2>5, <2>6
<1>6. ASSUME NEW t \in Task, TakeAnswer(t) PROVE PumpHearsEvents'
  BY <1>6 DEF TakeAnswer, Goto, SpawnPump, Unlock, Failed, startVars, rustVars,
    kotlinVars, pumpVars, TypeOK, CallInv, EntriesAreExact, RegisteredHasReceiver,
    ChannelInv, ChannelsAreRegistered, PumpIsGuarded, PumpHearsEvents
<1>7. ASSUME NEW t \in Task, Expire(t) PROVE PumpHearsEvents'
  BY <1>7 DEF Expire, Goto, startVars, rustVars, kotlinVars, pumpVars, TypeOK,
    CallInv, EntriesAreExact, RegisteredHasReceiver, ChannelInv,
    ChannelsAreRegistered, PumpIsGuarded, PumpHearsEvents
<1>8. ASSUME NEW t \in Task, RemoveExpired(t) PROVE PumpHearsEvents'
  BY <1>8 DEF RemoveExpired, Goto, Remove, Failed, Unlock, startVars, rustVars,
    kotlinVars, pumpVars, TypeOK, CallInv, EntriesAreExact, RegisteredHasReceiver,
    ChannelInv, ChannelsAreRegistered, PumpIsGuarded, PumpHearsEvents
<1>9. ASSUME NEW t \in Task, DropFuture(t) PROVE PumpHearsEvents'
  BY <1>9 DEF DropFuture, Goto, Failed, Unlock, startVars, rustVars, kotlinVars,
    pumpVars, TypeOK, CallInv, EntriesAreExact, RegisteredHasReceiver, ChannelInv,
    ChannelsAreRegistered, PumpIsGuarded, PumpHearsEvents
<1>10. ASSUME NEW t \in Task, Receive(t) PROVE PumpHearsEvents'
  BY <1>10 DEF Receive, startVars, rustVars, kotlinVars, pumpVars, TypeOK, CallInv,
    EntriesAreExact, RegisteredHasReceiver, ChannelInv, ChannelsAreRegistered,
    PumpIsGuarded, PumpHearsEvents
<1>11. ASSUME NEW t \in Task, StopStreaming(t) PROVE PumpHearsEvents'
  BY <1>11 DEF StopStreaming, Goto, startVars, rustVars, kotlinVars, pumpVars,
    TypeOK, CallInv, EntriesAreExact, RegisteredHasReceiver, ChannelInv,
    ChannelsAreRegistered, PumpIsGuarded, PumpHearsEvents
<1>12. ASSUME NEW t \in Task, Unregister(t) PROVE PumpHearsEvents'
  BY <1>12 DEF Unregister, Goto, Remove, startVars, rustVars, kotlinVars, pumpVars,
    TypeOK, CallInv, EntriesAreExact, RegisteredHasReceiver, ChannelInv,
    ChannelsAreRegistered, PumpIsGuarded, PumpHearsEvents
<1>13. ASSUME NEW t \in Task, DropReceiver(t) PROVE PumpHearsEvents'
  BY <1>13 DEF DropReceiver, Goto, startVars, rustVars, kotlinVars, pumpVars,
    TypeOK, CallInv, EntriesAreExact, RegisteredHasReceiver, ChannelInv,
    ChannelsAreRegistered, PumpIsGuarded, PumpHearsEvents
<1>14. ASSUME NEW t \in Task, NEW a \in Answer, TestAnswered(t, a) PROVE PumpHearsEvents'
  BY <1>14 DEF TestAnswered, Known, startVars, rustVars, kotlinVars, pumpVars,
    TypeOK, CallInv, EntriesAreExact, RegisteredHasReceiver, ChannelInv,
    ChannelsAreRegistered, PumpIsGuarded, PumpHearsEvents
<1>15. ASSUME NEW t \in Task, NEW a \in Answer, Complete(t, a) PROVE PumpHearsEvents'
  BY <1>15 DEF Complete, Remove, startVars, rustVars, kotlinVars, pumpVars, TypeOK,
    CallInv, EntriesAreExact, RegisteredHasReceiver, ChannelInv,
    ChannelsAreRegistered, PumpIsGuarded, PumpHearsEvents
<1>16. ASSUME NEW t \in Task, ChannelSend(t) PROVE PumpHearsEvents'
  BY <1>16 DEF ChannelSend, Known, startVars, rustVars, kotlinVars, pumpVars,
    TypeOK, CallInv, EntriesAreExact, RegisteredHasReceiver, ChannelInv,
    ChannelsAreRegistered, PumpIsGuarded, PumpHearsEvents
<1> QED
  BY <1>1, <1>2, <1>3, <1>4, <1>5, <1>6, <1>7, <1>8, <1>9, <1>10, <1>11, <1>12,
    <1>13, <1>14, <1>15, <1>16, TaskSteps DEF TaskStep

-----------------------------------------------------------------------------
(* The theorems. *)

\* The initial states satisfy the invariant.
LEMMA BridgeInit == Init => BridgeInv
<1> SUFFICES ASSUME Init PROVE BridgeInv
  OBVIOUS
<1> USE StreamsAssumption, EmitsAssumption
<1>1. DOMAIN pending = {} /\ DOMAIN channels = {}
  BY DEF Init
<1>2. TypeOK
  <2>1. <<>> \in Seq(Nat) /\ <<>> \in Seq(Answer)
    OBVIOUS
  <2>2. pending \in [DOMAIN pending -> Task] /\ channels \in [DOMAIN channels -> Task]
    BY <1>1 DEF Init
  <2>3. starter \in [Starter -> {"idle", "loading", "loaded", "stored", "done"}]
    BY DEF Init
  <2>4. pc \in [Task -> Pc] /\ slot \in [Task -> Answer \cup {"empty"}] /\ result \in [Task -> Result]
    BY DEF Init, Pc, Result
  <2>5. id \in [Task -> Nat] /\ chan \in [Task -> Nat] /\ got \in [Task -> Nat] /\ emitted \in [Task -> Nat]
    BY DEF Init
  <2>6. rx \in [Task -> Seq(Nat)] /\ given \in [Task -> Seq(Answer)] /\ answering \in [Task -> SUBSET Answer]
    BY <2>1 DEF Init
  <2>7. rxOpen \in [Task -> BOOLEAN] /\ answered \in [Task -> BOOLEAN] /\ bridge \in BOOLEAN /\ handler \in BOOLEAN
    BY DEF Init
  <2>8. nextId \in Nat \ {0} /\ eventChannel \in Nat /\ pump \in Pumps \cup {None} /\ pumpLock \in Pumps \cup {None}
    BY DEF Init
  <2> QED
    BY <2>2, <2>3, <2>4, <2>5, <2>6, <2>7, <2>8 DEF TypeOK
<1>3. CallInv
  BY <1>1 DEF Init, CallInv, IdsAreUnique, NothingBeforeTheCall, Untouched, SlotHoldsFirstAnswer, FirstAnswer,
         PendingIsUnanswered, EntriesAreExact, WaitingIsReachable, PendingIsNeeded, RegisteredHasReceiver
<1>4. ChannelsAreRegistered
  BY <1>1 DEF Init, ChannelsAreRegistered
<1>5. ChannelsHoldTheRest
  <2> SUFFICES ASSUME NEW t \in Task PROVE Rest(t)
    BY DEF ChannelsHoldTheRest
  <2>1. got[t] = 0 /\ emitted[t] = 0 /\ rx[t] = <<>>
    BY DEF Init
  <2>2. Len(rx[t]) = 0
    BY <2>1
  <2> QED
    BY <2>1, <2>2 DEF Rest
<1>6. PumpIsGuarded /\ PumpHearsEvents
  BY DEF Init, PumpIsGuarded, PumpHearsEvents
<1> QED
  BY <1>2, <1>3, <1>4, <1>5, <1>6 DEF BridgeInv, ChannelInv

\* Every step keeps it.
LEMMA BridgeStep == BridgeInv /\ [Next]_vars => BridgeInv'
<1> SUFFICES ASSUME BridgeInv, [Next]_vars PROVE BridgeInv'
  OBVIOUS
<1>1. TypeOK /\ CallInv /\ ChannelInv /\ PumpIsGuarded /\ PumpHearsEvents
  BY DEF BridgeInv
<1>2. CallInv'
  BY <1>1, IdsStep, NothingStep, SlotStep, PendingStep, WaitingStep, NeededStep, ReceiverStep
  DEF CallInv, EntriesAreExact
<1>3. ChannelInv'
  BY <1>1, ChannelsStep, RestStep DEF ChannelInv
<1> QED
  BY <1>1, <1>2, <1>3, TypeStep, GuardStep, HearStep DEF BridgeInv

LEMMA BridgeInvariance == Spec => []BridgeInv
  BY BridgeInit, BridgeStep, PTL DEF Spec

\* Every variable of the bridge (bridge.rs) and the pump (handler.rs) has its
\* type in every reachable state.
THEOREM BridgeTypeCorrect == Spec => []TypeOK
<1>1. BridgeInv => TypeOK
  BY DEF BridgeInv
<1> QED
  BY <1>1, BridgeInvariance, PTL

\* The maps of the bridge (call, complete, Drop for ChannelReceiver in bridge.rs)
\* hold what a waiting call or a reader needs, and nothing that is done.
THEOREM EntriesCorrect == Spec => []EntriesAreExact
<1>1. BridgeInv => EntriesAreExact
  BY DEF BridgeInv, CallInv
<1> QED
  BY <1>1, BridgeInvariance, PTL

\* The handler never has a second event pump, nor one that reads a channel that
\* Kotlin no longer writes to (start_event_pump in handler.rs).
THEOREM PumpCorrect == Spec => []PumpHearsEvents
<1>1. BridgeInv => PumpHearsEvents
  BY DEF BridgeInv
<1> QED
  BY <1>1, BridgeInvariance, PTL

-----------------------------------------------------------------------------
(* Refinement. *)

\* Every step of the bridge is a step of the promise, or none.
LEMMA CallsStep ==
  ASSUME BridgeInv, [Next]_vars
  PROVE  Calls!Next \/ UNCHANGED <<given, result, emitted, got>>
<1>0. TypeOK /\ CallInv /\ ChannelInv
  BY DEF BridgeInv
<1>1. CASE UNCHANGED <<rustVars, kotlinVars>>
  BY <1>1 DEF rustVars, kotlinVars
<1>2. ASSUME NEW t \in Task,
             \/ StartPump(t) \/ StartCall(t) \/ Expire(t) \/ StopStreaming(t) \/ Unregister(t)
             \/ DropReceiver(t) \/ \E a \in Answer : TestAnswered(t, a)
      PROVE  UNCHANGED <<given, result, emitted, got>>
  BY <1>2 DEF StartPump, StartCall, Expire, StopStreaming, Unregister, DropReceiver, TestAnswered,
       rustVars, kotlinVars, pumpVars
<1>3. ASSUME NEW t \in Task, CallEvents(t) PROVE Calls!Next
  <2>1. given[t] = <<>> /\ result[t] = "none"
    BY <1>0, <1>3, NewIds DEF CallEvents, GetsIds, Untouched
  <2>2. PICK a \in Answer : given' = [given EXCEPT ![t] = <<a>>]
    BY <1>3 DEF CallEvents
  <2>3. given' = [given EXCEPT ![t] = Append(given[t], a)]
    BY <2>1, <2>2
  <2>4. Calls!Give(t, a)
    BY <1>3, <2>1, <2>3 DEF CallEvents, Calls!Give
  <2> QED
    BY <2>4 DEF Calls!Next
<1>4. ASSUME NEW t \in Task, InvokeFails(t) PROVE Calls!Next
  <2>1. given[t] = <<>> /\ result[t] = "none" /\ emitted[t] = 0
    BY <1>0, <1>4, NewIds DEF InvokeFails, GetsIds, Untouched
  <2>2. Calls!Return(t)
    BY <1>4, <2>1 DEF InvokeFails, kotlinVars, Calls!Return
  <2> QED
    BY <2>2 DEF Calls!Next
<1>5. ASSUME NEW t \in Task, TakeAnswer(t) PROVE Calls!Next
  <2>1. result[t] = "none" /\ given[t] # <<>> /\ slot[t] = Head(given[t])
    BY <1>0, <1>5 DEF TakeAnswer, CallInv, SlotHoldsFirstAnswer, FirstAnswer
  <2>2. Calls!Return(t)
    BY <1>5, <2>1 DEF TakeAnswer, kotlinVars, Calls!Return
  <2> QED
    BY <2>2 DEF Calls!Next
<1>6. ASSUME NEW t \in Task, RemoveExpired(t) \/ DropFuture(t) PROVE Calls!Next
  <2>1. result[t] = "none"
    BY <1>0, <1>6 DEF RemoveExpired, DropFuture, CallInv, SlotHoldsFirstAnswer, FirstAnswer
  <2>2. Calls!Return(t)
    BY <1>6, <2>1 DEF RemoveExpired, DropFuture, kotlinVars, Calls!Return
  <2> QED
    BY <2>2 DEF Calls!Next
<1>7. ASSUME NEW t \in Task, Receive(t) PROVE Calls!Next
  <2>1. result[t] = "ok" /\ Rest(t) /\ rx[t] \in Seq(Nat) /\ rx[t] # <<>> /\ got[t] \in Nat /\ emitted[t] \in Nat
    BY <1>0, <1>7 DEF Receive, TypeOK, CallInv, SlotHoldsFirstAnswer, FirstAnswer, ChannelInv, ChannelsHoldTheRest
  <2>2. Len(rx[t]) \in Nat /\ Len(rx[t]) > 0 /\ Head(rx[t]) = rx[t][1]
    BY <2>1
  <2>3. Head(rx[t]) = got[t] + 1 /\ got[t] < emitted[t]
    BY <2>1, <2>2 DEF Rest
  <2>4. got' = [got EXCEPT ![t] = got[t] + 1]
    BY <1>7, <2>3 DEF Receive
  <2>5. Calls!Yield(t)
    BY <1>7, <2>1, <2>3, <2>4 DEF Receive, kotlinVars, Calls!Yield
  <2> QED
    BY <2>5 DEF Calls!Next
<1>8. ASSUME NEW t \in Task, NEW a \in Answer, Complete(t, a) PROVE Calls!Next
  <2>1. result[t] # "unreached"
    BY <1>0, <1>8 DEF Complete, CallInv, SlotHoldsFirstAnswer, FirstAnswer
  <2>2. Calls!Give(t, a)
    BY <1>8, <2>1 DEF Complete, Calls!Give
  <2> QED
    BY <2>2 DEF Calls!Next
<1>9. ASSUME NEW t \in Task, ChannelSend(t) PROVE Calls!Next
  <2>1. Calls!Emit(t)
    BY <1>9 DEF ChannelSend, Known, Calls!Emit
  <2> QED
    BY <2>1 DEF Calls!Next
<1> QED
  BY <1>1, <1>2, <1>3, <1>4, <1>5, <1>6, <1>7, <1>8, <1>9, TaskSteps DEF TaskStep

\* The bridge implements RemoteCalls: every call has at most one result, which is
\* the first answer Kotlin gave to that very call or one of the ways to end
\* without one, and a stream yields what was sent, in order and without gaps.
THEOREM CallsKept == Spec => CallsPromise
<1>1. Init => Calls!Init
  BY DEF Init, Calls!Init
<1>2. BridgeInv /\ [Next]_vars => [Calls!Next]_(Calls!vars)
  BY CallsStep DEF Calls!vars
<1> QED
  BY <1>1, <1>2, BridgeInvariance, PTL DEF Spec, CallsPromise, Calls!Spec
=============================================================================
