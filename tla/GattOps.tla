------------------------------ MODULE GattOps ------------------------------
(***************************************************************************)
(* GATT operations on one device and the task that runs the callbacks of   *)
(* its notifications (handler.rs).  Tasks look the link up by its address  *)
(* before and after every wait, so an operation that waited may find       *)
(* another link than it began on.  The life of links is in BlecLinks; here *)
(* a link is lost, cleared and replaced at any time.                       *)
(*                                                                         *)
(* The characteristics have one UUID and are in different services.  A     *)
(* callback may itself call the handler; it is the actor Callback.         *)
(***************************************************************************)
EXTENDS Naturals, FiniteSets

CONSTANTS
  Task,          \* callers of the handler
  Callback,      \* what runs in the callback of a notification
  Charac,        \* the characteristics
  MaxLinks,      \* bound: links made to the device
  CallbackKinds, \* the operations callbacks make
  None

Actor == Task \cup {Callback}
LinkId == 1 .. MaxLinks
Kind == {"access", "discover", "subscribe", "unsubscribe"}

ASSUME ActorAssumption == Callback \notin Task /\ None \notin Actor
ASSUME KindAssumption == CallbackKinds \subseteq Kind
ASSUME MaxLinksAssumption == MaxLinks \in Nat

VARIABLES
  link,       \* the link in the table, or 0
  conn,       \* the link whose connection is up, or 0
  count,      \* links made so far
  notifying,  \* the characteristics the device notifies of
  gattLock,   \* who holds the gatt_lock of each link, or None
  listeners,  \* the listeners of the link in the table
  note,       \* a characteristic whose notification waits, or None
  calling,    \* the listeners the current notification has yet to reach
  running,    \* the listener whose callback runs, or None
  pc, op,     \* where each actor is in its operation, and on what
  quiet,      \* characteristics unsubscribed from the link, and not subscribed since
  deaf        \* those of an unsubscribe that failed, was overtaken or was aborted

links == <<link, conn, count>>
notes == <<note, calling, running>>
vars == <<links, notifying, gattLock, listeners, notes, pc, op, quiet, deaf>>

(* A listener is `on` the link its subscribe began on, which is an earlier one *)
(* than the link in the table if that overtook the subscribe.                 *)
Listener == [charac : Charac, on : LinkId]
Pc == {"idle", "locking", "busy", "listening"}
NoOp == [kind |-> "access", lock |-> 0, target |-> 0, of |-> {}, left |-> {}]
Op == [kind : Kind, lock : 0 .. MaxLinks, target : 0 .. MaxLinks, of : SUBSET Charac,
       left : SUBSET Charac]

Init ==
  /\ link = 0 /\ conn = 0 /\ count = 0 /\ notifying = {}
  /\ gattLock = [l \in LinkId |-> None] /\ listeners = {}
  /\ note = None /\ calling = {} /\ running = None
  /\ pc = [t \in Actor |-> "idle"] /\ op = [t \in Actor |-> NoOp]
  /\ quiet = {} /\ deaf = {}

Goto(t, where) == pc' = [pc EXCEPT ![t] = where]

(* An operation ends, and with it its guard. *)
Finish(t) ==
  /\ pc' = [pc EXCEPT ![t] = "idle"] /\ op' = [op EXCEPT ![t] = NoOp]
  /\ gattLock' = [l \in LinkId |-> IF gattLock[l] = t THEN None ELSE gattLock[l]]

-----------------------------------------------------------------------------
(* The life of the link. *)

(* connect puts a fresh link into the table and starts its listen task. *)
Connect ==
  /\ link = 0 /\ count < MaxLinks
  /\ count' = count + 1 /\ link' = count + 1 /\ conn' = count + 1
  /\ UNCHANGED <<notifying, gattLock, listeners, notes, pc, op, quiet, deaf>>

(* The device is gone, which the handler does not know yet. *)
Lose ==
  /\ conn # 0 /\ conn' = 0 /\ notifying' = {}
  /\ UNCHANGED <<link, count, gattLock, listeners, notes, pc, op, quiet, deaf>>

(* clear_link aborts the listen task, and with it the callback it awaits. *)
Clear ==
  /\ link # 0 /\ conn = 0
  /\ link' = 0 /\ listeners' = {} /\ note' = None /\ calling' = {} /\ running' = None
  /\ quiet' = {} /\ deaf' = {}
  /\ Finish(Callback)
  /\ UNCHANGED <<conn, count, notifying>>

(* A connect that finds the link in the table keeps it, with its listeners, *)
(* but replaces the listen task: the old one is aborted as in a Clear, also *)
(* when its callback is about to unsubscribe.                               *)
Reuse ==
  /\ link # 0
  /\ note' = None /\ calling' = {} /\ running' = None
  /\ deaf' = IF op[Callback].kind = "unsubscribe" THEN deaf \cup op[Callback].of ELSE deaf
  /\ Finish(Callback)
  /\ UNCHANGED <<links, notifying, listeners, quiet>>

-----------------------------------------------------------------------------
(* An operation. *)

(* It waits for the lock of the link in the table.  Without a service an     *)
(* unsubscribe is of all characteristics with the UUID, while the others     *)
(* are of one.                                                               *)
Begin(t, k) ==
  /\ pc[t] = "idle" /\ link # 0
  /\ \E cs \in IF k \in {"access", "discover"} THEN {{}} ELSE (SUBSET Charac) \ {{}} :
       /\ k = "subscribe" => Cardinality(cs) = 1
       /\ op' = [op EXCEPT ![t] = [kind |-> k, lock |-> link, target |-> link, of |-> cs, left |-> cs]]
  /\ Goto(t, "locking")

(* Mutant: the guard is dropped where it is taken. *)
LockAndRelease(t) ==
  /\ pc[t] = "locking" /\ gattLock[op[t].lock] = None /\ link # 0
  /\ op' = [op EXCEPT ![t].target = IF op[t].kind = "discover" THEN @ ELSE link]
  /\ Goto(t, "busy")
  /\ UNCHANGED <<links, notifying, gattLock, listeners, notes, quiet, deaf>>

(* Mutant: the link is taken to be there. *)
LockBlindly(t) ==
  /\ pc[t] = "locking" /\ gattLock[op[t].lock] = None
  /\ op' = [op EXCEPT ![t].target = IF op[t].kind = "discover" THEN @ ELSE link]
  /\ gattLock' = [gattLock EXCEPT ![op[t].lock] = t]
  /\ Goto(t, "busy")
  /\ UNCHANGED <<links, notifying, listeners, notes, quiet, deaf>>

(* With the lock, the device is looked up again; only a discovery keeps the *)
(* one it has.                                                              *)
Lock(t) ==
  /\ pc[t] = "locking" /\ gattLock[op[t].lock] = None
  /\ IF op[t].kind # "discover" /\ link = 0 THEN Finish(t)
     ELSE /\ op' = [op EXCEPT ![t].target = IF op[t].kind = "discover" THEN @ ELSE link]
          /\ gattLock' = [gattLock EXCEPT ![op[t].lock] = t] /\ Goto(t, "busy")
  /\ UNCHANGED <<links, notifying, listeners, notes, quiet, deaf>>

Overtaken(t) == op[t].lock # op[t].target

(* What the device does with one characteristic. *)
Switched(k, c) == IF k = "subscribe" THEN notifying \cup {c} ELSE notifying \ {c}

Access(t) ==
  /\ pc[t] = "busy" /\ conn = op[t].target /\ op[t].left = {} /\ Finish(t)
  /\ UNCHANGED <<links, notifying, listeners, notes, quiet, deaf>>

(* After the last characteristic the link is looked up a third time, for its *)
(* listeners.                                                                *)
Switch(t) ==
  /\ pc[t] = "busy" /\ conn = op[t].target
  /\ \E c \in op[t].left :
       /\ notifying' = Switched(op[t].kind, c)
       /\ deaf' = CASE op[t].kind = "subscribe" -> deaf \ {c}
                    [] op[t].kind = "unsubscribe" /\ Overtaken(t) -> deaf \cup {c}
                    [] OTHER -> deaf
       /\ CASE op[t].left # {c} ->
                 op' = [op EXCEPT ![t].left = @ \ {c}] /\ UNCHANGED <<pc, gattLock>>
            [] op[t].left = {c} /\ link # 0 ->
                 /\ op' = [op EXCEPT ![t].left = {}, ![t].target = link]
                 /\ Goto(t, "listening") /\ UNCHANGED gattLock
            [] OTHER -> Finish(t)
  /\ UNCHANGED <<links, listeners, notes, quiet>>

(* Mutant: the lock outlives an operation that failed. *)
FailKeepingLock(t) ==
  /\ pc[t] = "busy"
  /\ deaf' = IF op[t].kind = "unsubscribe" /\ op[t].target = link THEN deaf \cup op[t].of ELSE deaf
  /\ Goto(t, "idle") /\ op' = [op EXCEPT ![t] = NoOp]
  /\ UNCHANGED <<links, notifying, gattLock, listeners, notes, quiet>>

(* The device refuses, is gone, or is too slow, and then may still do it. *)
Fail(t) ==
  /\ pc[t] = "busy"
  /\ \/ UNCHANGED notifying
     \/ conn = op[t].target /\ \E c \in op[t].left : notifying' = Switched(op[t].kind, c)
  /\ deaf' = IF op[t].kind = "unsubscribe" /\ op[t].target = link THEN deaf \cup op[t].of ELSE deaf
  /\ Finish(t)
  /\ UNCHANGED <<links, listeners, notes, quiet>>

(* Mutant: the listeners are copied before they are called. *)
ListenersCopied == TRUE

(* listen_notify holds the listeners while it calls them. *)
ListenersFree == running = None /\ calling = {}

(* A push to the listeners of a link that is gone has no effect. *)
Listen(t) ==
  /\ pc[t] = "listening" /\ op[t].kind = "subscribe"
  /\ op[t].target = link => ListenersFree
  /\ IF op[t].target # link THEN UNCHANGED <<listeners, quiet>>
     ELSE /\ listeners' = listeners \cup {[charac |-> c, on |-> op[t].lock] : c \in op[t].of}
          /\ quiet' = quiet \ op[t].of
  /\ Finish(t)
  /\ UNCHANGED <<links, notifying, notes, deaf>>

(* Mutant: the listeners stay, for a later subscribe. *)
StopListeningKeeping(t) ==
  /\ pc[t] = "listening" /\ op[t].kind = "unsubscribe"
  /\ op[t].target = link => ListenersFree
  /\ UNCHANGED listeners
  /\ quiet' = IF op[t].target # link THEN quiet ELSE quiet \cup op[t].of
  /\ Finish(t)
  /\ UNCHANGED <<links, notifying, notes, deaf>>

StopListening(t) ==
  /\ pc[t] = "listening" /\ op[t].kind = "unsubscribe"
  /\ op[t].target = link => ListenersFree
  /\ IF op[t].target # link THEN UNCHANGED <<listeners, quiet>>
     ELSE /\ listeners' = {l \in listeners : l.charac \notin op[t].of}
          /\ quiet' = quiet \cup op[t].of
  /\ Finish(t)
  /\ UNCHANGED <<links, notifying, notes, deaf>>

-----------------------------------------------------------------------------
(* Notifications. *)

Notify(c) ==
  /\ conn # 0 /\ conn = link /\ c \in notifying /\ note = None
  /\ note' = c
  /\ UNCHANGED <<links, notifying, gattLock, listeners, calling, running, pc, op, quiet, deaf>>

TakeNote ==
  /\ note # None /\ ListenersFree
  /\ calling' = {l \in listeners : l.charac = note} /\ note' = None
  /\ UNCHANGED <<links, notifying, gattLock, listeners, running, pc, op, quiet, deaf>>

(* A callback may begin an operation of its own. *)
StartCallback ==
  /\ running = None
  /\ \E l \in calling : running' = l /\ calling' = calling \ {l}
  /\ UNCHANGED <<pc, op>> \/ \E k \in CallbackKinds : Begin(Callback, k)
  /\ UNCHANGED <<links, notifying, gattLock, listeners, note, quiet, deaf>>

(* A callback ends once the operation it made, if any, has ended. *)
EndCallback ==
  /\ running # None /\ pc[Callback] = "idle" /\ running' = None
  /\ UNCHANGED <<links, notifying, gattLock, listeners, note, calling, pc, op, quiet, deaf>>

-----------------------------------------------------------------------------
AnswerOp(t) == Access(t) \/ Switch(t) \/ Fail(t)

Proceed(t) == Lock(t) \/ AnswerOp(t) \/ Listen(t) \/ StopListening(t)

RunCallbacks == TakeNote \/ StartCallback \/ EndCallback

StartOp(t) ==
  /\ \E k \in Kind : Begin(t, k)
  /\ UNCHANGED <<links, notifying, gattLock, listeners, notes, quiet, deaf>>

Next ==
  \/ Connect \/ Lose \/ Clear \/ Reuse \/ RunCallbacks
  \/ \E c \in Charac : Notify(c)
  \/ \E t \in Task : StartOp(t)
  \/ \E t \in Actor : Proceed(t)

Spec == Init /\ [][Next]_vars

(* The executor runs what is ready, every operation has a timeout, the event *)
(* of a lost device comes, and callbacks that make no operation end.  Tokio's *)
(* mutexes, gatt_lock and that of the listeners, are granted in turn.        *)
FairSpec ==
  /\ Spec /\ WF_vars(Clear) /\ WF_vars(RunCallbacks)
  /\ \A t \in Actor : WF_vars(Proceed(t))
  /\ \A t \in Actor : SF_vars(Lock(t) \/ Listen(t) \/ StopListening(t))

-----------------------------------------------------------------------------
(* Properties. *)

TypeOK ==
  /\ link \in 0 .. MaxLinks /\ conn \in 0 .. MaxLinks /\ count \in 0 .. MaxLinks
  /\ notifying \subseteq Charac
  /\ gattLock \in [LinkId -> Actor \cup {None}] /\ listeners \subseteq Listener
  /\ note \in Charac \cup {None} /\ calling \subseteq Listener /\ running \in Listener \cup {None}
  /\ pc \in [Actor -> Pc] /\ op \in [Actor -> Op]
  /\ \A t \in Actor : pc[t] # "idle" => op[t].target # 0
  /\ quiet \subseteq Charac /\ deaf \subseteq Charac

InFlight(t, l) == pc[t] = "busy" /\ op[t].target = l

\* "Only one read, write, subscription or discovery can be in flight per link"
\* (Link::gatt_lock).
OneOperationPerLink ==
  \A l \in LinkId, t, u \in Actor : InFlight(t, l) /\ InFlight(u, l) => t = u

\* Two operations are in flight on a link only if one of them waited for the
\* lock of an earlier link to the device.
OverlapNeedsReconnect ==
  \A l \in LinkId, t, u \in Actor :
    InFlight(t, l) /\ InFlight(u, l) /\ ~Overtaken(t) /\ ~Overtaken(u) => t = u

\* No callback runs for a characteristic after unsubscribe_from has returned Ok
\* for it, not even the one a notification had started.
NoCallbackAfterUnsubscribe == running # None => running.charac \notin quiet

\* The device notifies whoever listens: while no operation is under way, a
\* listener that was added to the link it subscribed on hears the device, unless
\* an unsubscribe returned an error, was overtaken by a new link, or was made in
\* a callback that another connect aborted.
ListenersAreHeard ==
  conn = link /\ link # 0 /\ (\A t \in Actor : pc[t] \in {"idle", "locking"}) =>
    \A l \in listeners : l.on = link => l.charac \in notifying \cup deaf

\* Every operation returns, whatever the device and the link do.
EveryOperationReturns == \A t \in Task : pc[t] # "idle" ~> pc[t] = "idle"

\* "The callback will be called whenever a notification is received, until the
\* device disconnects" (subscribe_to): no notification waits forever.
NotificationReachesListeners == note # None ~> note = None
=============================================================================
