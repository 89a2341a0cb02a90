----------------------------- MODULE FrontEnds -----------------------------
(***************************************************************************)
(* What front ends know of the connections: the handler's reports          *)
(* (send_connection_update, handler.rs), the mirror of the connected       *)
(* devices that the Dioxus hooks keep (dioxus-blec/src/lib.rs), and the    *)
(* Tauri commands that forward reports to a web view (commands.rs), which  *)
(* wait for Android's initialization (tauri-plugin-blec/src/lib.rs).       *)
(*                                                                         *)
(* The links are in BlecLinks.  Here a connect has just ended, with a link *)
(* to its device or without, and a link is lost at any time.               *)
(***************************************************************************)
EXTENDS Naturals, Sequences, FiniteSets

CONSTANTS
  Addr,        \* devices
  App,         \* tasks of a Dioxus app that connect and disconnect
  Pump,        \* the handler's event pump
  WebView,     \* web views that ask to be told
  Mirror,      \* the task that mirrors the connections
  Capacity,    \* bound: of the channels, which is 8 and 1 in the code
  MaxConnects, \* bound: connects made
  None

Actor == App \cup {Pump}
Listener == WebView \cup {Mirror}

ASSUME NameAssumption == Pump \notin App /\ Mirror \notin WebView /\ None \notin Actor \cup Addr
ASSUME AddrAssumption == Addr # {}
ASSUME BoundsAssumption == Capacity \in Nat \ {0} /\ MaxConnects \in Nat

VARIABLES
  initialized,  \* android_init: None until it ran, then whether it succeeded
  link, count,  \* the link to each device, or 0, and the connects made so far
  pc,           \* what each actor does
  at, read,     \* to which device, and the link it read about it
  after,        \* what it does after its next report
  lock,         \* who holds the state lock, or None
  left,         \* the listeners that each actor has yet to send its report to
  listening,    \* the listeners whose channels are registered
  channel,      \* what each has yet to receive
  mirror,       \* connected: the devices the app shows
  event, seen,  \* the device whose connect the mirror's task handles, and its link then
  view,         \* where each web view's command or forwarder is
  due,          \* reports made since each web view registered that it has yet to be told
  late,         \* devices the mirror got wrong: the last step on them came too late
  unread        \* devices and links that a connect could not read, nor anybody since

links == <<link, count>>
actors == <<pc, at, read, after>>
reports == <<lock, left>>
mirrored == <<mirror, event, seen, late, unread>>
views == <<view, due>>
vars == <<initialized, links, actors, reports, listening, channel, mirrored, views>>

Report == [addr : Addr, connected : BOOLEAN]
ActorPc == {"idle", "callback", "report", "close", "read", "record", "wait", "sync"}
ViewPc == {"new", "waiting", "register", "greet", "forwarding", "ended", "failed"}

Init ==
  /\ initialized = None
  /\ link = [a \in Addr |-> 0] /\ count = 0
  /\ pc = [t \in Actor |-> "idle"] /\ read = [t \in Actor |-> 0] /\ after = [t \in Actor |-> "idle"]
  /\ at = [t \in Actor |-> CHOOSE a \in Addr : TRUE]
  /\ lock = None /\ left = [t \in Actor |-> {}]
  /\ listening = {Mirror} /\ channel = [l \in Listener |-> <<>>]
  /\ mirror = {} /\ event = None /\ seen = 0 /\ late = {} /\ unread = {}
  /\ view = [v \in WebView |-> "new"] /\ due = [v \in WebView |-> <<>>]

Goto(t, where) == pc' = [pc EXCEPT ![t] = where]
Ready == initialized = TRUE

(* A step on the mirror for link l is late if l is not the device's link.    *)
MarkLate(a, l) == late' = IF link[a] = l THEN late \ {a} ELSE late \cup {a}

Show(a, l) == mirror' = mirror \cup {a} /\ MarkLate(a, l) /\ unread' = unread \ {<<a, l>>}
Hide(a) == mirror' = mirror \ {a} /\ MarkLate(a, 0) /\ UNCHANGED unread

-----------------------------------------------------------------------------
(* Ble::connect and Ble::disconnect_device. *)

(* t is about to do what where says, and then its report and what follows.   *)
Begin(t, a, where, then) ==
  /\ pc[t] = "idle" /\ Goto(t, where)
  /\ at' = [at EXCEPT ![t] = a] /\ after' = [after EXCEPT ![t] = then]

(* A connect ends when nobody else holds connect_lock: it is held until a    *)
(* connect has reported, and while one that failed clears its link.          *)
ConnectEnds ==
  /\ Ready /\ count < MaxConnects /\ count' = count + 1
  /\ \A u \in App : pc[u] \in {"callback", "report", "close", "wait"} => after[u] = "sync"

(* The handler has a link, new or kept, with the callback that removes the   *)
(* device from the mirror, and reports it before the next connect may begin. *)
Connect(t, a) ==
  /\ ConnectEnds /\ Begin(t, a, "report", "read")
  /\ link' = [link EXCEPT ![a] = IF @ = 0 THEN count + 1 ELSE @]
  /\ UNCHANGED <<initialized, read, reports, listening, channel, mirrored, views>>

(* A connect that fails clears its link, or the pump did.  No callback is in *)
(* a new link yet ...                                                        *)
FailNew(t, a, u) ==
  /\ ConnectEnds /\ pc[t] = "idle" /\ u \in {t, Pump} /\ Begin(u, a, "report", "idle")
  /\ link[a] = 0
  /\ UNCHANGED <<initialized, link, read, reports, listening, channel, mirrored, views>>

(* ... and one that was there before is cleared, or disconnected if its      *)
(* services cannot be found.                                                 *)
FailKept(t, a) ==
  /\ ConnectEnds /\ link[a] # 0
  /\ \/ Begin(t, a, "callback", "idle") /\ link' = [link EXCEPT ![a] = 0] /\ UNCHANGED read
     \/ Begin(t, a, "wait", "idle") /\ read' = [read EXCEPT ![t] = link[a]] /\ UNCHANGED link
  /\ UNCHANGED <<initialized, reports, listening, channel, mirrored, views>>

(* connection.device() looks the device up and then awaits its properties,   *)
(* which may fail: then the device is not recorded.                          *)
ReadDevice(t) ==
  LET l == link[at[t]] IN
  /\ pc[t] = "read"
  /\ \/ l = 0 /\ Goto(t, "idle") /\ UNCHANGED <<read, unread>>
     \/ l # 0 /\ Goto(t, "record") /\ read' = [read EXCEPT ![t] = l] /\ UNCHANGED unread
     \/ l # 0 /\ Goto(t, "idle") /\ unread' = unread \cup {<<at[t], l>>} /\ UNCHANGED read
  /\ UNCHANGED <<initialized, links, at, after, reports, listening, channel, mirror, event, seen, late, views>>

(* upsert_connected. *)
Record(t) ==
  /\ pc[t] = "record" /\ Goto(t, "idle") /\ Show(at[t], read[t])
  /\ UNCHANGED <<initialized, links, at, read, after, reports, listening, channel, event, seen, views>>

(* The link is to go, which disconnect_device waits for. *)
Disconnect(t, a) ==
  /\ Ready /\ link[a] # 0 /\ Begin(t, a, "wait", "sync") /\ read' = [read EXCEPT ![t] = link[a]]
  /\ UNCHANGED <<initialized, links, reports, listening, channel, mirrored, views>>

(* It is gone; whoever cleared it may still be about it if the wait timed    *)
(* out.  Or it was not up, or did not go in time: it is cleared here.        *)
Waited(t) ==
  /\ pc[t] = "wait"
  /\ IF link[at[t]] = read[t]
       THEN link' = [link EXCEPT ![at[t]] = 0] /\ Goto(t, "callback")
       ELSE Goto(t, after[t]) /\ UNCHANGED link
  /\ UNCHANGED <<initialized, count, at, read, after, reports, listening, channel, mirrored, views>>

(* The mirror drops every device without a link (sync_connected). *)
Sync(t) ==
  /\ pc[t] = "sync" /\ Goto(t, "idle")
  /\ mirror' = {a \in mirror : link[a] # 0} /\ late' = {a \in late : link[a] # 0}
  /\ UNCHANGED <<initialized, links, at, read, after, reports, listening, channel, event, seen, unread, views>>

-----------------------------------------------------------------------------
(* clear_link, of the pump for a link that is lost and of the above. *)

Lose(a) ==
  /\ link[a] # 0 /\ Begin(Pump, a, "callback", "idle") /\ link' = [link EXCEPT ![a] = 0]
  /\ UNCHANGED <<initialized, count, read, reports, listening, channel, mirrored, views>>

(* remove_connected. *)
Callback(t) ==
  /\ pc[t] = "callback" /\ Goto(t, "report") /\ Hide(at[t])
  /\ UNCHANGED <<initialized, links, at, read, after, reports, listening, channel, event, seen, views>>

-----------------------------------------------------------------------------
(* send_connection_update. *)

Value(t) == [addr |-> at[t], connected |-> after[t] = "read"]

BeginReport(t) ==
  /\ pc[t] = "report" /\ lock = None
  /\ lock' = t /\ left' = [left EXCEPT ![t] = listening] /\ Goto(t, "close")
  /\ due' = [v \in WebView |-> IF v \in listening THEN Append(due[v], Value(t)) ELSE due[v]]
  /\ UNCHANGED <<initialized, links, at, read, after, listening, channel, mirrored, view>>

(* Mutant: what cannot be sent at once is dropped. *)
SendOrDrop(t, l) ==
  /\ lock = t /\ l \in left[t]
  /\ left' = [left EXCEPT ![t] = @ \ {l}]
  /\ channel' = IF l \in listening /\ Len(channel[l]) < Capacity
                  THEN [channel EXCEPT ![l] = Append(@, Value(t))] ELSE channel
  /\ UNCHANGED <<initialized, links, actors, lock, listening, mirrored, views>>

(* Mutant: the channel has no bound. *)
SendAnyway(t, l) ==
  /\ lock = t /\ l \in left[t]
  /\ left' = [left EXCEPT ![t] = @ \ {l}]
  /\ channel' = IF l \in listening THEN [channel EXCEPT ![l] = Append(@, Value(t))] ELSE channel
  /\ UNCHANGED <<initialized, links, actors, lock, listening, mirrored, views>>

(* With the lock held, each listener is waited for.  One that is gone is     *)
(* dropped.                                                                  *)
Send(t, l) ==
  /\ lock = t /\ l \in left[t] /\ (l \in listening => Len(channel[l]) < Capacity)
  /\ left' = [left EXCEPT ![t] = @ \ {l}]
  /\ channel' = IF l \in listening THEN [channel EXCEPT ![l] = Append(@, Value(t))] ELSE channel
  /\ UNCHANGED <<initialized, links, actors, lock, listening, mirrored, views>>

EndReport(t) ==
  /\ pc[t] = "close" /\ lock = t /\ left[t] = {}
  /\ lock' = None /\ Goto(t, after[t])
  /\ UNCHANGED <<initialized, links, at, read, after, left, listening, channel, mirrored, views>>

-----------------------------------------------------------------------------
(* The mirror's task (Ble::start). *)

(* Mutant: a device is shown without looking it up. *)
TakeEventUnchecked ==
  /\ event = None /\ channel[Mirror] # <<>>
  /\ LET value == Head(channel[Mirror]) IN
     IF value.connected
       THEN event' = value.addr /\ seen' = link[value.addr] /\ UNCHANGED <<mirror, late, unread>>
       ELSE Hide(value.addr) /\ UNCHANGED <<event, seen>>
  /\ channel' = [channel EXCEPT ![Mirror] = Tail(@)]
  /\ UNCHANGED <<initialized, links, actors, reports, listening, views>>

(* It removes a device that is gone, or looks up one that is there and then  *)
(* awaits its properties, which may fail: then the device is not recorded.   *)
TakeEvent ==
  /\ event = None /\ channel[Mirror] # <<>>
  /\ LET value == Head(channel[Mirror]) IN
     \/ ~value.connected /\ Hide(value.addr) /\ UNCHANGED <<event, seen>>
     \/ /\ value.connected /\ link[value.addr] # 0
        /\ event' = value.addr /\ seen' = link[value.addr] /\ UNCHANGED <<mirror, late, unread>>
     \/ value.connected /\ UNCHANGED mirrored
  /\ channel' = [channel EXCEPT ![Mirror] = Tail(@)]
  /\ UNCHANGED <<initialized, links, actors, reports, listening, views>>

RecordEvent ==
  /\ event # None /\ Show(event, seen) /\ event' = None /\ seen' = 0
  /\ UNCHANGED <<initialized, links, actors, reports, listening, channel, views>>

-----------------------------------------------------------------------------
(* The Tauri commands connection_state and connection_events. *)

(* init_android, on the main thread. *)
InitAndroid ==
  /\ initialized = None /\ initialized' \in BOOLEAN
  /\ UNCHANGED <<links, actors, reports, listening, channel, mirrored, views>>

SetView(v, where) == view' = [view EXCEPT ![v] = where]

(* ready. *)
Check(v) ==
  /\ view[v] \in {"new", "waiting"}
  /\ \/ initialized = None /\ view[v] = "new" /\ SetView(v, "waiting")
     \/ initialized = None /\ view[v] = "waiting" /\ SetView(v, "failed")   \* in time
     \/ initialized = TRUE /\ SetView(v, "register")
     \/ initialized = FALSE /\ SetView(v, "failed")
  /\ UNCHANGED <<initialized, links, actors, reports, listening, channel, mirrored, due>>

Register(v) ==
  /\ view[v] = "register" /\ lock = None
  /\ listening' = listening \cup {v} /\ SetView(v, "greet")
  /\ UNCHANGED <<initialized, links, actors, reports, channel, mirrored, due>>

(* The web view is told the state there is, and then the forwarder starts. *)
Greet(v) ==
  /\ view[v] = "greet" /\ SetView(v, "forwarding")
  /\ UNCHANGED <<initialized, links, actors, reports, listening, channel, mirrored, due>>

(* Mutant: a forwarder that ends keeps its receiver. *)
ForwardHolding(v) ==
  /\ view[v] = "forwarding" /\ channel[v] # <<>>
  /\ \/ /\ channel' = [channel EXCEPT ![v] = Tail(@)] /\ due' = [due EXCEPT ![v] = Tail(@)]
        /\ UNCHANGED <<view, listening>>
     \/ SetView(v, "ended") /\ UNCHANGED <<due, channel, listening>>
  /\ UNCHANGED <<initialized, links, actors, reports, mirrored>>

(* The forwarder passes a report on, or ends because the web view is gone. *)
Forward(v) ==
  /\ view[v] = "forwarding" /\ channel[v] # <<>>
  /\ \/ /\ channel' = [channel EXCEPT ![v] = Tail(@)] /\ due' = [due EXCEPT ![v] = Tail(@)]
        /\ UNCHANGED <<view, listening>>
     \/ /\ SetView(v, "ended") /\ listening' = listening \ {v}
        /\ channel' = [channel EXCEPT ![v] = <<>>] /\ due' = [due EXCEPT ![v] = <<>>]
  /\ UNCHANGED <<initialized, links, actors, reports, mirrored>>

-----------------------------------------------------------------------------
Step(t) ==
  \/ ReadDevice(t) \/ Record(t) \/ Waited(t) \/ Sync(t)
  \/ Callback(t) \/ BeginReport(t) \/ EndReport(t)
  \/ \E l \in Listener : Send(t, l)
MirrorStep == TakeEvent \/ RecordEvent
ViewStep(v) == Check(v) \/ Register(v) \/ Greet(v) \/ Forward(v)

Next ==
  \/ \E t \in App, a \in Addr : Connect(t, a) \/ FailKept(t, a) \/ Disconnect(t, a)
  \/ \E t \in App, a \in Addr : \E u \in {t, Pump} : FailNew(t, a, u)
  \/ \E a \in Addr : Lose(a)
  \/ \E t \in Actor : Step(t)
  \/ MirrorStep \/ InitAndroid
  \/ \E v \in WebView : ViewStep(v)

Spec == Init /\ [][Next]_vars

(* Tasks that are ready run, Tokio grants a mutex and room in a channel in   *)
(* turn, and a wait for a disconnect times out.                              *)
FairSpec ==
  /\ Spec
  /\ \A t \in Actor : SF_vars(Step(t))
  /\ WF_vars(MirrorStep)
  /\ \A v \in WebView : SF_vars(ViewStep(v))

-----------------------------------------------------------------------------
(* Properties. *)

TypeOK ==
  /\ initialized \in BOOLEAN \cup {None}
  /\ link \in [Addr -> 0 .. MaxConnects] /\ count \in 0 .. MaxConnects
  /\ pc \in [Actor -> ActorPc] /\ at \in [Actor -> Addr] /\ read \in [Actor -> 0 .. MaxConnects]
  /\ after \in [Actor -> {"idle", "read", "sync"}]
  /\ lock \in Actor \cup {None} /\ left \in [Actor -> SUBSET Listener]
  /\ listening \subseteq Listener
  /\ channel \in [Listener -> Seq(Report)] /\ \A l \in Listener : Len(channel[l]) <= Capacity
  /\ mirror \subseteq Addr /\ event \in Addr \cup {None} /\ seen \in 0 .. MaxConnects
  /\ view \in [WebView -> ViewPc] /\ due \in [WebView -> Seq(Report)]
  /\ late \subseteq Addr /\ unread \subseteq Addr \X (1 .. MaxConnects)

\* A web view that stays is yet to be told just what is under way to it: every
\* report made since it registered reaches it, in the order they were made.
EveryReportIsHeard ==
  \A v \in listening \ {Mirror} :
    due[v] = channel[v] \o (IF lock # None /\ v \in left[lock] THEN <<Value(lock)>> ELSE <<>>)

Quiet == (\A t \in Actor : pc[t] = "idle") /\ channel[Mirror] = <<>> /\ event = None

\* When all is quiet the app shows the devices that are connected.  A device on
\* which the last step came too late is excepted: a connect that had read it
\* before the link was lost, or an event or callback of a link already replaced.
\* And one may be missing whose connect could not read it, if nobody read it since.
\* (The documentation of connected_devices excepts neither, README 3.2.)
MirrorIsCurrent ==
  Quiet => \A a \in Addr \ late :
             IF a \in mirror THEN link[a] # 0 ELSE link[a] = 0 \/ <<a, link[a]>> \in unread

\* No report waits for ever for the lock or for a listener, so every connect and
\* disconnect returns; and a command ends even if Android is never initialized.
EveryReportEnds ==
  /\ \A t \in Actor : pc[t] # "idle" ~> pc[t] = "idle"
  /\ \A v \in WebView : view[v] \in {"waiting", "register"} ~> view[v] \notin {"waiting", "register"}
=============================================================================
