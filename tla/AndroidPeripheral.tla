------------------------- MODULE AndroidPeripheral -------------------------
(***************************************************************************)
(* One device on Android: the Peripheral of android/mod.rs, whose methods  *)
(* call Kotlin, BlecPlugin.kt, which keeps a Kotlin Peripheral for the     *)
(* address, and Peripheral.kt, which drives Android's Bluetooth stack.     *)
(*                                                                         *)
(* Three kinds of threads run here: those of Rust, which call into Kotlin, *)
(* the main looper, which runs what is posted, and those on which the      *)
(* stack reports.  A client is a BluetoothGatt: an interface to the stack  *)
(* that holds the link until it is closed.  Writes are in WriteQueue.      *)
(***************************************************************************)
EXTENDS Naturals, Sequences, FiniteSets

CONSTANTS
  Connector,    \* the task that holds connect_lock, if any: connects, disconnects and discovers
  Stopper,      \* tasks that disconnect
  User,         \* tasks that read and subscribe
  GivesUp,      \* those of them that may stop waiting for an answer
  MaxClients,   \* bound: clients opened
  MaxCalls,     \* bound: calls into Kotlin
  MaxAttempts,  \* maxConnectAttempts and maxAttempts
  MaxDisconnects, \* bound: disconnects under way at a time
  None

ASSUME BoundsAssumption == {MaxClients, MaxCalls, MaxAttempts, MaxDisconnects} \subseteq Nat
ASSUME CallerAssumption ==
  /\ Connector \cap Stopper = {} /\ (Connector \cup Stopper) \cap User = {}
  /\ GivesUp \subseteq Connector \cup Stopper \cup User
ASSUME LockAssumption == \A s, t \in Connector : s = t

Caller == Connector \cup Stopper \cup User
Client == 1 .. MaxClients
CallId == 1 .. MaxCalls
Object == 1 .. 2   \* Kotlin Peripherals of the address; the bound is two
Slot == {"discover", "mtu", "access"}   \* onServicesDiscovered, onMtuInvoke, the other two

VARIABLES
  client, owner,   \* the state of each client, and for which Peripheral and call it was opened
  gatt, pending,   \* the client each Peripheral uses, and the one it is opening, or 0
  connected,       \* what isConnected says
  onChange,        \* the call that waits for the connection to change, or None
  attempts, tries, \* connectAttempts and discoverAttempts
  slot,            \* the call that waits for each kind of operation, or 0
  services,        \* the client whose services each Peripheral read last
  registered,      \* connected_devices: the Peripheral of the address, or 0
  found,           \* devices: the Peripheral a scan found
  disconnecting,   \* disconnects that have read gatt, and done nothing about it yet
  cut,             \* calls of connect that a disconnect did not wait for
  raced,           \* calls of connect that another one overlapped
  refused,         \* calls that discover, which the stack refused to discover again for
  queue, timers,   \* what the main looper runs next, and what it runs after some delay
  looper,          \* the operation it is in the middle of, or None
  inStack,         \* operations the stack has accepted
  answer,          \* the answer to each call
  pc, doing,       \* what each caller does, and the call it waits for
  cache            \* SERVICES: the client whose services are cached, or 0

stack == <<client, owner, inStack>>
peripheral == <<gatt, pending, connected, onChange, attempts, tries, slot, services>>
history == <<cut, raced, refused>>
plugin == <<registered, found, disconnecting, history>>
main == <<queue, timers, looper>>
callers == <<pc, doing, cache>>
vars == <<stack, peripheral, plugin, main, answer, callers>>

Post(kind, o, c, call, n) == [kind |-> kind, obj |-> o, client |-> c, call |-> call, attempt |-> n]
Task ==
  [kind : Slot \cup {"open", "close", "cancel", "retry", "again", "rediscover", "fallback", "disconnect"},
   obj : Object, client : 0 .. MaxClients, call : 0 .. MaxCalls, attempt : 0 .. MaxAttempts]
Waiter == [kind : {"connect", "disconnect"}, call : CallId]
NoCalls == [k \in Slot |-> 0]

ASSUME NoneAssumption == None \notin Waiter \cup Task

Init ==
  /\ client = [c \in Client |-> "unused"] /\ owner = [c \in Client |-> [obj |-> 1, call |-> 0]] /\ inStack = {}
  /\ gatt = [o \in Object |-> 0] /\ pending = [o \in Object |-> 0]
  /\ connected = [o \in Object |-> FALSE] /\ onChange = [o \in Object |-> None]
  /\ attempts = [o \in Object |-> 0] /\ tries = [o \in Object |-> 0] /\ slot = [o \in Object |-> NoCalls]
  /\ services = [o \in Object |-> 0]
  /\ registered = 0 /\ found = 1 /\ disconnecting = {}
  /\ cut = {} /\ raced = {} /\ refused = {} /\ queue = <<>> /\ timers = {} /\ looper = None
  /\ answer = [i \in CallId |-> "none"]
  /\ pc = [t \in Caller |-> "idle"] /\ doing = [t \in Caller |-> 0] /\ cache = 0

HasGatt(o) == gatt[o] # 0 \/ pending[o] # 0

(* The calls in good are resolved and those in bad rejected, unless they     *)
(* were answered before: the bridge forgets a call with its first answer.    *)
Answer(good, bad) ==
  answer' = [i \in CallId |-> IF answer[i] # "open" THEN answer[i]
                              ELSE IF i \in good THEN "ok" ELSE IF i \in bad THEN "failed" ELSE "open"]

(* failPendingOperations. *)
Waiting(o) == {slot[o][k] : k \in Slot} \ {0}

Live(c) == client[c] \in {"opening", "open", "closing"}

Connects(o) == onChange[o] # None /\ onChange[o].kind = "connect"

(* The calls of connect that are under way or made a link, but for client c.  *)
UnderWay(c) ==
  {queue[n].call : n \in {m \in DOMAIN queue : queue[m].kind = "open"}}
  \cup {p.call : p \in {q \in timers : q.kind = "retry"}}
  \cup {owner[d].call : d \in {e \in Client : Live(e) /\ e # c}}

(* onComplete of a disconnect that closed client c, or none. *)
Forget(c) == registered' = 0 /\ cut' = cut \cup UnderWay(c)

-----------------------------------------------------------------------------
(* Calls into Kotlin. *)

NewCall(t, where, i) ==
  /\ i \in CallId /\ answer[i] = "none" /\ \A j \in 1 .. i - 1 : answer[j] # "none"
  /\ pc' = [pc EXCEPT ![t] = where] /\ doing' = [doing EXCEPT ![t] = i]

Opened(i, result) == answer' = [answer EXCEPT ![i] = result]

(* The Peripheral that connect uses: never another than one with a client. *)
Chosen == IF registered # 0 /\ HasGatt(registered) THEN registered ELSE found

(* Mutant: the services of the last link stay. *)
KeepServices == UNCHANGED cache

ForgetServices == cache' = 0

Connect(t, i) ==
  /\ t \in Connector /\ pc[t] = "idle" /\ NewCall(t, "connect", i)
  /\ ForgetServices /\ registered' = Chosen
  /\ IF connected[Chosen] /\ gatt[Chosen] # 0
       THEN Opened(i, "ok") /\ UNCHANGED <<onChange, attempts, queue, raced>>
       ELSE /\ Opened(i, "open")
            /\ attempts' = [attempts EXCEPT ![Chosen] = 0]
            /\ onChange' = [onChange EXCEPT ![Chosen] = [kind |-> "connect", call |-> i]]
            /\ queue' = Append(queue, Post("open", Chosen, 0, i, 0))
            /\ raced' = raced \cup IF UnderWay(0) = {} THEN {} ELSE UnderWay(0) \cup {i}
  /\ UNCHANGED <<stack, gatt, pending, connected, tries, slot, services, found, disconnecting,
                 cut, refused, timers, looper>>

(* disconnect reads which client there is.  What it does then comes later: on  *)
(* other threads the link may go, and another be made, in between.           *)
Disconnect(t, i) ==
  /\ t \notin User /\ pc[t] = "idle" /\ NewCall(t, "disconnect", i)
  /\ Cardinality({u \in Caller : pc[u] = "disconnect"}) < MaxDisconnects
  /\ ForgetServices
  /\ IF registered = 0
       THEN Opened(i, "failed") /\ UNCHANGED disconnecting
       ELSE /\ Opened(i, "open")
            /\ disconnecting' = disconnecting \cup {Post("disconnect", registered, gatt[registered], i, 0)}
  /\ UNCHANGED <<stack, peripheral, registered, found, history, main>>

(* A waiter of connect that the disconnect replaces. *)
Displaced(o) == IF Connects(o) THEN {onChange[o].call} ELSE {}

(* There was no client: one that is still to open is cancelled, and the      *)
(* Peripheral is forgotten.                                                  *)
DisconnectUnused(p) ==
  LET o == p.obj IN
  /\ p \in disconnecting /\ p.client = 0 /\ disconnecting' = disconnecting \ {p}
  /\ connected' = [connected EXCEPT ![o] = FALSE] /\ pending' = [pending EXCEPT ![o] = 0]
  /\ queue' = IF pending[o] = 0 THEN queue ELSE Append(queue, Post("cancel", o, pending[o], p.call, 0))
  /\ slot' = [slot EXCEPT ![o] = NoCalls]
  /\ Answer({p.call}, Waiting(o)) /\ Forget(0)
  /\ UNCHANGED <<stack, gatt, onChange, attempts, tries, services, found, raced, refused,
                 timers, looper, callers>>

(* Mutant: the Peripheral is forgotten before its client is closed. *)
DisconnectForgotten(p) ==
  LET o == p.obj IN
  /\ p \in disconnecting /\ p.client # 0 /\ disconnecting' = disconnecting \ {p}
  /\ onChange' = [onChange EXCEPT ![o] = [kind |-> "disconnect", call |-> p.call]]
  /\ cut' = cut \cup Displaced(o) /\ registered' = 0
  /\ timers' = timers \cup {[p EXCEPT !.kind = "fallback"]}
  /\ queue' = Append(queue, [p EXCEPT !.kind = "close"])
  /\ UNCHANGED <<stack, gatt, pending, connected, attempts, tries, slot, services, found,
                 raced, refused, looper, answer, callers>>

(* Or one: it is closed and the answer waits for that. *)
DisconnectUsed(p) ==
  LET o == p.obj IN
  /\ p \in disconnecting /\ p.client # 0 /\ disconnecting' = disconnecting \ {p}
  /\ onChange' = [onChange EXCEPT ![o] = [kind |-> "disconnect", call |-> p.call]]
  /\ cut' = cut \cup Displaced(o)
  /\ timers' = timers \cup {[p EXCEPT !.kind = "fallback"]}
  /\ queue' = Append(queue, [p EXCEPT !.kind = "close"])
  /\ UNCHANGED <<stack, gatt, pending, connected, attempts, tries, slot, services, registered,
                 found, raced, refused, looper, answer, callers>>

(* discoverServices and requestMtu keep the call before they post.  A call   *)
(* that asks for the MTU displaces another; one that discovers forgets it.   *)
Operate(t, k, i) ==
  LET o == registered
      startable == o # 0 /\ (k = "discover" => gatt[o] # 0)
      displaced == IF k = "mtu" THEN {slot[o][k]} ELSE {}
  IN /\ NewCall(t, k, i)
     /\ IF startable
          THEN /\ queue' = Append(queue, Post(k, o, IF k = "discover" THEN gatt[o] ELSE 0, i, 0))
               /\ slot' = IF k = "access" THEN slot ELSE [slot EXCEPT ![o][k] = i]
               /\ tries' = IF k = "discover" THEN [tries EXCEPT ![o] = 0] ELSE tries
               /\ answer' = [j \in CallId |-> IF j = i THEN "open"
                                              ELSE IF answer[j] = "open" /\ j \in displaced THEN "failed" ELSE answer[j]]
          ELSE Opened(i, "failed") /\ UNCHANGED <<queue, slot, tries>>
     /\ UNCHANGED <<stack, gatt, pending, connected, onChange, attempts, services, plugin, timers, looper, cache>>

StartOperation(t, i) ==
  t \notin Stopper /\ pc[t] = "idle" /\ Operate(t, IF t \in Connector THEN "discover" ELSE "access", i)

-----------------------------------------------------------------------------
(* What the callers do with the answers. *)

(* connect asks for the MTU; discover_services reads what was discovered. *)
RequestMtu(t, i) == pc[t] = "connect" /\ answer[doing[t]] = "ok" /\ Operate(t, "mtu", i)

Fetch(t) ==
  /\ pc[t] = "discover" /\ answer[doing[t]] = "ok"
  /\ pc' = [pc EXCEPT ![t] = IF registered = 0 THEN "idle" ELSE "fetched"]
  /\ doing' = [doing EXCEPT ![t] = IF registered = 0 THEN 0 ELSE services[registered]]
  /\ UNCHANGED <<stack, peripheral, plugin, main, answer, cache>>

Keep(t) ==
  /\ pc[t] = "fetched" /\ cache' = doing[t]
  /\ pc' = [pc EXCEPT ![t] = "idle"] /\ doing' = [doing EXCEPT ![t] = 0]
  /\ UNCHANGED <<stack, peripheral, plugin, main, answer>>

(* A call ends, answered or not.  REQUESTED_MTU may be 0. *)
Return(t) ==
  /\ pc[t] \notin {"idle", "fetched"}
  /\ \/ answer[doing[t]] = "failed"
     \/ answer[doing[t]] = "ok" /\ pc[t] # "discover"
     \/ answer[doing[t]] = "open" /\ t \in GivesUp /\ \A p \in disconnecting : p.call # doing[t]
  /\ pc' = [pc EXCEPT ![t] = "idle"] /\ doing' = [doing EXCEPT ![t] = 0]
  /\ UNCHANGED <<stack, peripheral, plugin, main, answer, cache>>

(* A scan sees the device again: a Peripheral in use stays the one found. *)
Advertise ==
  /\ IF registered # 0 THEN found' = registered
     ELSE \E o \in Object \ {found} : found' = o /\ ~HasGatt(o) /\ onChange[o] = None
                                      /\ \A p \in timers \cup disconnecting \cup {queue[n] : n \in DOMAIN queue} : p.obj # o
  /\ UNCHANGED <<stack, peripheral, registered, disconnecting, history, main, answer, callers>>

-----------------------------------------------------------------------------
(* The main looper. *)

Due(p) == looper = None /\ queue # <<>> /\ p = Head(queue) /\ queue' = Tail(queue)
Elapsed(p) == looper = None /\ p \in timers /\ timers' = timers \ {p}

(* connectGatt, or the exception it throws. *)
OpenClient(p) ==
  /\ p.kind = "open" /\ Due(p)
  /\ \/ \E c \in Client :
          /\ client[c] = "unused" /\ \A d \in 1 .. c - 1 : client[d] # "unused"
          /\ client' = [client EXCEPT ![c] = "opening"] /\ owner' = [owner EXCEPT ![c] = [obj |-> p.obj, call |-> p.call]]
          /\ pending' = [pending EXCEPT ![p.obj] = c]
          /\ UNCHANGED <<onChange, answer>>
     \/ /\ onChange' = [onChange EXCEPT ![p.obj] = None] /\ Answer({}, {p.call})
        /\ UNCHANGED <<client, owner, pending>>
  /\ UNCHANGED <<inStack, gatt, connected, attempts, tries, slot, services, plugin, timers, looper, callers>>

(* connectInternal, again. *)
Retry(p) ==
  /\ p.kind = "retry" /\ Elapsed(p)
  /\ onChange' = [onChange EXCEPT ![p.obj] = [kind |-> "connect", call |-> p.call]]
  /\ queue' = Append(queue, Post("open", p.obj, 0, p.call, 0))
  /\ UNCHANGED <<stack, gatt, pending, connected, attempts, tries, slot, services, plugin, looper, answer, callers>>

(* startRead and startDescriptorWrite, again. *)
TryAgain(p) ==
  /\ p.kind = "again" /\ Elapsed(p)
  /\ queue' = Append(queue, [p EXCEPT !.kind = "access"])
  /\ UNCHANGED <<stack, peripheral, plugin, looper, answer, callers>>

(* Mutant: a client is closed before the stack says that its link is. *)
CloseEarly(p) ==
  /\ p.kind \in {"close", "cancel"} /\ Due(p)
  /\ client' = [client EXCEPT ![p.client] = "closed"]
  /\ UNCHANGED <<owner, inStack, peripheral, plugin, timers, looper, answer, callers>>

(* disconnect of a client, and what cancels one that is still to open. *)
CloseClient(p) ==
  /\ p.kind \in {"close", "cancel"} /\ Due(p)
  /\ client' = [client EXCEPT ![p.client] =
                  IF p.kind = "cancel" THEN "closed" ELSE IF @ = "open" THEN "closing" ELSE @]
  /\ UNCHANGED <<owner, inStack, peripheral, plugin, timers, looper, answer, callers>>

(* Mutant: nothing is done when the stack never reports. *)
FallbackNever(p) ==
  /\ p.kind = "fallback" /\ Elapsed(p)
  /\ UNCHANGED <<stack, peripheral, plugin, queue, looper, answer, callers>>

(* The stack has not reported the disconnect in time. *)
Fallback(p) ==
  /\ p.kind = "fallback" /\ Elapsed(p)
  /\ IF answer[p.call] = "open"
       THEN /\ gatt' = [gatt EXCEPT ![p.obj] = 0] /\ connected' = [connected EXCEPT ![p.obj] = FALSE]
            /\ client' = [client EXCEPT ![p.client] = "closed"]
            /\ onChange' = [onChange EXCEPT ![p.obj] = None]
            /\ slot' = [slot EXCEPT ![p.obj] = NoCalls]
            /\ Answer({p.call}, Waiting(p.obj)) /\ Forget(p.client)
       ELSE UNCHANGED <<gatt, connected, client, onChange, slot, answer, registered, cut>>
  /\ UNCHANGED <<owner, inStack, pending, attempts, tries, services, found, disconnecting,
                 raced, refused, queue, looper, callers>>

(* onServicesDiscovered, after the delay of a retry: the stack is asked      *)
(* again, and whether it accepts is not looked at.                           *)
Rediscover(p) ==
  LET i == slot[p.obj].discover IN
  /\ p.kind = "rediscover" /\ Elapsed(p)
  /\ \/ /\ connected[p.obj] /\ client[p.client] = "open"
        /\ inStack' = inStack \cup {[client |-> p.client, kind |-> "discover", attempt |-> 0]}
        /\ UNCHANGED <<tries, slot, refused, answer>>
     \/ /\ connected[p.obj] /\ refused' = refused \cup ({i} \ {0})
        /\ UNCHANGED <<inStack, tries, slot, answer>>
     \/ /\ ~connected[p.obj] /\ Answer({}, {i})
        /\ slot' = [slot EXCEPT ![p.obj].discover = 0] /\ tries' = [tries EXCEPT ![p.obj] = 0]
        /\ UNCHANGED <<inStack, refused>>
  /\ UNCHANGED <<client, owner, gatt, pending, connected, onChange, attempts, services, registered,
                 found, disconnecting, cut, raced, queue, looper, callers>>

(* An operation first reads which client there is. *)
ReadGatt(p) ==
  LET g == IF p.kind = "discover" THEN p.client ELSE gatt[p.obj] IN
  /\ p.kind \in Slot /\ Due(p)
  /\ IF g = 0
       THEN /\ Answer({}, {p.call}) /\ UNCHANGED looper
            /\ slot' = IF p.kind = "mtu" THEN [slot EXCEPT ![p.obj].mtu = 0] ELSE slot
       ELSE looper' = [p EXCEPT !.client = g] /\ UNCHANGED <<answer, slot>>
  /\ UNCHANGED <<stack, gatt, pending, connected, onChange, attempts, tries, services, plugin, timers, callers>>

(* The stack accepts it. *)
Accept ==
  /\ looper # None /\ client[looper.client] = "open"
  /\ inStack' = inStack \cup {[client |-> looper.client, kind |-> looper.kind, attempt |-> looper.attempt]}
  /\ IF looper.kind = "access"
       THEN /\ slot' = [slot EXCEPT ![looper.obj].access = looper.call]
            /\ Answer({}, {slot[looper.obj].access})
       ELSE UNCHANGED <<slot, answer>>
  /\ looper' = None
  /\ UNCHANGED <<client, owner, gatt, pending, connected, onChange, attempts, tries, services, plugin, queue, timers, callers>>

(* Or it refuses, as it does for a client that is closed. *)
Refuse ==
  /\ looper # None /\ looper' = None
  /\ LET o == looper.obj
         again == looper.kind = "access" /\ looper.attempt < MaxAttempts
     IN /\ slot' = IF looper.kind = "discover" THEN slot ELSE [slot EXCEPT ![o][looper.kind] = 0]
        /\ timers' = timers \cup IF again THEN {Post("again", o, 0, looper.call, looper.attempt + 1)} ELSE {}
        /\ Answer({}, (IF again THEN {} ELSE {looper.call})
                      \cup (IF looper.kind = "access" THEN {slot[o].access} ELSE {}))
  /\ UNCHANGED <<stack, gatt, pending, connected, onChange, attempts, tries, services, plugin, queue, callers>>

-----------------------------------------------------------------------------
(* What the stack reports. *)

(* onConnectionStateChange: the client is open. *)
Up(c) ==
  LET o == owner[c].obj IN
  /\ client[c] = "opening" /\ client' = [client EXCEPT ![c] = "open"]
  /\ connected' = [connected EXCEPT ![o] = TRUE]
  /\ gatt' = [gatt EXCEPT ![o] = c] /\ pending' = [pending EXCEPT ![o] = 0]
  /\ onChange' = [onChange EXCEPT ![o] = None]
  /\ IF onChange[o] = None THEN UNCHANGED <<answer, slot, registered, cut>>
     ELSE IF onChange[o].kind = "connect"
       THEN Answer({onChange[o].call}, {}) /\ UNCHANGED <<slot, registered, cut>>
       ELSE /\ Answer({onChange[o].call}, Waiting(o))
            /\ slot' = [slot EXCEPT ![o] = NoCalls] /\ Forget(0)
  /\ UNCHANGED <<owner, inStack, attempts, tries, services, found, disconnecting, raced, refused,
                 main, callers>>

(* Mutant: attempts to connect are not counted. *)
AnotherAttemptAlways(o) == Connects(o)

AnotherAttempt(o) == Connects(o) /\ attempts[o] < MaxAttempts

(* Or it could not be opened, which may be worth another attempt, or its     *)
(* link is lost or closed.  The Peripheral closes the client it has.         *)
Down(c, transient) ==
  LET o == owner[c].obj
      w == onChange[o]
      mine == IF gatt[o] # 0 THEN gatt[o] ELSE IF pending[o] # 0 THEN pending[o] ELSE c
      again == transient /\ AnotherAttempt(o)
      disconnects == w # None /\ w.kind = "disconnect"
  IN /\ client[c] \in {"opening", "open", "closing"}
     /\ client' = [client EXCEPT ![c] = "lost", ![mine] = "closed"]
     /\ gatt' = [gatt EXCEPT ![o] = 0] /\ pending' = [pending EXCEPT ![o] = 0]
     /\ connected' = [connected EXCEPT ![o] = FALSE]
     /\ attempts' = [attempts EXCEPT ![o] = IF again THEN @ + 1 ELSE @]
     /\ onChange' = [onChange EXCEPT ![o] = IF again THEN @ ELSE None]
     /\ timers' = timers \cup IF again THEN {Post("retry", o, 0, w.call, 0)} ELSE {}
     /\ slot' = [slot EXCEPT ![o] = NoCalls]
     /\ Answer(IF disconnects THEN {w.call} ELSE {},
               Waiting(o) \cup IF Connects(o) /\ ~again THEN {w.call} ELSE {})
     /\ IF disconnects THEN Forget(c) ELSE UNCHANGED <<registered, cut>>
     /\ inStack' = {s \in inStack : s.client # c /\ s.client # mine}
     /\ UNCHANGED <<owner, tries, services, found, disconnecting, raced, refused, queue, looper, callers>>

(* An operation ends.  Its callback answers whoever waits for its kind, and  *)
(* an access or a discovery that failed may be tried again.                  *)
Complete(s) ==
  LET o == owner[s.client].obj
      i == slot[o][s.kind]
      result == IF s.kind = "discover" THEN [services EXCEPT ![o] = s.client] ELSE services
      nothing == IF s.kind = "discover" THEN [services EXCEPT ![o] = 0] ELSE services
      anew == IF s.kind = "discover" THEN [tries EXCEPT ![o] = 0] ELSE tries
  IN /\ client[s.client] = "open" /\ inStack' = inStack \ {s}
     /\ \/ /\ Answer({i}, {}) /\ services' = result /\ tries' = anew
           /\ slot' = [slot EXCEPT ![o][s.kind] = 0] /\ UNCHANGED timers
        \/ /\ s.kind = "access" /\ i # 0 /\ s.attempt < MaxAttempts
           /\ timers' = timers \cup {Post("again", o, 0, i, s.attempt + 1)}
           /\ slot' = [slot EXCEPT ![o].access = 0] /\ UNCHANGED <<answer, services, tries>>
        \/ /\ s.kind = "discover" /\ tries[o] < MaxAttempts
           /\ tries' = [tries EXCEPT ![o] = @ + 1]
           /\ timers' = timers \cup {Post("rediscover", o, s.client, 0, 0)}
           /\ UNCHANGED <<answer, services, slot>>
        \/ /\ Answer({}, {i}) /\ services' = nothing /\ tries' = anew
           /\ slot' = [slot EXCEPT ![o][s.kind] = 0] /\ UNCHANGED timers
     /\ UNCHANGED <<client, owner, gatt, pending, connected, onChange, attempts, plugin, queue, looper, callers>>

-----------------------------------------------------------------------------
Begin(t, i) == Connect(t, i) \/ Disconnect(t, i) \/ StartOperation(t, i)
Proceed(t) == Fetch(t) \/ Keep(t) \/ Return(t) \/ \E i \in CallId : RequestMtu(t, i)
RunDue == queue # <<>> /\ LET p == Head(queue) IN OpenClient(p) \/ CloseClient(p) \/ ReadGatt(p)
RunTimer(p) == Retry(p) \/ TryAgain(p) \/ Rediscover(p) \/ Fallback(p)
GoOn(p) == DisconnectUnused(p) \/ DisconnectUsed(p)
Report(c) ==
  \/ Up(c) \/ \E transient \in BOOLEAN : Down(c, transient)
  \/ \E s \in inStack : s.client = c /\ Complete(s)

Next ==
  \/ \E t \in Caller : (\E i \in CallId : Begin(t, i)) \/ Proceed(t)
  \/ RunDue \/ (\E p \in timers : RunTimer(p)) \/ (\E p \in disconnecting : GoOn(p))
  \/ Accept \/ Refuse \/ Advertise
  \/ \E c \in Client : Report(c)

Spec == Init /\ [][Next]_vars

(* Threads go on; the main looper runs what is posted; the stack ends the operations it     *)
(* accepts and the attempts to connect, unless they are cancelled.  It may   *)
(* keep a link for ever, and may never report that one was closed.           *)
FairSpec ==
  /\ Spec
  /\ WF_vars(RunDue \/ Accept \/ Refuse)
  /\ WF_vars(\E p \in timers : RunTimer(p))
  /\ WF_vars(\E p \in disconnecting : GoOn(p))
  /\ \A c \in Client : WF_vars(client[c] = "opening" /\ Report(c))
  /\ \A c \in Client : WF_vars(\E s \in inStack : s.client = c /\ Complete(s))

-----------------------------------------------------------------------------
(* Properties. *)

TypeOK ==
  /\ client \in [Client -> {"unused", "opening", "open", "closing", "lost", "closed"}]
  /\ owner \in [Client -> [obj : Object, call : 0 .. MaxCalls]]
  /\ gatt \in [Object -> 0 .. MaxClients] /\ pending \in [Object -> 0 .. MaxClients]
  /\ connected \in [Object -> BOOLEAN] /\ onChange \in [Object -> Waiter \cup {None}]
  /\ attempts \in [Object -> 0 .. MaxAttempts] /\ tries \in [Object -> 0 .. MaxAttempts]
  /\ slot \in [Object -> [Slot -> 0 .. MaxCalls]]
  /\ services \in [Object -> 0 .. MaxClients]
  /\ registered \in 0 .. 2 /\ found \in Object /\ disconnecting \subseteq Task
  /\ cut \subseteq 0 .. MaxCalls /\ raced \subseteq 0 .. MaxCalls /\ refused \subseteq CallId
  /\ queue \in Seq(Task) /\ timers \subseteq Task /\ looper \in Task \cup {None}
  /\ inStack \subseteq [client : Client, kind : Slot, attempt : 0 .. MaxAttempts]
  /\ answer \in [CallId -> {"none", "open", "ok", "failed"}]
  /\ pc \in [Caller -> {"idle", "connect", "disconnect", "fetched"} \cup Slot]
  /\ doing \in [Caller -> 0 .. MaxCalls + MaxClients] /\ cache \in 0 .. MaxClients

InReach(c) ==
  \/ registered # 0 /\ c \in {gatt[registered], pending[registered]}
  \/ \E n \in DOMAIN queue : queue[n].kind = "cancel" /\ queue[n].client = c

\* No link is out of reach (the comments in BlecPlugin.kt's connect and
\* disconnect): every client that is not closed belongs to the Peripheral that
\* the address names, so that a disconnect finds it, or is about to be closed.
\* The exceptions are the clients of connects that were under way when a
\* disconnect of another client, or of none, ended, or that another connect
\* overlapped.
NoClientOutOfReach ==
  \A c \in Client : Live(c) => InReach(c) \/ owner[c].call \in cut \cup raced

\* "A Peripheral that still holds a BluetoothGatt must be reused" lest a gatt
\* leaks (BlecPlugin.kt 140-142): whatever is connected again and again, only a
\* disconnect can leave a client behind that nobody is able to disconnect.
NoClientLeaked ==
  \A c \in Client : Live(c) => InReach(c) \/ owner[c].call \in cut

\* is_connected is right about a device that a caller could use: the client is
\* neither closed nor lost, unless it was opened while a disconnect closed it.
ConnectedIsOpen ==
  \A o \in Object : connected[o] =>
    gatt[o] # 0 /\ (Live(gatt[o]) \/ owner[gatt[o]].call \in cut)

\* The services cached while a link is up are that link's, not an earlier one's
\* (the comment on SERVICES), unless the link came from a connect that another
\* overlapped or that a disconnect did not wait for.
ServicesAreOfThisLink ==
  registered # 0 /\ cache # 0 /\ gatt[registered] # 0 =>
    cache = gatt[registered] \/ owner[gatt[registered]].call \in cut \cup raced

Awaited(i) == answer[i] = "open" /\ \E t \in Caller : pc[t] # "idle" /\ pc[t] # "fetched" /\ doing[t] = i

(* A call that a cancelled connect took with it: its own, or one that waits on *)
(* a client that was opened after all, which the cancellation then closed.    *)
CutOff(i) ==
  \/ i \in cut \cup raced
  \/ \E o \in Object : i \in Waiting(o) /\ gatt[o] # 0 /\ owner[gatt[o]].call \in cut \cup raced

\* Kotlin answers every call as long as its caller waits: nothing that waits for
\* the stack is forgotten when the link goes, even if the stack never says so.
\* Only a call that a cancelled connect took with it, and a discovery that the
\* stack refused to try again, are left to their timeouts.
EveryCallIsAnswered ==
  \A i \in CallId : Awaited(i) ~> ~Awaited(i) \/ CutOff(i) \/ i \in refused
=============================================================================
