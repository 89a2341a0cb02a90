------------------------------ MODULE BlecLinks ------------------------------
(***************************************************************************)
(* The link table of crates/blec/src/handler.rs: how `connect`,            *)
(* `disconnect`, `disconnect_device`, `disconnect_all` and                 *)
(* `discover_services`, called by several tasks at once, and the event     *)
(* pump share the table, the connect lock and the adapter.                 *)
(*                                                                         *)
(* One action is the code between two points where another task can run:   *)
(* an `.await`, or the release of the `links` mutex.  `connect_device`,    *)
(* `disconnect_device` and `clear_link` are called from several places, so *)
(* they are shared labels of `pc`; where they return to follows from the   *)
(* call being executed (AfterDisconnect, AfterClear).                      *)
(***************************************************************************)
EXTENDS Naturals, Sequences, FiniteSets

CONSTANTS
  Addr,         \* device addresses
  Caller,       \* tasks that call the public API
  Pump,         \* the event pump task
  None,
  MaxAttempts,  \* connect_device attempts of one connect (3 in the code)
  MaxCalls,     \* bound: API calls started in a behaviour
  MaxDrops,     \* bound: links lost, failed connects reported and power-offs
  Ops,          \* the calls that are made
  Faults        \* the adapter faults that happen

ASSUME ActorAssumption == Pump \notin Caller /\ None \notin Caller \cup {Pump}
ASSUME NoneAssumption == None \notin Addr /\ None \notin Nat
ASSUME BoundAssumption ==
  MaxAttempts \in Nat \ {0} /\ MaxCalls \in Nat /\ MaxDrops \in Nat
ASSUME OpsAssumption == Ops \subseteq {"connect", "disconnect", "discover"}
\* drop: a link breaks                   silent: a link goes down without an event
\* retry: a failed connect is reported as a disconnect, by a backend that may retry it
\* power: the adapter is switched off    query: is_connected() fails
\* twice: a disconnect is reported twice refuse: a disconnect request fails
ASSUME FaultAssumption ==
  Faults \subseteq {"drop", "silent", "retry", "power", "query", "twice", "refuse"}

VARIABLES
  links,      \* the link table: address -> link, or NoLink
  nextId,     \* NEXT_LINK_ID
  up,         \* ids of the links whose `connected` watch holds true
  closed,     \* ids of the links whose watch is closed: clear_link is through
  lock,       \* who holds connect_lock
  dev,        \* the adapter's view of each device
  queue,      \* events the adapter emitted and the pump has not taken yet
  drops,      \* how many of MaxDrops happened
  calls,      \* how many of MaxCalls were made
  pc, chg,    \* where each task is; whether its watch receiver has an unseen change
  loc,        \* the local variables of each task
  cb, cbLink, \* the disconnect callback of each connect, the link it was installed on
  res,        \* what each connect returned
  lastEvent,  \* the last ConnectionUpdate sent for each address
  lastUpdate, \* the last value sent to the connection update listeners
  reported,   \* ids of the links reported as disconnected
  temps       \* ids of the links made for discover_services

table   == <<links, nextId, up, closed, temps>>
backend == <<dev, queue, drops>>
history == <<cb, cbLink, res, lastEvent, lastUpdate, reported>>
vars    == <<table, lock, backend, calls, pc, chg, loc, history>>

Actor == Caller \cup {Pump}
CallId == 1 .. MaxCalls

NoLink == [id |-> None, temporary |-> FALSE, owner |-> None]
Link == [id : Nat, temporary : BOOLEAN, owner : CallId \cup {None}]

Present(a) == links[a].id # None
Visible(a) == Present(a) /\ ~links[a].temporary
Connected(a) == Visible(a) /\ links[a].id \in up
VisibleAddr == {a \in Addr : Visible(a)}

DevState == {"down", "pending", "up"}
ConnectedEvent(a) == [kind |-> "connected", addr |-> a]
DisconnectedEvent(a) == [kind |-> "disconnected", addr |-> a]
PoweredOffEvent == [kind |-> "poweredoff", addr |-> None]
Event == [kind : {"connected", "disconnected"}, addr : Addr] \cup {PoweredOffEvent}

ConnectPc == {"lock", "open", "check", "connecting", "await", "cancel",
              "failed", "giveup", "services", "discovering", "install", "report"}
DiscoverPc == {"probe", "opened", "reading", "release", "waitgone", "read"}
DisconnectPc == {"next", "lookup", "query", "drop", "waitdown"}
ClearPc == {"clear", "callback", "compute", "send", "signal"}
Pc == {"idle", "done", "reject"} \cup ConnectPc \cup DiscoverPc \cup DisconnectPc \cup ClearPc

\* op, addr: the call and its device         call: number of a connect
\* born: nextId at disconnect's lookup       rx: the link whose watch it subscribed to
\* was: a disconnect event is expected       att: attempt of connect_device
\* only: clear_link's `only`                 clr: the link clear_link removed
\* any: the update clear_link will send      todo: addresses still to disconnect or clear
Local == [op : {"connect", "disconnect", "discover", "none"}, addr : Addr \cup {None},
          call : CallId \cup {None}, born : Nat, rx : Nat \cup {None}, was : BOOLEAN,
          att : Nat, only : Nat \cup {None}, clr : Link \cup {NoLink}, any : BOOLEAN,
          todo : SUBSET Addr]
IdleLocal == [op |-> "none", addr |-> None, call |-> None, born |-> 0, rx |-> None,
              was |-> FALSE, att |-> 1, only |-> None, clr |-> NoLink, any |-> FALSE,
              todo |-> {}]

Init ==
  /\ links = [a \in Addr |-> NoLink]
  /\ nextId = 0 /\ up = {} /\ closed = {} /\ temps = {}
  /\ lock = None
  /\ dev = [a \in Addr |-> "down"] /\ queue = <<>> /\ drops = 0
  /\ calls = 0
  /\ pc = [x \in Actor |-> "idle"]
  /\ chg = [x \in Actor |-> FALSE]
  /\ loc = [x \in Actor |-> IdleLocal]
  /\ cb = [c \in CallId |-> "idle"] /\ cbLink = [c \in CallId |-> None]
  /\ res = [c \in CallId |-> "none"]
  /\ lastEvent = [a \in Addr |-> FALSE] /\ lastUpdate = FALSE /\ reported = {}

-----------------------------------------------------------------------------
(* The adapter and the devices.                                            *)

\* What Peripheral::disconnect does: a link goes down and is reported, a
\* pending connect is cancelled, and otherwise nothing happens.
Disconnect(a) ==
  /\ UNCHANGED drops
  /\ \/ /\ dev[a] = "up"
        /\ dev' = [dev EXCEPT ![a] = "down"]
        /\ \/ queue' = Append(queue, DisconnectedEvent(a))
           \/ "twice" \in Faults /\ queue' = queue \o <<DisconnectedEvent(a), DisconnectedEvent(a)>>
           \/ "silent" \in Faults /\ UNCHANGED queue
     \/ dev[a] = "pending" /\ dev' = [dev EXCEPT ![a] = "down"] /\ UNCHANGED queue
     \/ dev[a] = "down" /\ UNCHANGED <<dev, queue>>
     \/ "refuse" \in Faults /\ UNCHANGED <<dev, queue>>

BackendOnly == UNCHANGED <<table, lock, calls, pc, chg, loc, history>>

\* A requested connect completes, possibly long after the handler gave up on it.
Establish(a) ==
  /\ dev[a] = "pending"
  /\ dev' = [dev EXCEPT ![a] = "up"]
  /\ queue' = Append(queue, ConnectedEvent(a))
  /\ UNCHANGED drops
  /\ BackendOnly

\* A requested connect fails.  Android reports that as a disconnect, also when
\* it then retries on its own (Peripheral.kt, connectInternal).
FailConnect(a) ==
  /\ "retry" \in Faults /\ drops < MaxDrops /\ drops' = drops + 1
  /\ dev[a] = "pending"
  /\ dev' \in {dev, [dev EXCEPT ![a] = "down"]}
  /\ queue' = Append(queue, DisconnectedEvent(a))
  /\ BackendOnly

\* An established link breaks.
DropLink(a) ==
  /\ "drop" \in Faults /\ drops < MaxDrops /\ drops' = drops + 1
  /\ dev[a] = "up"
  /\ dev' = [dev EXCEPT ![a] = "down"]
  /\ \/ queue' = Append(queue, DisconnectedEvent(a))
     \/ "silent" \in Faults /\ UNCHANGED queue
  /\ BackendOnly

\* The adapter is switched off: every link is gone, one event tells so.
PowerOff ==
  /\ "power" \in Faults /\ drops < MaxDrops /\ drops' = drops + 1
  /\ dev' = [a \in Addr |-> "down"]
  /\ queue' = Append(queue, PoweredOffEvent)
  /\ BackendOnly

Backend == PowerOff \/ \E a \in Addr : Establish(a) \/ FailConnect(a) \/ DropLink(a)

-----------------------------------------------------------------------------
(* Helpers of the tasks.                                                   *)

At(x, l) == pc[x] = l
Goto(x, l) == pc' = [pc EXCEPT ![x] = l]
SetLocal(x, r) == loc' = [loc EXCEPT ![x] = r]

\* send_replace on the watch of link `id`: every receiver has a change to see.
Notify(id) == chg' = [x \in Actor |-> chg[x] \/ loc[x].rx = id]
Seen(x) == chg' = [chg EXCEPT ![x] = FALSE]

\* What runs after disconnect_device, and after clear_link.
AfterDisconnect(x) == IF loc[x].op = "disconnect" THEN "next" ELSE "done"
AfterClear(x) == IF x = Pump THEN "next" ELSE AfterDisconnect(x)

Quiet == \A x \in Actor : At(x, "idle")

-----------------------------------------------------------------------------
(* API calls.                                                              *)

Call(p, name) ==
  /\ At(p, "idle") /\ name \in Ops
  /\ calls < MaxCalls /\ calls' = calls + 1
  /\ UNCHANGED <<table, lock, backend, chg, history>>

CallConnect(p, a) ==
  /\ Call(p, "connect")
  /\ SetLocal(p, [IdleLocal EXCEPT !.op = "connect", !.addr = a, !.call = calls + 1])
  /\ Goto(p, "lock")

\* A device we are connected to is read directly, without the connect lock.
CallDiscover(p, a) ==
  /\ Call(p, "discover")
  /\ SetLocal(p, [IdleLocal EXCEPT !.op = "discover", !.addr = a])
  /\ Goto(p, IF Connected(a) THEN "read" ELSE "lock")

\* disconnect_device of any address, disconnect (the single visible link: covered
\* by the same sets) and disconnect_all, which takes a snapshot of the addresses.
CallDisconnect(p, S) ==
  /\ Call(p, "disconnect")
  /\ S \in {{a} : a \in Addr} \cup {VisibleAddr}
  /\ SetLocal(p, [IdleLocal EXCEPT !.op = "disconnect", !.todo = S])
  /\ Goto(p, "next")

\* The call returns; a connect or discovery gives up the connect lock.
Return(p) ==
  /\ At(p, "done")
  /\ lock' = IF lock = p THEN None ELSE lock
  /\ SetLocal(p, IdleLocal)
  /\ res' = IF loc[p].op = "connect" /\ res[loc[p].call] = "none"
            THEN [res EXCEPT ![loc[p].call] = "err"] ELSE res
  /\ Goto(p, "idle") /\ Seen(p)
  /\ UNCHANGED <<table, backend, calls, cb, cbLink, lastEvent, lastUpdate, reported>>

-----------------------------------------------------------------------------
(* connect and discover_services up to an open link.                       *)

\* The connect lock, then resolve_peripheral, which fails only for an address
\* that is neither linked nor found by a scan, and stop_scan.
AcquireConnectLock(p) ==
  /\ At(p, "lock") /\ lock = None
  /\ lock' = p
  /\ \/ Goto(p, IF loc[p].op = "connect" THEN "open" ELSE "probe")
     \/ ~Present(loc[p].addr) /\ Goto(p, "done")
  /\ UNCHANGED <<table, backend, calls, chg, loc, history>>

\* discover_services leaves a device somebody else connected alone.
ProbeDevice(p) ==
  /\ At(p, "probe")
  /\ \/ Goto(p, IF dev[loc[p].addr] = "up" THEN "read" ELSE "open")
     \/ "query" \in Faults /\ Goto(p, "done")
  /\ UNCHANGED <<table, lock, backend, calls, chg, loc, history>>

\* Reading the services needs no link of ours and changes none.
ReadServices(p) ==
  /\ At(p, "read")
  /\ Goto(p, "done")
  /\ UNCHANGED <<table, lock, backend, calls, chg, loc, history>>

\* connect_device registers the link before it connects.  A link that is in the
\* table already is used as it is.
OpenLink(p) ==
  LET a == loc[p].addr
      temporary == loc[p].op = "discover"
  IN
  /\ At(p, "open")
  /\ IF Present(a)
     THEN /\ SetLocal(p, [loc[p] EXCEPT !.rx = links[a].id])
          /\ UNCHANGED <<links, nextId, temps>>
     ELSE /\ links' = [links EXCEPT ![a] = [id |-> nextId, temporary |-> temporary, owner |-> None]]
          /\ nextId' = nextId + 1
          /\ temps' = IF temporary THEN temps \cup {nextId} ELSE temps
          /\ SetLocal(p, [loc[p] EXCEPT !.rx = nextId])
  /\ Seen(p) /\ Goto(p, "check")
  /\ UNCHANGED <<up, closed, lock, backend, calls, history>>

\* connect_device returned Ok.
Opened(p) == Goto(p, IF loc[p].op = "connect" THEN "services" ELSE "opened")

\* A device that is connected is adopted (set_link_connected); otherwise the
\* adapter is asked to connect.
CheckConnected(p) ==
  LET a == loc[p].addr IN
  /\ At(p, "check")
  /\ \/ /\ dev[a] = "up"
        /\ IF Present(a)
           THEN up' = up \cup {links[a].id} /\ Notify(links[a].id)
           ELSE UNCHANGED <<up, chg>>
        /\ Opened(p)
        /\ UNCHANGED backend
     \/ /\ dev[a] # "up"
        /\ dev' = [dev EXCEPT ![a] = "pending"]
        /\ Goto(p, "connecting")
        /\ UNCHANGED <<up, queue, drops, chg>>
     \/ /\ "query" \in Faults
        /\ Goto(p, "failed")
        /\ UNCHANGED <<up, backend, chg>>
  /\ UNCHANGED <<links, nextId, closed, temps, lock, calls, loc, history>>

\* Peripheral::connect returns, with or without the link being up, fails or
\* times out; a failed one may leave the request pending in the adapter.
ConnectReturns(p) ==
  /\ At(p, "connecting")
  /\ \/ IF loc[p].rx \in up THEN Opened(p) ELSE Goto(p, "await")
     \/ Goto(p, "failed")
  /\ Seen(p)
  /\ UNCHANGED <<table, lock, backend, calls, loc, history>>

\* Mutant: the wait has no timeout.
AwaitConnectedForever(p) ==
  /\ At(p, "await")
  /\ \/ chg[p] /\ IF loc[p].rx \in up THEN Opened(p) ELSE Goto(p, "failed")
     \/ ~chg[p] /\ loc[p].rx \in closed /\ Goto(p, "failed")
  /\ Seen(p)
  /\ UNCHANGED <<table, lock, backend, calls, loc, history>>

\* The wait for the DeviceConnected event: the watch changed or was closed; the
\* timeout elapses only while neither happened.
AwaitConnected(p) ==
  /\ At(p, "await")
  /\ \/ chg[p] /\ IF loc[p].rx \in up THEN Opened(p) ELSE Goto(p, "failed")
     \/ ~chg[p] /\ Goto(p, IF loc[p].rx \in closed THEN "failed" ELSE "cancel")
  /\ Seen(p)
  /\ UNCHANGED <<table, lock, backend, calls, loc, history>>

CancelAttempt(p) ==
  /\ At(p, "cancel")
  /\ Disconnect(loc[p].addr)
  /\ Goto(p, "failed")
  /\ UNCHANGED <<table, lock, calls, chg, loc, history>>

\* connect_device returned Err: connect tries again, a discovery does not.
AttemptFailed(p) ==
  /\ At(p, "failed")
  /\ \/ /\ loc[p].op = "connect" /\ loc[p].att < MaxAttempts
        /\ SetLocal(p, [loc[p] EXCEPT !.att = loc[p].att + 1])
        /\ Goto(p, "open")
     \/ /\ loc[p].op = "connect" /\ loc[p].att >= MaxAttempts
        /\ UNCHANGED loc
        /\ Goto(p, "giveup")
     \/ /\ loc[p].op = "discover"
        /\ SetLocal(p, [loc[p] EXCEPT !.only = None])
        /\ Goto(p, "clear")
  /\ UNCHANGED <<table, lock, backend, calls, chg, history>>

\* Mutant: the pending link stays in the table.
GiveUpKeepsLink(p) ==
  /\ At(p, "giveup")
  /\ IF Visible(loc[p].addr) THEN Disconnect(loc[p].addr) ELSE UNCHANGED backend
  /\ Goto(p, "done")
  /\ UNCHANGED <<table, lock, calls, chg, loc, history>>

\* The last attempt failed: cancel whatever is pending, then clear the link.
GiveUp(p) ==
  LET a == loc[p].addr IN
  /\ At(p, "giveup")
  /\ IF Visible(a) THEN Disconnect(a) ELSE UNCHANGED backend
  /\ SetLocal(p, [loc[p] EXCEPT !.only = None])
  /\ Goto(p, "clear")
  /\ UNCHANGED <<table, lock, calls, chg, history>>

-----------------------------------------------------------------------------
(* connect with an open link.                                              *)

\* Mutant: the callback is installed before the services are discovered.
FindServicesArmed(p) ==
  LET a == loc[p].addr IN
  /\ At(p, "services")
  /\ IF Present(a)
     THEN /\ cb' = [cb EXCEPT ![loc[p].call] = "armed"]
          /\ links' = [links EXCEPT ![a].owner = loc[p].call]
          /\ Goto(p, "discovering")
     ELSE Goto(p, "lookup") /\ UNCHANGED <<links, cb>>
  /\ UNCHANGED <<nextId, up, closed, temps, lock, backend, calls, chg, loc, cbLink,
                 res, lastEvent, lastUpdate, reported>>

\* connect_services takes what it needs from the link; without one, or when
\* the discovery fails, connect tears the connection down.
FindServices(p) ==
  /\ At(p, "services")
  /\ Goto(p, IF Present(loc[p].addr) THEN "discovering" ELSE "lookup")
  /\ UNCHANGED <<table, lock, backend, calls, chg, loc, history>>

DiscoverServices(p) ==
  /\ At(p, "discovering")
  /\ Goto(p, "install") \/ Goto(p, "lookup")
  /\ UNCHANGED <<table, lock, backend, calls, chg, loc, history>>

\* The callback goes into the link that is in the table now, in place of the
\* one an earlier connect left there.
InstallCallback(p) ==
  LET a == loc[p].addr
      old == links[a].owner
  IN
  /\ At(p, "install")
  /\ IF Present(a)
     THEN /\ cb' = [c \in CallId |-> IF c = loc[p].call THEN "armed"
                                     ELSE IF c = old THEN "replaced" ELSE cb[c]]
          /\ cbLink' = [cbLink EXCEPT ![loc[p].call] = links[a].id]
          /\ links' = [links EXCEPT ![a].owner = loc[p].call]
          /\ Goto(p, "report")
     ELSE Goto(p, "done") /\ UNCHANGED <<links, cb, cbLink>>
  /\ UNCHANGED <<nextId, up, closed, temps, lock, backend, calls, chg, loc,
                 res, lastEvent, lastUpdate, reported>>

ReportConnected(p) ==
  /\ At(p, "report")
  /\ lastEvent' = [lastEvent EXCEPT ![loc[p].addr] = TRUE]
  /\ lastUpdate' = TRUE
  /\ res' = [res EXCEPT ![loc[p].call] = "ok"]
  /\ Goto(p, "done")
  /\ UNCHANGED <<table, lock, backend, calls, chg, loc, cb, cbLink, reported>>

-----------------------------------------------------------------------------
(* discover_services with an open link.                                    *)

OpenedForDiscovery(p) ==
  LET a == loc[p].addr IN
  /\ At(p, "opened")
  /\ IF Present(a)
     THEN SetLocal(p, [loc[p] EXCEPT !.rx = links[a].id]) /\ Goto(p, "reading") /\ Seen(p)
     ELSE Goto(p, "done") /\ UNCHANGED <<loc, chg>>
  /\ UNCHANGED <<table, lock, backend, calls, history>>

\* The services are read, or not; a link that is still up is released.
ReadAndRelease(p) ==
  /\ At(p, "reading")
  /\ SetLocal(p, [loc[p] EXCEPT !.only = loc[p].rx])
  /\ Goto(p, IF loc[p].rx \in up THEN "release" ELSE "clear")
  /\ Seen(p)
  /\ UNCHANGED <<table, lock, backend, calls, history>>

ReleaseDevice(p) ==
  /\ At(p, "release")
  /\ Disconnect(loc[p].addr)
  /\ Goto(p, "waitgone")
  /\ UNCHANGED <<table, lock, calls, chg, loc, history>>

\* Mutant: the discovery relies on the pump to clear the link.
WaitReleasedOnly(p) ==
  /\ At(p, "waitgone")
  /\ Goto(p, "done") /\ Seen(p)
  /\ UNCHANGED <<table, lock, backend, calls, loc, history>>

\* The watch changed, was closed or timed out: clear the link in any case.
WaitReleased(p) ==
  /\ At(p, "waitgone")
  /\ Goto(p, "clear") /\ Seen(p)
  /\ UNCHANGED <<table, lock, backend, calls, loc, history>>

-----------------------------------------------------------------------------
(* disconnect_device.                                                      *)

\* The loop of disconnect_all, and of the pump after a power-off.
NextAddress(x) ==
  /\ At(x, "next")
  /\ \/ /\ loc[x].todo = {}
        /\ IF x = Pump THEN Goto(x, "idle") /\ SetLocal(x, IdleLocal)
                       ELSE Goto(x, "done") /\ UNCHANGED loc
     \/ \E a \in loc[x].todo :
          /\ SetLocal(x, [loc[x] EXCEPT !.todo = loc[x].todo \ {a}, !.addr = a,
                                        !.only = None, !.rx = None])
          /\ Goto(x, IF x = Pump THEN "clear" ELSE "lookup")
  /\ UNCHANGED <<table, lock, backend, calls, chg, history>>

LookupLink(p) ==
  LET a == loc[p].addr IN
  /\ At(p, "lookup")
  /\ IF Visible(a)
     THEN /\ SetLocal(p, [loc[p] EXCEPT !.rx = links[a].id, !.only = links[a].id,
                                       !.was = links[a].id \in up, !.born = nextId])
          /\ Goto(p, "query") /\ Seen(p)
     ELSE Goto(p, AfterDisconnect(p)) /\ UNCHANGED <<loc, chg>>
  /\ UNCHANGED <<table, lock, backend, calls, history>>

\* An event is expected only if table and adapter both call the device connected.
QueryConnected(p) ==
  /\ At(p, "query")
  /\ \/ SetLocal(p, [loc[p] EXCEPT !.was = loc[p].was /\ dev[loc[p].addr] = "up"])
     \/ "query" \in Faults /\ SetLocal(p, [loc[p] EXCEPT !.was = FALSE])
  /\ Goto(p, "drop")
  /\ UNCHANGED <<table, lock, backend, calls, chg, history>>

\* The device is told to disconnect whatever the state says.
DropDevice(p) ==
  /\ At(p, "drop")
  /\ Disconnect(loc[p].addr)
  /\ Goto(p, IF loc[p].was THEN "waitdown" ELSE "clear")
  /\ UNCHANGED <<table, lock, calls, chg, loc, history>>

\* The pump cleared the link, or the wait ends without that: clear it here.
WaitDisconnected(p) ==
  /\ At(p, "waitdown")
  /\ \/ chg[p] /\ Goto(p, IF loc[p].rx \in up THEN "clear" ELSE AfterDisconnect(p))
     \/ ~chg[p] /\ Goto(p, "clear")
  /\ Seen(p)
  /\ UNCHANGED <<table, lock, backend, calls, loc, history>>

-----------------------------------------------------------------------------
(* clear_link, executed by callers and by the pump.                        *)

\* Mutant: `only` is not looked at.
RemoveAnyLink(x) ==
  LET a == loc[x].addr IN
  /\ At(x, "clear")
  /\ IF Present(a)
     THEN /\ links' = [links EXCEPT ![a] = NoLink]
          /\ SetLocal(x, [loc[x] EXCEPT !.clr = links[a]])
          /\ Goto(x, "callback")
     ELSE Goto(x, AfterClear(x)) /\ UNCHANGED <<links, loc>>
  /\ UNCHANGED <<nextId, up, closed, temps, lock, backend, calls, chg, history>>

\* Mutant: the watch is signalled first instead of last.
RemoveLinkSignalling(x) ==
  LET a == loc[x].addr IN
  /\ At(x, "clear")
  /\ IF Present(a) /\ loc[x].only \in {None, links[a].id}
     THEN /\ links' = [links EXCEPT ![a] = NoLink]
          /\ SetLocal(x, [loc[x] EXCEPT !.clr = links[a]])
          /\ up' = up \ {links[a].id} /\ closed' = closed \cup {links[a].id}
          /\ Notify(links[a].id)
          /\ Goto(x, "callback")
     ELSE Goto(x, AfterClear(x)) /\ UNCHANGED <<links, loc, up, closed, chg>>
  /\ UNCHANGED <<nextId, temps, lock, backend, calls, history>>

\* Mutant: the removed link is not kept for what follows.
RemoveLinkForgotten(x) ==
  /\ At(x, "clear")
  /\ IF Present(loc[x].addr)
     THEN links' = [links EXCEPT ![loc[x].addr] = NoLink] /\ Goto(x, "callback")
     ELSE Goto(x, AfterClear(x)) /\ UNCHANGED links
  /\ UNCHANGED <<nextId, up, closed, temps, lock, backend, calls, chg, loc, history>>

\* With `only`, a link with another id is left alone.
RemoveLink(x) ==
  LET a == loc[x].addr
      spared == loc[x].only # None /\ links[a].id # loc[x].only
  IN
  /\ At(x, "clear")
  /\ IF Present(a) /\ ~spared
     THEN /\ links' = [links EXCEPT ![a] = NoLink]
          /\ SetLocal(x, [loc[x] EXCEPT !.clr = links[a]])
          /\ Goto(x, "callback")
     ELSE Goto(x, AfterClear(x)) /\ UNCHANGED <<links, loc>>
  /\ UNCHANGED <<nextId, up, closed, temps, lock, backend, calls, chg, history>>

\* Mutant: a link the caller disconnects itself runs no callback.
RunCallbackFromPump(x) ==
  LET link == loc[x].clr IN
  /\ At(x, "callback")
  /\ cb' = [c \in CallId |-> IF x = Pump /\ c = link.owner THEN "run" ELSE cb[c]]
  /\ Goto(x, IF link.temporary THEN "signal" ELSE "compute")
  /\ UNCHANGED <<table, lock, backend, calls, chg, loc, cbLink, res,
                 lastEvent, lastUpdate, reported>>

RunCallback(x) ==
  LET link == loc[x].clr IN
  /\ At(x, "callback")
  /\ cb' = [c \in CallId |-> IF c = link.owner THEN "run" ELSE cb[c]]
  /\ Goto(x, IF link.temporary THEN "signal" ELSE "compute")
  /\ UNCHANGED <<table, lock, backend, calls, chg, loc, cbLink, res,
                 lastEvent, lastUpdate, reported>>

\* send_connection_update looks at the table before it takes the state lock.
ComputeUpdate(x) ==
  /\ At(x, "compute")
  /\ SetLocal(x, [loc[x] EXCEPT !.any = \E a \in Addr : Connected(a)])
  /\ Goto(x, "send")
  /\ UNCHANGED <<table, lock, backend, calls, chg, history>>

ReportDisconnected(x) ==
  /\ At(x, "send")
  /\ lastEvent' = [lastEvent EXCEPT ![loc[x].addr] = FALSE]
  /\ lastUpdate' = loc[x].any
  /\ reported' = reported \cup {loc[x].clr.id}
  /\ Goto(x, "signal")
  /\ UNCHANGED <<table, lock, backend, calls, chg, loc, cb, cbLink, res>>

\* Last, the watch is set to false and dropped with the link.
SignalClosed(x) ==
  LET id == loc[x].clr.id IN
  /\ At(x, "signal")
  /\ up' = up \ {id}
  /\ closed' = closed \cup {id}
  /\ Notify(id)
  /\ SetLocal(x, [loc[x] EXCEPT !.clr = NoLink, !.any = FALSE])
  /\ Goto(x, AfterClear(x))
  /\ UNCHANGED <<links, nextId, temps, lock, backend, calls, history>>

ClearLink(x) ==
  RemoveLink(x) \/ RunCallback(x) \/ ComputeUpdate(x) \/ ReportDisconnected(x) \/ SignalClosed(x)

-----------------------------------------------------------------------------
(* The event pump: handle_event, one event at a time.                      *)

Take(kind) ==
  /\ At(Pump, "idle")
  /\ queue # <<>> /\ Head(queue).kind = kind
  /\ queue' = Tail(queue)
  /\ UNCHANGED <<dev, drops, links, nextId, closed, temps, lock, calls, history>>

\* Mutant: a connection nobody waits for is ignored.
HandleConnectIgnoring ==
  LET a == Head(queue).addr IN
  /\ Take("connected")
  /\ IF Present(a)
     THEN up' = up \cup {links[a].id} /\ Notify(links[a].id)
     ELSE UNCHANGED <<up, chg>>
  /\ UNCHANGED <<pc, loc>>

\* An expected connection marks the link as up, another one is closed again.
HandleConnect ==
  LET a == Head(queue).addr IN
  /\ Take("connected")
  /\ IF Present(a)
     THEN up' = up \cup {links[a].id} /\ Notify(links[a].id) /\ UNCHANGED <<pc, loc>>
     ELSE /\ SetLocal(Pump, [loc[Pump] EXCEPT !.addr = a])
          /\ Goto(Pump, "reject")
          /\ UNCHANGED <<up, chg>>

RejectDevice ==
  /\ At(Pump, "reject")
  /\ Disconnect(loc[Pump].addr)
  /\ SetLocal(Pump, IdleLocal)
  /\ Goto(Pump, "idle")
  /\ UNCHANGED <<table, lock, calls, chg, history>>

\* Mutant: a disconnect during a connect is taken for a failed attempt.
HandleDisconnectWhenUnlocked ==
  LET a == Head(queue).addr IN
  /\ Take("disconnected")
  /\ IF Present(a) /\ lock = None
     THEN SetLocal(Pump, [loc[Pump] EXCEPT !.addr = a]) /\ Goto(Pump, "clear")
     ELSE UNCHANGED <<pc, loc>>
  /\ UNCHANGED <<up, chg>>

\* link_address finds the link, clear_link(.., None) removes whatever is there.
HandleDisconnect ==
  LET a == Head(queue).addr IN
  /\ Take("disconnected")
  /\ IF Present(a)
     THEN SetLocal(Pump, [loc[Pump] EXCEPT !.addr = a]) /\ Goto(Pump, "clear")
     ELSE UNCHANGED <<pc, loc>>
  /\ UNCHANGED <<up, chg>>

HandlePoweredOff ==
  /\ Take("poweredoff")
  /\ SetLocal(Pump, [loc[Pump] EXCEPT !.todo = {a \in Addr : Present(a)}])
  /\ Goto(Pump, "next")
  /\ UNCHANGED <<up, chg>>

PumpStep ==
  \/ HandleConnect \/ HandleDisconnect \/ HandlePoweredOff \/ RejectDevice
  \/ NextAddress(Pump) \/ ClearLink(Pump)

-----------------------------------------------------------------------------

StartCall(p) ==
  \/ \E a \in Addr : CallConnect(p, a) \/ CallDiscover(p, a)
  \/ \E S \in SUBSET Addr : CallDisconnect(p, S)

ConnectStep(p) ==
  \/ AcquireConnectLock(p) \/ ProbeDevice(p) \/ ReadServices(p) \/ OpenLink(p)
  \/ CheckConnected(p) \/ ConnectReturns(p) \/ AwaitConnected(p) \/ CancelAttempt(p)
  \/ AttemptFailed(p) \/ GiveUp(p)
  \/ FindServices(p) \/ DiscoverServices(p) \/ InstallCallback(p) \/ ReportConnected(p)
  \/ OpenedForDiscovery(p) \/ ReadAndRelease(p) \/ ReleaseDevice(p) \/ WaitReleased(p)

DisconnectStep(p) ==
  \/ NextAddress(p) \/ LookupLink(p) \/ QueryConnected(p) \/ DropDevice(p) \/ WaitDisconnected(p)

CallerStep(p) == ConnectStep(p) \/ DisconnectStep(p) \/ ClearLink(p) \/ Return(p)

Next ==
  \/ Backend
  \/ PumpStep
  \/ \E p \in Caller : StartCall(p) \/ CallerStep(p)

Spec == Init /\ [][Next]_vars

\* The runtime polls every task that can run, and every wait has a timeout.
Fairness == WF_vars(PumpStep) /\ \A p \in Caller : WF_vars(CallerStep(p))
FairSpec == Spec /\ Fairness

-----------------------------------------------------------------------------
(* Properties.                                                             *)

\* Every variable has its type.
TypeOK ==
  /\ links \in [Addr -> Link \cup {NoLink}]
  /\ nextId \in Nat
  /\ up \subseteq Nat /\ closed \subseteq Nat /\ temps \subseteq Nat /\ reported \subseteq Nat
  /\ lock \in Caller \cup {None}
  /\ dev \in [Addr -> DevState]
  /\ queue \in Seq(Event)
  /\ drops \in Nat /\ calls \in 0 .. MaxCalls
  /\ pc \in [Actor -> Pc]
  /\ chg \in [Actor -> BOOLEAN]
  /\ loc \in [Actor -> Local]
  /\ cb \in [CallId -> {"idle", "armed", "replaced", "run"}]
  /\ cbLink \in [CallId -> Nat \cup {None}]
  /\ res \in [CallId -> {"none", "ok", "err"}]
  /\ lastEvent \in [Addr -> BOOLEAN] /\ lastUpdate \in BOOLEAN

\* A link whose connection is still pending has a connect or discovery working
\* on it: no call leaves one behind (connect, handler.rs:589-600, "cancel it so
\* the device is not left half-connected"), though tasks, the pump and
\* timeouts remove and re-create links under its feet.
PendingLinkHasConnector ==
  \A a \in Addr : Present(a) /\ links[a].id \notin up =>
    /\ lock \in Caller
    /\ loc[lock].addr = a /\ loc[lock].op \in {"connect", "discover"}

\* A link made for discover_services is in the table only while that discovery
\* runs, so no connect can adopt it and no other discovery finds it.
TemporaryLinkHasDiscovery ==
  \A a \in Addr : links[a].temporary =>
    lock \in Caller /\ loc[lock].addr = a /\ loc[lock].op = "discover"

\* An installed callback can still be reached: it is in the link table, or with
\* the one task that is clearing the link.  It is never dropped unrun.
NoCallbackIsLost ==
  \A c \in CallId : cb[c] = "armed" =>
    \/ \E a \in Addr : links[a].owner = c
    \/ \E x \in Actor : loc[x].clr.owner = c /\ At(x, "callback")

\* "last, so whoever waits for the disconnect finds everything above done"
\* (handler.rs:882): when the watch of a link says disconnected, the link is out
\* of the table, its callback is not waiting any more and its loss is reported.
ClosedLinkIsDone ==
  \A id \in closed :
    /\ \A a \in Addr : links[a].id # id
    /\ \A c \in CallId : cbLink[c] = id => cb[c] # "armed"
    /\ id \in reported \cup temps

SlowDisconnectSparesNewLink(p) ==
  loc[p].op = "disconnect" /\ At(p, "clear") /\ pc'[p] = "callback"
    => links[loc[p].addr].id < loc[p].born

DisconnectedMeansGone(p) ==
  loc[p].op = "disconnect" /\ ~At(p, "next") /\ pc'[p] = "next" /\ loc[p].rx # None
    => \A a \in Addr : links'[a].id # loc[p].rx

\* A disconnect removes the link it found and no other.  "A slow disconnect never
\* clears a connection that was made after it started" (handler.rs:53-54), however
\* long it waits for the event; and when disconnect_device returns Ok, the link
\* it found is gone, whether the pump, the timeout or another disconnect did it.
DisconnectIsExact ==
  [][\A p \in Caller : SlowDisconnectSparesNewLink(p) /\ DisconnectedMeansGone(p)]_vars

\* With all events handled and no call running, the table and the adapter agree
\* on what is connected: no connection is left open that the handler does not
\* know ("Adopting it would leave the handler unaware of an open link",
\* handler.rs:1524), and none is reported connected that is gone.
AgreeWhenQuiet ==
  Quiet /\ queue = <<>> => \A a \in Addr : Connected(a) <=> dev[a] = "up"

\* connect keeps its promise on callbacks.
Promise == INSTANCE ConnectPromise WITH CallId <- CallId, cb <- cb, res <- res
CallbackPromise == Promise!Spec

\* Every API call returns, whatever the adapter does not do.
EveryCallReturns == \A p \in Caller : ~At(p, "idle") ~> At(p, "idle")

\* A reported loss of a connection, alone or with the whole adapter, reaches the
\* callback of the link.
LostLinkRunsCallback ==
  \A a \in Addr, c \in CallId :
    (/\ links[a].owner = c
     /\ \E i \in DOMAIN queue : queue[i] \in {DisconnectedEvent(a), PoweredOffEvent})
      ~> cb[c] # "armed"

-----------------------------------------------------------------------------
(* What the documentation says and the code does not keep (README, 3.2).     *)

\* connect tears a failed connection down "instead of returning with a connected
\* device the caller doesn't know about" (handler.rs:606-607), and after a
\* discovery "the device is disconnected" (handler.rs:1087): with all events
\* handled and no call running, every open connection is in the table.
NoUnknownConnection ==
  Quiet /\ queue = <<>> => \A a \in Addr : dev[a] = "up" => Connected(a)

\* connect_lock "serializes connection attempts across devices: android's
\* connectGatt misbehaves with several connects in flight" (handler.rs:141-142):
\* the adapter never has two connect requests pending.
OneConnectInFlight ==
  \A a, b \in Addr : dev[a] = "pending" /\ dev[b] = "pending" => a = b

\* The last ConnectionUpdate of a device, sent "whenever a device connects or
\* disconnects" (handler.rs:516-517), says what the table says.
LastEventIsCurrent ==
  Quiet /\ queue = <<>> => \A a \in Addr : lastEvent[a] <=> Connected(a)

\* "After every connect and disconnect of any device it receives whether at
\* least one device is connected" (handler.rs:496-497): with nothing running and
\* the events of all devices right, the last update agrees with the table.
LastUpdateIsCurrent ==
  Quiet /\ queue = <<>> /\ (\A a \in Addr : lastEvent[a] <=> Connected(a))
    => (lastUpdate <=> \E a \in Addr : Connected(a))

=============================================================================
