--------------------------- MODULE BlecLinksProofs ---------------------------
(***************************************************************************)
(* Proofs about BlecLinks, for every number of devices, tasks, calls and   *)
(* attempts, and whatever the adapter does.                                *)
(***************************************************************************)
EXTENDS BlecLinks, TLAPS

-----------------------------------------------------------------------------
(* The inductive invariant.                                                *)

\* A task that works on a device has its address, one that clears a link has it.
LocalsSet ==
  \A x \in Actor :
    /\ pc[x] \notin {"idle", "next", "done"} => loc[x].addr \in Addr
    /\ pc[x] \in {"callback", "compute", "send", "signal"} => loc[x].clr \in Link

\* A link id is used once: for one link, which is in the table or being cleared.
IdsAreUnique ==
  /\ \A a \in Addr : Present(a) => links[a].id < nextId
  /\ \A a, b \in Addr : Present(a) /\ links[a].id = links[b].id => a = b
  /\ \A x \in Actor : loc[x].clr # NoLink =>
       loc[x].clr.id < nextId /\ \A a \in Addr : links[a].id # loc[x].clr.id

\* A connect or discovery beyond its first steps holds the lock, and nobody else.
LockDiscipline ==
  /\ \A p \in Caller :
       /\ pc[p] \in ConnectPc \cup DiscoverPc => loc[p].op \in {"connect", "discover"}
       /\ pc[p] \in DiscoverPc => loc[p].op = "discover"
       /\ pc[p] \in {"services", "discovering", "install", "report"} => loc[p].op = "connect"
  /\ \A p \in Caller :
       loc[p].op \in {"connect", "discover"} /\ pc[p] \notin {"lock", "read", "done"} => lock = p
  /\ lock \in Caller =>
       /\ loc[lock].op \in {"connect", "discover"}
       /\ pc[lock] \notin {"idle", "lock"}

\* Where the lock holder may have a pending link, and which.
PendingLinkIsOpened ==
  \A a \in Addr : Present(a) /\ links[a].id \notin up =>
    /\ lock \in Caller /\ loc[lock].addr = a
    /\ pc[lock] \in {"open", "check", "connecting", "await", "cancel", "failed", "giveup", "clear"}
    /\ pc[lock] = "clear" => loc[lock].only = None

\* The link of a lock holder that waits for it is the one it subscribed to.
WatchedLinkIsCurrent ==
  \A p \in Caller : lock = p /\ pc[p] \in {"check", "connecting", "await"} /\ Present(loc[p].addr)
    => links[loc[p].addr].id = loc[p].rx

\* Where a discovery may have a temporary link, and which.
TemporaryLinkIsReleased ==
  \A a \in Addr : links[a].temporary =>
    /\ lock \in Caller /\ loc[lock].addr = a /\ loc[lock].op = "discover"
    /\ pc[lock] \in {"check", "connecting", "await", "cancel", "failed", "opened",
                     "reading", "release", "waitgone", "clear"}
    /\ pc[lock] \in {"reading", "release", "waitgone"} => loc[lock].rx = links[a].id
    /\ pc[lock] \in {"release", "waitgone", "clear"} => loc[lock].only \in {None, links[a].id}

\* Where a callback is, it is armed, and in one place only.
OwnersAreArmed ==
  /\ \A a \in Addr : links[a].owner # None => cb[links[a].owner] = "armed"
  /\ \A x \in Actor : pc[x] = "callback" /\ loc[x].clr.owner # None
       => cb[loc[x].clr.owner] = "armed"

OwnersDiffer ==
  /\ \A a, b \in Addr : links[a].owner # None /\ links[a].owner = links[b].owner => a = b
  /\ \A x \in Actor, a \in Addr : pc[x] = "callback" /\ loc[x].clr.owner # None
       => links[a].owner # loc[x].clr.owner
  /\ \A x, y \in Actor :
       (/\ pc[x] = "callback" /\ pc[y] = "callback"
        /\ loc[x].clr.owner # None /\ loc[x].clr.owner = loc[y].clr.owner) => x = y

\* Every connect has a number of its own.
CallsDiffer ==
  /\ \A p \in Caller : loc[p].op = "connect" => loc[p].call \in 1 .. calls
  /\ \A p, q \in Caller :
       loc[p].op = "connect" /\ loc[q].op = "connect" /\ loc[p].call = loc[q].call => p = q
  /\ \A c \in CallId : c > calls => cb[c] = "idle" /\ res[c] = "none"

\* What a connect has done with its callback and its result so far.
CallProgress ==
  \A p \in Caller : loc[p].op = "connect" =>
    /\ pc[p] \notin {"report", "done"} => cb[loc[p].call] = "idle" /\ res[loc[p].call] = "none"
    /\ pc[p] = "report" => cb[loc[p].call] \in {"armed", "run"} /\ res[loc[p].call] = "none"
    /\ pc[p] = "done" => \/ res[loc[p].call] = "ok"
                         \/ cb[loc[p].call] = "idle" /\ res[loc[p].call] = "none"

CallbackInv == OwnersAreArmed /\ OwnersDiffer /\ CallsDiffer /\ CallProgress /\ NoCallbackIsLost

LinkInv ==
  /\ TypeOK /\ LocalsSet /\ IdsAreUnique /\ LockDiscipline
  /\ PendingLinkIsOpened /\ WatchedLinkIsCurrent /\ TemporaryLinkIsReleased

\* What a step does that moves no callback ...
OwnersKept ==
  /\ cb' = cb
  /\ \A a \in Addr : links'[a].owner = links[a].owner
  /\ \A x \in Actor : pc[x] = "callback" \/ pc'[x] = "callback" => pc'[x] = pc[x] /\ loc'[x] = loc[x]

\* ... and the steps that do.
CallbackMoves ==
  \/ \E p \in Caller : InstallCallback(p)
  \/ \E x \in Actor : RemoveLink(x) \/ RunCallback(x)

\* What a step does that leaves every call where it is, up to the installation ...
CallsKept ==
  /\ res' = res /\ calls' = calls
  /\ \A p \in Caller :
       /\ loc'[p].op = loc[p].op /\ loc'[p].call = loc[p].call
       /\ pc'[p] = "report" => pc[p] = "report"
       /\ pc[p] \in {"report", "done"} => pc'[p] = pc[p]

\* ... and the steps that do not.
CallsMove ==
  \E p \in Caller :
    \/ \E a \in Addr : CallConnect(p, a) \/ CallDiscover(p, a)
    \/ \E S \in SUBSET Addr : CallDisconnect(p, S)
    \/ Return(p) \/ InstallCallback(p) \/ ReportConnected(p)

-----------------------------------------------------------------------------
(* Lemmas on the helpers and on the records.                               *)

\* What a task does to its local variables leaves those of the others alone.
LEMMA SetLocalType ==
  ASSUME NEW x \in Actor, NEW r \in Local, loc \in [Actor -> Local], SetLocal(x, r)
  PROVE  loc' \in [Actor -> Local]
  BY DEF SetLocal

\* A signalled watch and a seen change are still changes to see, or none.
LEMMA ChgType ==
  ASSUME chg \in [Actor -> BOOLEAN]
  PROVE  /\ \A id : Notify(id) => chg' \in [Actor -> BOOLEAN]
         /\ \A x \in Actor : Seen(x) => chg' \in [Actor -> BOOLEAN]
  BY DEF Notify, Seen

\* The updates of the local variables are type correct.
LEMMA RecordUpdate ==
  ASSUME NEW r \in Local
  PROVE  /\ \A n \in Nat \cup {None} : [r EXCEPT !.rx = n] \in Local
         /\ \A n \in Nat \cup {None} : [r EXCEPT !.only = n] \in Local
         /\ \A a \in Addr : [r EXCEPT !.addr = a] \in Local
         /\ \A S \in SUBSET Addr : [r EXCEPT !.todo = S] \in Local
         /\ \A S \in SUBSET Addr, a \in Addr :
              [r EXCEPT !.todo = S, !.addr = a, !.only = None, !.rx = None] \in Local
         /\ \A n \in Nat : [r EXCEPT !.att = n] \in Local
         /\ \A b \in BOOLEAN : [r EXCEPT !.was = b] \in Local
         /\ \A b \in BOOLEAN : [r EXCEPT !.any = b] \in Local
         /\ \A n, m \in Nat, b \in BOOLEAN :
              [r EXCEPT !.rx = n, !.only = n, !.was = b, !.born = m] \in Local
         /\ \A link \in Link : [r EXCEPT !.clr = link] \in Local
         /\ [r EXCEPT !.clr = NoLink, !.any = FALSE] \in Local
<1>1. \A n \in Nat \cup {None} : [r EXCEPT !.rx = n] \in Local
  BY DEF Local
<1>2. \A n \in Nat \cup {None} : [r EXCEPT !.only = n] \in Local
  BY DEF Local
<1>3. \A a \in Addr : [r EXCEPT !.addr = a] \in Local
  BY DEF Local
<1>4. \A S \in SUBSET Addr : [r EXCEPT !.todo = S] \in Local
  BY DEF Local
<1>5. \A S \in SUBSET Addr, a \in Addr :
       [r EXCEPT !.todo = S, !.addr = a, !.only = None, !.rx = None] \in Local
  BY DEF Local
<1>6. \A n \in Nat : [r EXCEPT !.att = n] \in Local
  BY DEF Local
<1>7. \A b \in BOOLEAN : [r EXCEPT !.was = b] \in Local
  BY DEF Local
<1>8. \A b \in BOOLEAN : [r EXCEPT !.any = b] \in Local
  BY DEF Local
<1>9. \A n, m \in Nat, b \in BOOLEAN :
       [r EXCEPT !.rx = n, !.only = n, !.was = b, !.born = m] \in Local
  BY DEF Local
<1>10. \A link \in Link : [r EXCEPT !.clr = link] \in Local
  BY DEF Local
<1>11. [r EXCEPT !.clr = NoLink, !.any = FALSE] \in Local
  BY DEF Local
<1> QED
  BY <1>1, <1>2, <1>3, <1>4, <1>5, <1>6, <1>7, <1>8, <1>9, <1>10, <1>11

\* The local variables of a task that starts a call, or has none.
LEMMA IdleLocalType ==
  /\ IdleLocal \in Local
  /\ \A a \in Addr, c \in CallId : [IdleLocal EXCEPT !.op = "connect", !.addr = a, !.call = c] \in Local
  /\ \A a \in Addr : [IdleLocal EXCEPT !.op = "discover", !.addr = a] \in Local
  /\ \A S \in SUBSET Addr : [IdleLocal EXCEPT !.op = "disconnect", !.todo = S] \in Local
  BY DEF Local, IdleLocal

\* What is in the table is a link with an id.
LEMMA LinkIds ==
  ASSUME TypeOK, NEW a \in Addr
  PROVE  Present(a) => links[a] \in Link /\ links[a].id \in Nat
  BY NoneAssumption DEF TypeOK, Present, Link, NoLink

\* The first event of the queue is an event of a device or a power-off.
LEMMA HeadType ==
  ASSUME TypeOK, NEW k, Take(k)
  PROVE  /\ queue' \in Seq(Event)
         /\ k # "poweredoff" => Head(queue).addr \in Addr
<1>1. Head(queue) \in Event /\ queue' \in Seq(Event)
  BY DEF TypeOK, Take
<1> QED
  BY <1>1 DEF Take, Event, PoweredOffEvent

\* A disconnect request leaves the adapter's variables in their types.
LEMMA DisconnectType ==
  ASSUME TypeOK, NEW a \in Addr, Disconnect(a)
  PROVE  dev' \in [Addr -> DevState] /\ queue' \in Seq(Event) /\ drops' \in Nat
<1>1. DisconnectedEvent(a) \in Event
  BY DEF DisconnectedEvent, Event
<1>2. dev' \in [Addr -> DevState] /\ drops' \in Nat
  BY DEF TypeOK, Disconnect, DevState
<1>3. queue \in Seq(Event)
  BY DEF TypeOK
<1>4. queue' \in Seq(Event)
  <2> DEFINE e == DisconnectedEvent(a)
  <2>1. Append(queue, e) \in Seq(Event) /\ <<e, e>> \in Seq(Event)
    BY <1>1, <1>3
  <2>2. queue \o <<e, e>> \in Seq(Event)
    BY <1>3, <2>1
  <2> QED
    BY <1>3, <2>1, <2>2 DEF Disconnect
<1> QED
  BY <1>2, <1>4

-----------------------------------------------------------------------------
(* Types                                                                    *)

\* Every step keeps the types.
LEMMA TypeStep == TypeOK /\ LocalsSet /\ [Next]_vars => TypeOK' /\ LocalsSet'
<1> SUFFICES ASSUME TypeOK, LocalsSet, [Next]_vars PROVE TypeOK' /\ LocalsSet'
  OBVIOUS
<1> USE ActorAssumption, NoneAssumption
<1>0. pc \in [Actor -> Pc] /\ loc \in [Actor -> Local]
  BY DEF TypeOK
<1>1. ASSUME PowerOff PROVE TypeOK' /\ LocalsSet'
  <2>1. PoweredOffEvent \in Event
    BY DEF Event, PoweredOffEvent
  <2>2. dev' \in [Addr -> DevState]
    BY <1>1 DEF PowerOff, TypeOK, DevState
  <2>3. queue' \in Seq(Event)
    <3>1. queue \in Seq(Event)
      BY DEF TypeOK
    <3> QED
      BY <1>1, <2>1, <3>1 DEF PowerOff
  <2>4. TypeOK'
    BY <1>1, <2>2, <2>3 DEF PowerOff, BackendOnly, TypeOK, table, history
  <2>5. LocalsSet'
    BY <1>1 DEF PowerOff, BackendOnly, LocalsSet
  <2> QED
    BY <2>4, <2>5
<1>2. ASSUME NEW a \in Addr, Establish(a) PROVE TypeOK' /\ LocalsSet'
  <2>1. ConnectedEvent(a) \in Event
    BY DEF Event, ConnectedEvent
  <2>2. dev' \in [Addr -> DevState]
    BY <1>2 DEF Establish, TypeOK, DevState
  <2>3. queue' \in Seq(Event)
    <3>1. queue \in Seq(Event)
      BY DEF TypeOK
    <3> QED
      BY <1>2, <2>1, <3>1 DEF Establish
  <2>4. TypeOK'
    BY <1>2, <2>2, <2>3 DEF Establish, BackendOnly, TypeOK, table, history
  <2>5. LocalsSet'
    BY <1>2 DEF Establish, BackendOnly, LocalsSet
  <2> QED
    BY <2>4, <2>5
<1>3. ASSUME NEW a \in Addr, FailConnect(a) PROVE TypeOK' /\ LocalsSet'
  <2>1. DisconnectedEvent(a) \in Event
    BY DEF Event, DisconnectedEvent
  <2>2. dev' \in [Addr -> DevState]
    BY <1>3 DEF FailConnect, TypeOK, DevState
  <2>3. queue' \in Seq(Event)
    <3>1. queue \in Seq(Event)
      BY DEF TypeOK
    <3> QED
      BY <1>3, <2>1, <3>1 DEF FailConnect
  <2>4. TypeOK'
    BY <1>3, <2>2, <2>3 DEF FailConnect, BackendOnly, TypeOK, table, history
  <2>5. LocalsSet'
    BY <1>3 DEF FailConnect, BackendOnly, LocalsSet
  <2> QED
    BY <2>4, <2>5
<1>4. ASSUME NEW a \in Addr, DropLink(a) PROVE TypeOK' /\ LocalsSet'
  <2>1. DisconnectedEvent(a) \in Event
    BY DEF Event, DisconnectedEvent
  <2>2. dev' \in [Addr -> DevState]
    BY <1>4 DEF DropLink, TypeOK, DevState
  <2>3. queue' \in Seq(Event)
    <3>1. queue \in Seq(Event)
      BY DEF TypeOK
    <3> QED
      BY <1>4, <2>1, <3>1 DEF DropLink
  <2>4. TypeOK'
    BY <1>4, <2>2, <2>3 DEF DropLink, BackendOnly, TypeOK, table, history
  <2>5. LocalsSet'
    BY <1>4 DEF DropLink, BackendOnly, LocalsSet
  <2> QED
    BY <2>4, <2>5
<1>5. ASSUME NEW p \in Caller, NEW a \in Addr, CallConnect(p, a) PROVE TypeOK' /\ LocalsSet'
  <2>1. p \in Actor
    BY DEF Actor
  <2>2. calls + 1 \in CallId /\ calls' \in 0 .. MaxCalls
    BY <1>0, <1>5, <2>1, BoundAssumption DEF CallConnect, Call, TypeOK, CallId
  <2>3. loc' \in [Actor -> Local]
    BY <1>0, <1>5, <2>1, <2>2, IdleLocalType, SetLocalType DEF CallConnect
  <2>4. pc' \in [Actor -> Pc]
    BY <1>0, <1>5, <2>1, <2>2, <2>3 DEF CallConnect, Goto, Call, Pc, ConnectPc
  <2>5. TypeOK'
    BY <1>5, <2>1, <2>2, <2>3, <2>4 DEF CallConnect, Call, TypeOK, table, backend, history
  <2>6. LocalsSet'
    BY <1>0, <1>5, <2>1 DEF CallConnect, Call, LocalsSet, Goto, At, SetLocal, Local
  <2> QED
    BY <2>5, <2>6
<1>6. ASSUME NEW p \in Caller, NEW a \in Addr, CallDiscover(p, a) PROVE TypeOK' /\ LocalsSet'
  <2>1. p \in Actor
    BY DEF Actor
  <2>2. calls' \in 0 .. MaxCalls
    BY <1>0, <1>6, <2>1, BoundAssumption DEF CallDiscover, Call, TypeOK
  <2>3. loc' \in [Actor -> Local]
    BY <1>0, <1>6, <2>1, <2>2, IdleLocalType, SetLocalType DEF CallDiscover
  <2>4. pc' \in [Actor -> Pc]
    BY <1>0, <1>6, <2>1, <2>2, <2>3 DEF CallDiscover, Goto, Call, Pc, ConnectPc, DiscoverPc
  <2>5. TypeOK'
    BY <1>6, <2>1, <2>2, <2>3, <2>4 DEF CallDiscover, Call, TypeOK, table, backend, history
  <2>6. LocalsSet'
    BY <1>0, <1>6, <2>1 DEF CallDiscover, Call, LocalsSet, Goto, At, SetLocal, Local
  <2> QED
    BY <2>5, <2>6
<1>7. ASSUME NEW p \in Caller, NEW S \in SUBSET Addr, CallDisconnect(p, S) PROVE TypeOK' /\ LocalsSet'
  <2>1. p \in Actor
    BY DEF Actor
  <2>2. calls' \in 0 .. MaxCalls
    BY <1>0, <1>7, <2>1, BoundAssumption DEF CallDisconnect, Call, TypeOK
  <2>3. loc' \in [Actor -> Local]
    BY <1>0, <1>7, <2>1, <2>2, IdleLocalType, SetLocalType DEF CallDisconnect
  <2>4. pc' \in [Actor -> Pc]
    BY <1>0, <1>7, <2>1, <2>2, <2>3 DEF CallDisconnect, Goto, Call, Pc, DisconnectPc
  <2>5. TypeOK'
    BY <1>7, <2>1, <2>2, <2>3, <2>4 DEF CallDisconnect, Call, TypeOK, table, backend, history
  <2>6. LocalsSet'
    BY <1>0, <1>7, <2>1 DEF CallDisconnect, Call, LocalsSet, Goto, At, SetLocal, Local
  <2> QED
    BY <2>5, <2>6
<1>8. ASSUME NEW p \in Caller, Return(p) PROVE TypeOK' /\ LocalsSet'
  <2>1. p \in Actor
    BY DEF Actor
  <2>2. loc' \in [Actor -> Local]
    BY <1>0, <1>8, <2>1, IdleLocalType, SetLocalType DEF Return
  <2>3. res' \in [CallId -> {"none", "ok", "err"}]
    BY <1>0, <1>8, <2>1, <2>2 DEF Return, TypeOK
  <2>4. pc' \in [Actor -> Pc]
    BY <1>0, <1>8, <2>1, <2>2, <2>3 DEF Return, Goto, Pc
  <2>5. chg' \in [Actor -> BOOLEAN]
    BY <1>8, <2>1, <2>2, <2>3, <2>4, ChgType DEF Return, TypeOK
  <2>6. TypeOK'
    BY <1>8, <2>1, <2>2, <2>3, <2>4, <2>5 DEF Return, TypeOK, table, backend, history
  <2>7. LocalsSet'
    BY <1>0, <1>8, <2>1 DEF Return, LocalsSet, Goto, At, SetLocal, Local
  <2> QED
    BY <2>6, <2>7
<1>9. ASSUME NEW p \in Caller, AcquireConnectLock(p) PROVE TypeOK' /\ LocalsSet'
  <2>1. p \in Actor /\ loc[p].addr \in Addr
    BY <1>9 DEF Actor, LocalsSet, AcquireConnectLock, At
  <2>2. pc' \in [Actor -> Pc]
    BY <1>0, <1>9, <2>1 DEF AcquireConnectLock, Goto, Pc, ConnectPc, DiscoverPc
  <2>3. TypeOK'
    BY <1>9, <2>1, <2>2 DEF AcquireConnectLock, TypeOK, table, backend, history
  <2>4. LocalsSet'
    BY <1>0, <1>9, <2>1 DEF AcquireConnectLock, LocalsSet, Goto, At
  <2> QED
    BY <2>3, <2>4
<1>10. ASSUME NEW p \in Caller, ProbeDevice(p) PROVE TypeOK' /\ LocalsSet'
  <2>1. p \in Actor /\ loc[p].addr \in Addr
    BY <1>10 DEF Actor, LocalsSet, ProbeDevice, At
  <2>2. pc' \in [Actor -> Pc]
    BY <1>0, <1>10, <2>1 DEF ProbeDevice, Goto, Pc, ConnectPc, DiscoverPc
  <2>3. TypeOK'
    BY <1>10, <2>1, <2>2 DEF ProbeDevice, TypeOK, table, backend, history
  <2>4. LocalsSet'
    BY <1>0, <1>10, <2>1 DEF ProbeDevice, LocalsSet, Goto, At
  <2> QED
    BY <2>3, <2>4
<1>11. ASSUME NEW p \in Caller, ReadServices(p) PROVE TypeOK' /\ LocalsSet'
  <2>1. p \in Actor
    BY DEF Actor
  <2>2. pc' \in [Actor -> Pc]
    BY <1>0, <1>11, <2>1 DEF ReadServices, Goto, Pc
  <2>3. TypeOK'
    BY <1>11, <2>2 DEF ReadServices, TypeOK, table, backend, history
  <2>4. LocalsSet'
    BY <1>0, <1>11, <2>1 DEF ReadServices, LocalsSet, Goto, At
  <2> QED
    BY <2>3, <2>4
<1>12. ASSUME NEW p \in Caller, OpenLink(p) PROVE TypeOK' /\ LocalsSet'
  <2>1. p \in Actor /\ loc[p].addr \in Addr
    BY <1>12 DEF Actor, LocalsSet, OpenLink, At
  <2>2. loc' \in [Actor -> Local]
    BY <1>0, <1>12, <2>1, RecordUpdate, SetLocalType, LinkIds DEF OpenLink, TypeOK
  <2>3. links' \in [Addr -> Link \cup {NoLink}]
    <3>1. \A n \in Nat, b \in BOOLEAN :
            [id |-> n, temporary |-> b, owner |-> None] \in Link
      BY DEF Link
    <3>2. links \in [Addr -> Link \cup {NoLink}] /\ nextId \in Nat
      BY DEF TypeOK
    <3>3. (loc[p].op = "discover") \in BOOLEAN
      OBVIOUS
    <3>4. [id |-> nextId, temporary |-> loc[p].op = "discover", owner |-> None] \in Link
      BY <3>1, <3>2, <3>3
    <3> QED
      BY <1>12, <3>2, <3>4 DEF OpenLink
  <2>4. pc' \in [Actor -> Pc]
    BY <1>0, <1>12, <2>1, <2>2, <2>3 DEF OpenLink, Goto, Pc, ConnectPc
  <2>5. chg' \in [Actor -> BOOLEAN]
    BY <1>12, <2>1, <2>2, <2>3, <2>4, ChgType DEF OpenLink, TypeOK
  <2>6. TypeOK'
    BY <1>12, <2>1, <2>2, <2>3, <2>4, <2>5 DEF OpenLink, TypeOK, table, backend, history
  <2>7. LocalsSet'
    BY <1>0, <1>12, <2>1 DEF OpenLink, LocalsSet, Goto, At, SetLocal, Local
  <2> QED
    BY <2>6, <2>7
<1>13. ASSUME NEW p \in Caller, CheckConnected(p) PROVE TypeOK' /\ LocalsSet'
  <2>1. p \in Actor /\ loc[p].addr \in Addr
    BY <1>13 DEF Actor, LocalsSet, CheckConnected, At
  <2>2. dev' \in [Addr -> DevState]
    BY <1>0, <1>13, <2>1 DEF CheckConnected, TypeOK, DevState, backend
  <2>3. up \subseteq Nat /\ (Present(loc[p].addr) => links[loc[p].addr].id \in Nat)
    BY <1>0, <1>13, <2>1, <2>2, LinkIds DEF CheckConnected, TypeOK
  <2>4. up' \subseteq Nat
    BY <1>0, <1>13, <2>1, <2>2, <2>3 DEF CheckConnected
  <2>5. pc' \in [Actor -> Pc]
    BY <1>0, <1>13, <2>1, <2>2, <2>3, <2>4 DEF CheckConnected, Goto, Opened, Pc, ConnectPc,
       DiscoverPc
  <2>6. chg' \in [Actor -> BOOLEAN]
    BY <1>13, <2>1, <2>2, <2>3, <2>4, <2>5, ChgType DEF CheckConnected, TypeOK
  <2>7. TypeOK'
    BY <1>13, <2>1, <2>2, <2>3, <2>4, <2>5, <2>6 DEF CheckConnected, Opened, TypeOK, table,
       backend, history
  <2>8. LocalsSet'
    BY <1>0, <1>13, <2>1 DEF CheckConnected, Opened, LocalsSet, Goto, At
  <2> QED
    BY <2>7, <2>8
<1>14. ASSUME NEW p \in Caller, ConnectReturns(p) PROVE TypeOK' /\ LocalsSet'
  <2>1. p \in Actor /\ loc[p].addr \in Addr
    BY <1>14 DEF Actor, LocalsSet, ConnectReturns, At
  <2>2. pc' \in [Actor -> Pc]
    BY <1>0, <1>14, <2>1 DEF ConnectReturns, Goto, Opened, Pc, ConnectPc, DiscoverPc
  <2>3. chg' \in [Actor -> BOOLEAN]
    BY <1>14, <2>1, <2>2, ChgType DEF ConnectReturns, TypeOK
  <2>4. TypeOK'
    BY <1>14, <2>1, <2>2, <2>3 DEF ConnectReturns, Opened, TypeOK, table, backend, history
  <2>5. LocalsSet'
    BY <1>0, <1>14, <2>1 DEF ConnectReturns, Opened, LocalsSet, Goto, At
  <2> QED
    BY <2>4, <2>5
<1>15. ASSUME NEW p \in Caller, AwaitConnected(p) PROVE TypeOK' /\ LocalsSet'
  <2>1. p \in Actor /\ loc[p].addr \in Addr
    BY <1>15 DEF Actor, LocalsSet, AwaitConnected, At
  <2>2. pc' \in [Actor -> Pc]
    BY <1>0, <1>15, <2>1 DEF AwaitConnected, Goto, Opened, Pc, ConnectPc, DiscoverPc
  <2>3. chg' \in [Actor -> BOOLEAN]
    BY <1>15, <2>1, <2>2, ChgType DEF AwaitConnected, TypeOK
  <2>4. TypeOK'
    BY <1>15, <2>1, <2>2, <2>3 DEF AwaitConnected, Opened, TypeOK, table, backend, history
  <2>5. LocalsSet'
    BY <1>0, <1>15, <2>1 DEF AwaitConnected, Opened, LocalsSet, Goto, At
  <2> QED
    BY <2>4, <2>5
<1>16. ASSUME NEW p \in Caller, CancelAttempt(p) PROVE TypeOK' /\ LocalsSet'
  <2>1. p \in Actor /\ loc[p].addr \in Addr
    BY <1>16 DEF Actor, LocalsSet, CancelAttempt, At
  <2>2. dev' \in [Addr -> DevState] /\ queue' \in Seq(Event) /\ drops' \in Nat
    BY <1>0, <1>16, <2>1, DisconnectType DEF CancelAttempt
  <2>3. pc' \in [Actor -> Pc]
    BY <1>0, <1>16, <2>1, <2>2 DEF CancelAttempt, Goto, Pc, ConnectPc
  <2>4. TypeOK'
    BY <1>16, <2>1, <2>2, <2>3 DEF CancelAttempt, TypeOK, table, backend, history
  <2>5. LocalsSet'
    BY <1>0, <1>16, <2>1 DEF CancelAttempt, LocalsSet, Goto, At
  <2> QED
    BY <2>4, <2>5
<1>17. ASSUME NEW p \in Caller, AttemptFailed(p) PROVE TypeOK' /\ LocalsSet'
  <2>1. p \in Actor /\ loc[p].addr \in Addr
    BY <1>17 DEF Actor, LocalsSet, AttemptFailed, At
  <2>2. loc[p].att + 1 \in Nat
    BY <1>0, <1>17, <2>1 DEF AttemptFailed, Local
  <2>3. loc' \in [Actor -> Local]
    BY <1>0, <1>17, <2>1, <2>2, RecordUpdate, SetLocalType DEF AttemptFailed
  <2>4. pc' \in [Actor -> Pc]
    BY <1>0, <1>17, <2>1, <2>2, <2>3 DEF AttemptFailed, Goto, Pc, ConnectPc, ClearPc
  <2>5. TypeOK'
    BY <1>17, <2>1, <2>2, <2>3, <2>4 DEF AttemptFailed, TypeOK, table, backend, history
  <2>6. LocalsSet'
    BY <1>0, <1>17, <2>1 DEF AttemptFailed, LocalsSet, Goto, At, SetLocal, Local
  <2> QED
    BY <2>5, <2>6
<1>18. ASSUME NEW p \in Caller, GiveUp(p) PROVE TypeOK' /\ LocalsSet'
  <2>1. p \in Actor /\ loc[p].addr \in Addr
    BY <1>18 DEF Actor, LocalsSet, GiveUp, At
  <2>2. dev' \in [Addr -> DevState] /\ queue' \in Seq(Event) /\ drops' \in Nat
    BY <1>0, <1>18, <2>1, DisconnectType DEF GiveUp, TypeOK, backend
  <2>3. loc' \in [Actor -> Local]
    BY <1>0, <1>18, <2>1, <2>2, RecordUpdate, SetLocalType DEF GiveUp
  <2>4. pc' \in [Actor -> Pc]
    BY <1>0, <1>18, <2>1, <2>2, <2>3 DEF GiveUp, Goto, Pc, ClearPc
  <2>5. TypeOK'
    BY <1>18, <2>1, <2>2, <2>3, <2>4 DEF GiveUp, TypeOK, table, backend, history
  <2>6. LocalsSet'
    BY <1>0, <1>18, <2>1 DEF GiveUp, LocalsSet, Goto, At, SetLocal, Local
  <2> QED
    BY <2>5, <2>6
<1>19. ASSUME NEW p \in Caller, FindServices(p) PROVE TypeOK' /\ LocalsSet'
  <2>1. p \in Actor /\ loc[p].addr \in Addr
    BY <1>19 DEF Actor, LocalsSet, FindServices, At
  <2>2. pc' \in [Actor -> Pc]
    BY <1>0, <1>19, <2>1 DEF FindServices, Goto, Pc, ConnectPc, DisconnectPc
  <2>3. TypeOK'
    BY <1>19, <2>1, <2>2 DEF FindServices, TypeOK, table, backend, history
  <2>4. LocalsSet'
    BY <1>0, <1>19, <2>1 DEF FindServices, LocalsSet, Goto, At
  <2> QED
    BY <2>3, <2>4
<1>20. ASSUME NEW p \in Caller, DiscoverServices(p) PROVE TypeOK' /\ LocalsSet'
  <2>1. p \in Actor /\ loc[p].addr \in Addr
    BY <1>20 DEF Actor, LocalsSet, DiscoverServices, At
  <2>2. pc' \in [Actor -> Pc]
    BY <1>0, <1>20, <2>1 DEF DiscoverServices, Goto, Pc, ConnectPc, DisconnectPc
  <2>3. TypeOK'
    BY <1>20, <2>1, <2>2 DEF DiscoverServices, TypeOK, table, backend, history
  <2>4. LocalsSet'
    BY <1>0, <1>20, <2>1 DEF DiscoverServices, LocalsSet, Goto, At
  <2> QED
    BY <2>3, <2>4
<1>21. ASSUME NEW p \in Caller, InstallCallback(p) PROVE TypeOK' /\ LocalsSet'
  <2>1. p \in Actor /\ loc[p].addr \in Addr
    BY <1>21 DEF Actor, LocalsSet, InstallCallback, At
  <2>2. loc[p].call \in CallId \cup {None}
    BY <1>0, <1>21, <2>1 DEF InstallCallback, Local
  <2>3. links' \in [Addr -> Link \cup {NoLink}]
    <3>1. \A link \in Link, c \in CallId \cup {None} : [link EXCEPT !.owner = c] \in Link
      BY DEF Link
    <3>2. links \in [Addr -> Link \cup {NoLink}]
      BY DEF TypeOK
    <3>3. links' = links \/ links' = [links EXCEPT ![loc[p].addr] =
                             [links[loc[p].addr] EXCEPT !.owner = loc[p].call]]
      BY <1>21 DEF InstallCallback
    <3> QED
      BY <1>21, <2>1, <2>2, <3>1, <3>2, <3>3, LinkIds DEF InstallCallback
  <2>4. cb' \in [CallId -> {"idle", "armed", "replaced", "run"}]
    BY <1>0, <1>21, <2>1, <2>2, <2>3 DEF InstallCallback, TypeOK
  <2>5. cbLink' \in [CallId -> Nat \cup {None}]
    BY <1>0, <1>21, <2>1, <2>2, <2>3, <2>4, LinkIds DEF InstallCallback, TypeOK
  <2>6. pc' \in [Actor -> Pc]
    BY <1>0, <1>21, <2>1, <2>2, <2>3, <2>4, <2>5 DEF InstallCallback, Goto, Pc, ConnectPc
  <2>7. TypeOK'
    BY <1>21, <2>1, <2>2, <2>3, <2>4, <2>5, <2>6 DEF InstallCallback, TypeOK, table, backend,
       history
  <2>8. LocalsSet'
    BY <1>0, <1>21, <2>1 DEF InstallCallback, LocalsSet, Goto, At
  <2> QED
    BY <2>7, <2>8
<1>22. ASSUME NEW p \in Caller, ReportConnected(p) PROVE TypeOK' /\ LocalsSet'
  <2>1. p \in Actor /\ loc[p].addr \in Addr
    BY <1>22 DEF Actor, LocalsSet, ReportConnected, At
  <2>2. pc' \in [Actor -> Pc]
    BY <1>0, <1>22, <2>1 DEF ReportConnected, Goto, Pc
  <2>3. TypeOK'
    BY <1>22, <2>1, <2>2 DEF ReportConnected, TypeOK, table, backend, history
  <2>4. LocalsSet'
    BY <1>0, <1>22, <2>1 DEF ReportConnected, LocalsSet, Goto, At
  <2> QED
    BY <2>3, <2>4
<1>23. ASSUME NEW p \in Caller, OpenedForDiscovery(p) PROVE TypeOK' /\ LocalsSet'
  <2>1. p \in Actor /\ loc[p].addr \in Addr
    BY <1>23 DEF Actor, LocalsSet, OpenedForDiscovery, At
  <2>2. loc' \in [Actor -> Local]
    BY <1>0, <1>23, <2>1, RecordUpdate, SetLocalType, LinkIds DEF OpenedForDiscovery, TypeOK
  <2>3. pc' \in [Actor -> Pc]
    BY <1>0, <1>23, <2>1, <2>2 DEF OpenedForDiscovery, Goto, Pc, DiscoverPc
  <2>4. chg' \in [Actor -> BOOLEAN]
    BY <1>23, <2>1, <2>2, <2>3, ChgType DEF OpenedForDiscovery, TypeOK
  <2>5. TypeOK'
    BY <1>23, <2>1, <2>2, <2>3, <2>4 DEF OpenedForDiscovery, TypeOK, table, backend, history
  <2>6. LocalsSet'
    BY <1>0, <1>23, <2>1 DEF OpenedForDiscovery, LocalsSet, Goto, At, SetLocal, Local
  <2> QED
    BY <2>5, <2>6
<1>24. ASSUME NEW p \in Caller, ReadAndRelease(p) PROVE TypeOK' /\ LocalsSet'
  <2>1. p \in Actor /\ loc[p].addr \in Addr
    BY <1>24 DEF Actor, LocalsSet, ReadAndRelease, At
  <2>2. loc[p].rx \in Nat \cup {None}
    BY <1>0, <1>24, <2>1 DEF ReadAndRelease, Local
  <2>3. loc' \in [Actor -> Local]
    BY <1>0, <1>24, <2>1, <2>2, RecordUpdate, SetLocalType DEF ReadAndRelease
  <2>4. pc' \in [Actor -> Pc]
    BY <1>0, <1>24, <2>1, <2>2, <2>3 DEF ReadAndRelease, Goto, Pc, DiscoverPc, ClearPc
  <2>5. chg' \in [Actor -> BOOLEAN]
    BY <1>24, <2>1, <2>2, <2>3, <2>4, ChgType DEF ReadAndRelease, TypeOK
  <2>6. TypeOK'
    BY <1>24, <2>1, <2>2, <2>3, <2>4, <2>5 DEF ReadAndRelease, TypeOK, table, backend, history
  <2>7. LocalsSet'
    BY <1>0, <1>24, <2>1 DEF ReadAndRelease, LocalsSet, Goto, At, SetLocal, Local
  <2> QED
    BY <2>6, <2>7
<1>25. ASSUME NEW p \in Caller, ReleaseDevice(p) PROVE TypeOK' /\ LocalsSet'
  <2>1. p \in Actor /\ loc[p].addr \in Addr
    BY <1>25 DEF Actor, LocalsSet, ReleaseDevice, At
  <2>2. dev' \in [Addr -> DevState] /\ queue' \in Seq(Event) /\ drops' \in Nat
    BY <1>0, <1>25, <2>1, DisconnectType DEF ReleaseDevice
  <2>3. pc' \in [Actor -> Pc]
    BY <1>0, <1>25, <2>1, <2>2 DEF ReleaseDevice, Goto, Pc, DiscoverPc
  <2>4. TypeOK'
    BY <1>25, <2>1, <2>2, <2>3 DEF ReleaseDevice, TypeOK, table, backend, history
  <2>5. LocalsSet'
    BY <1>0, <1>25, <2>1 DEF ReleaseDevice, LocalsSet, Goto, At
  <2> QED
    BY <2>4, <2>5
<1>26. ASSUME NEW p \in Caller, WaitReleased(p) PROVE TypeOK' /\ LocalsSet'
  <2>1. p \in Actor /\ loc[p].addr \in Addr
    BY <1>26 DEF Actor, LocalsSet, WaitReleased, At
  <2>2. pc' \in [Actor -> Pc]
    BY <1>0, <1>26, <2>1 DEF WaitReleased, Goto, Pc, ClearPc
  <2>3. chg' \in [Actor -> BOOLEAN]
    BY <1>26, <2>1, <2>2, ChgType DEF WaitReleased, TypeOK
  <2>4. TypeOK'
    BY <1>26, <2>1, <2>2, <2>3 DEF WaitReleased, TypeOK, table, backend, history
  <2>5. LocalsSet'
    BY <1>0, <1>26, <2>1 DEF WaitReleased, LocalsSet, Goto, At
  <2> QED
    BY <2>4, <2>5
<1>27. ASSUME NEW x \in Actor, NextAddress(x) PROVE TypeOK' /\ LocalsSet'
  <2>1. \A a \in loc[x].todo : a \in Addr /\ loc[x].todo \ {a} \in SUBSET Addr
    BY <1>0, <1>27 DEF NextAddress, Local
  <2>2. loc' \in [Actor -> Local]
    BY <1>0, <1>27, <2>1, RecordUpdate, SetLocalType, IdleLocalType DEF NextAddress
  <2>3. pc' \in [Actor -> Pc]
    BY <1>0, <1>27, <2>1, <2>2 DEF NextAddress, Goto, Pc, DisconnectPc, ClearPc
  <2>4. TypeOK'
    BY <1>27, <2>1, <2>2, <2>3 DEF NextAddress, TypeOK, table, backend, history
  <2>5. LocalsSet'
    <3>1. CASE loc[x].todo = {} /\ pc' = [pc EXCEPT ![x] = IF x = Pump THEN "idle" ELSE "done"]
          /\ (loc' = loc \/ loc' = [loc EXCEPT ![x] = IdleLocal])
      BY <1>0, <3>1 DEF LocalsSet
    <3>2. ASSUME NEW a \in loc[x].todo, Goto(x, IF x = Pump THEN "clear" ELSE "lookup"),
                 SetLocal(x, [loc[x] EXCEPT !.todo = loc[x].todo \ {a}, !.addr = a,
                                            !.only = None, !.rx = None])
          PROVE  LocalsSet'
      <4>1. a \in Addr
        BY <1>0, <2>1 DEF Local
      <4>2. \A y \in Actor \ {x} : pc'[y] = pc[y] /\ loc'[y] = loc[y]
        BY <1>0, <3>2 DEF Goto, SetLocal
      <4>3. pc'[x] \in {"clear", "lookup"} /\ loc'[x].addr = a
        BY <1>0, <2>1, <3>2 DEF Goto, SetLocal, Local
      <4> QED
        BY <4>1, <4>2, <4>3 DEF LocalsSet
    <3> QED
      BY <1>27, <3>1, <3>2 DEF NextAddress, Goto, SetLocal
  <2> QED
    BY <2>4, <2>5
<1>28. ASSUME NEW p \in Caller, LookupLink(p) PROVE TypeOK' /\ LocalsSet'
  <2>1. p \in Actor /\ loc[p].addr \in Addr
    BY <1>28 DEF Actor, LocalsSet, LookupLink, At
  <2>2. nextId \in Nat
    BY <1>0, <1>28, <2>1 DEF LookupLink, TypeOK
  <2>3. Visible(loc[p].addr) => links[loc[p].addr].id \in Nat
    BY <1>0, <1>28, <2>1, <2>2, LinkIds DEF LookupLink, Visible
  <2>4. loc' \in [Actor -> Local]
    <3> DEFINE link == links[loc[p].addr]
    <3>1. (link.id \in up) \in BOOLEAN
      OBVIOUS
    <3>2. Visible(loc[p].addr) => [loc[p] EXCEPT !.rx = link.id, !.only = link.id,
                              !.was = link.id \in up, !.born = nextId] \in Local
      BY <1>0, <2>1, <2>2, <2>3, <3>1, RecordUpdate
    <3> QED
      BY <1>0, <1>28, <2>1, <3>2, SetLocalType DEF LookupLink
  <2>5. pc' \in [Actor -> Pc]
    BY <1>0, <1>28, <2>1, <2>2, <2>3, <2>4 DEF LookupLink, Goto, AfterDisconnect, Pc,
       DisconnectPc
  <2>6. chg' \in [Actor -> BOOLEAN]
    BY <1>28, <2>1, <2>2, <2>3, <2>4, <2>5, ChgType DEF LookupLink, TypeOK
  <2>7. TypeOK'
    BY <1>28, <2>1, <2>2, <2>3, <2>4, <2>5, <2>6 DEF LookupLink, AfterDisconnect, TypeOK,
       table, backend, history
  <2>8. LocalsSet'
    <3>1. CASE Visible(loc[p].addr)
      <4> DEFINE link == links[loc[p].addr]
      <4>1. PICK b \in BOOLEAN : SetLocal(p, [loc[p] EXCEPT !.rx = link.id, !.only = link.id,
                                                             !.was = b, !.born = nextId])
        <5>1. (link.id \in up) \in BOOLEAN
          OBVIOUS
        <5> QED
          BY <1>28, <3>1, <5>1 DEF LookupLink
      <4>2. pc' = [pc EXCEPT ![p] = "query"]
        BY <1>28, <3>1 DEF LookupLink, Goto
      <4>3. \A y \in Actor \ {p} : pc'[y] = pc[y] /\ loc'[y] = loc[y]
        BY <1>0, <4>1, <4>2 DEF SetLocal
      <4>4. pc'[p] = "query" /\ loc'[p].addr \in Addr
        BY <1>0, <2>1, <4>1, <4>2 DEF SetLocal, Local
      <4> QED
        BY <4>3, <4>4 DEF LocalsSet
    <3>2. CASE ~Visible(loc[p].addr)
      BY <1>0, <1>28, <2>1, <3>2 DEF LookupLink, AfterDisconnect, LocalsSet, Goto, At
    <3> QED
      BY <3>1, <3>2
  <2> QED
    BY <2>7, <2>8
<1>29. ASSUME NEW p \in Caller, QueryConnected(p) PROVE TypeOK' /\ LocalsSet'
  <2>1. p \in Actor /\ loc[p].addr \in Addr
    BY <1>29 DEF Actor, LocalsSet, QueryConnected, At
  <2>2. loc' \in [Actor -> Local]
    BY <1>0, <1>29, <2>1, RecordUpdate, SetLocalType DEF QueryConnected
  <2>3. pc' \in [Actor -> Pc]
    BY <1>0, <1>29, <2>1, <2>2 DEF QueryConnected, Goto, Pc, DisconnectPc
  <2>4. TypeOK'
    BY <1>29, <2>1, <2>2, <2>3 DEF QueryConnected, TypeOK, table, backend, history
  <2>5. LocalsSet'
    <3>1. \A y \in Actor \ {p} : pc'[y] = pc[y] /\ loc'[y] = loc[y]
      BY <1>0, <1>29 DEF QueryConnected, Goto, SetLocal
    <3>2. pc'[p] = "drop" /\ loc'[p].addr = loc[p].addr
      BY <1>0, <1>29, <2>1 DEF QueryConnected, Goto, SetLocal, Local
    <3> QED
      BY <2>1, <3>1, <3>2 DEF LocalsSet
  <2> QED
    BY <2>4, <2>5
<1>30. ASSUME NEW p \in Caller, DropDevice(p) PROVE TypeOK' /\ LocalsSet'
  <2>1. p \in Actor /\ loc[p].addr \in Addr
    BY <1>30 DEF Actor, LocalsSet, DropDevice, At
  <2>2. dev' \in [Addr -> DevState] /\ queue' \in Seq(Event) /\ drops' \in Nat
    BY <1>0, <1>30, <2>1, DisconnectType DEF DropDevice
  <2>3. pc' \in [Actor -> Pc]
    BY <1>0, <1>30, <2>1, <2>2 DEF DropDevice, Goto, Pc, DisconnectPc, ClearPc
  <2>4. TypeOK'
    BY <1>30, <2>1, <2>2, <2>3 DEF DropDevice, TypeOK, table, backend, history
  <2>5. LocalsSet'
    BY <1>0, <1>30, <2>1 DEF DropDevice, LocalsSet, Goto, At
  <2> QED
    BY <2>4, <2>5
<1>31. ASSUME NEW p \in Caller, WaitDisconnected(p) PROVE TypeOK' /\ LocalsSet'
  <2>1. p \in Actor /\ loc[p].addr \in Addr
    BY <1>31 DEF Actor, LocalsSet, WaitDisconnected, At
  <2>2. pc' \in [Actor -> Pc]
    BY <1>0, <1>31, <2>1 DEF WaitDisconnected, Goto, AfterDisconnect, Pc, DisconnectPc,
       ClearPc
  <2>3. chg' \in [Actor -> BOOLEAN]
    BY <1>31, <2>1, <2>2, ChgType DEF WaitDisconnected, TypeOK
  <2>4. TypeOK'
    BY <1>31, <2>1, <2>2, <2>3 DEF WaitDisconnected, AfterDisconnect, TypeOK, table, backend,
       history
  <2>5. LocalsSet'
    BY <1>0, <1>31, <2>1 DEF WaitDisconnected, AfterDisconnect, LocalsSet, Goto, At
  <2> QED
    BY <2>4, <2>5
<1>32. ASSUME NEW x \in Actor, RemoveLink(x) PROVE TypeOK' /\ LocalsSet'
  <2>1. loc[x].addr \in Addr
    BY <1>32 DEF Actor, LocalsSet, RemoveLink, At
  <2>2. loc' \in [Actor -> Local]
    BY <1>0, <1>32, <2>1, RecordUpdate, SetLocalType, LinkIds DEF RemoveLink
  <2>3. links' \in [Addr -> Link \cup {NoLink}]
    BY <1>0, <1>32, <2>1, <2>2 DEF RemoveLink, TypeOK
  <2>4. pc' \in [Actor -> Pc]
    BY <1>0, <1>32, <2>1, <2>2, <2>3 DEF RemoveLink, Goto, AfterClear, AfterDisconnect, Pc,
       DisconnectPc, ClearPc
  <2>5. TypeOK'
    BY <1>32, <2>1, <2>2, <2>3, <2>4 DEF RemoveLink, AfterClear, AfterDisconnect, TypeOK,
       table, backend, history
  <2>6. LocalsSet'
    BY <1>0, <1>32, <2>1, LinkIds DEF RemoveLink, AfterClear, AfterDisconnect, LocalsSet,
       Goto, At, SetLocal, Local
  <2> QED
    BY <2>5, <2>6
<1>33. ASSUME NEW x \in Actor, RunCallback(x) PROVE TypeOK' /\ LocalsSet'
  <2>1. loc[x].addr \in Addr
    BY <1>33 DEF Actor, LocalsSet, RunCallback, At
  <2>2. cb' \in [CallId -> {"idle", "armed", "replaced", "run"}]
    BY <1>0, <1>33, <2>1 DEF RunCallback, TypeOK
  <2>3. pc' \in [Actor -> Pc]
    BY <1>0, <1>33, <2>1, <2>2 DEF RunCallback, Goto, Pc, ClearPc
  <2>4. TypeOK'
    BY <1>33, <2>1, <2>2, <2>3 DEF RunCallback, TypeOK, table, backend, history
  <2>5. LocalsSet'
    BY <1>0, <1>33, <2>1 DEF RunCallback, LocalsSet, Goto, At
  <2> QED
    BY <2>4, <2>5
<1>34. ASSUME NEW x \in Actor, ComputeUpdate(x) PROVE TypeOK' /\ LocalsSet'
  <2>1. loc[x].addr \in Addr
    BY <1>34 DEF Actor, LocalsSet, ComputeUpdate, At
  <2>2. loc' \in [Actor -> Local]
    BY <1>0, <1>34, <2>1, RecordUpdate, SetLocalType DEF ComputeUpdate
  <2>3. pc' \in [Actor -> Pc]
    BY <1>0, <1>34, <2>1, <2>2 DEF ComputeUpdate, Goto, Pc, ClearPc
  <2>4. TypeOK'
    BY <1>34, <2>1, <2>2, <2>3 DEF ComputeUpdate, TypeOK, table, backend, history
  <2>5. LocalsSet'
    BY <1>0, <1>34, <2>1 DEF ComputeUpdate, LocalsSet, Goto, At, SetLocal, Local
  <2> QED
    BY <2>4, <2>5
<1>35. ASSUME NEW x \in Actor, ReportDisconnected(x) PROVE TypeOK' /\ LocalsSet'
  <2>1. loc[x].addr \in Addr
    BY <1>35 DEF Actor, LocalsSet, ReportDisconnected, At
  <2>2. loc[x].clr.id \in Nat /\ loc[x].any \in BOOLEAN
    BY <1>0, <1>35, <2>1 DEF ReportDisconnected, LocalsSet, At, Local, Link
  <2>3. pc' \in [Actor -> Pc]
    BY <1>0, <1>35, <2>1, <2>2 DEF ReportDisconnected, Goto, Pc, ClearPc
  <2>4. TypeOK'
    BY <1>35, <2>1, <2>2, <2>3 DEF ReportDisconnected, TypeOK, table, backend, history
  <2>5. LocalsSet'
    BY <1>0, <1>35, <2>1 DEF ReportDisconnected, LocalsSet, Goto, At
  <2> QED
    BY <2>4, <2>5
<1>36. ASSUME NEW x \in Actor, SignalClosed(x) PROVE TypeOK' /\ LocalsSet'
  <2>1. loc[x].addr \in Addr
    BY <1>36 DEF Actor, LocalsSet, SignalClosed, At
  <2>2. loc[x].clr.id \in Nat
    BY <1>0, <1>36, <2>1 DEF SignalClosed, LocalsSet, At, Link
  <2>3. loc' \in [Actor -> Local]
    BY <1>0, <1>36, <2>1, <2>2, RecordUpdate, SetLocalType DEF SignalClosed
  <2>4. pc' \in [Actor -> Pc]
    BY <1>0, <1>36, <2>1, <2>2, <2>3 DEF SignalClosed, Goto, AfterClear, AfterDisconnect, Pc,
       DisconnectPc
  <2>5. chg' \in [Actor -> BOOLEAN]
    BY <1>36, <2>1, <2>2, <2>3, <2>4, ChgType DEF SignalClosed, TypeOK
  <2>6. TypeOK'
    BY <1>36, <2>1, <2>2, <2>3, <2>4, <2>5 DEF SignalClosed, AfterClear, AfterDisconnect,
       TypeOK, table, backend, history
  <2>7. LocalsSet'
    BY <1>0, <1>36, <2>1 DEF SignalClosed, AfterClear, AfterDisconnect, LocalsSet, Goto, At,
       SetLocal, Local
  <2> QED
    BY <2>6, <2>7
<1>37. ASSUME HandleConnect PROVE TypeOK' /\ LocalsSet'
  <2>1. Pump \in Actor
    BY DEF Actor
  <2>2. queue' \in Seq(Event) /\ Head(queue).addr \in Addr
    BY <1>0, <1>37, <2>1, HeadType DEF HandleConnect
  <2>3. loc' \in [Actor -> Local]
    BY <1>0, <1>37, <2>1, <2>2, RecordUpdate, SetLocalType DEF HandleConnect
  <2>4. up' \subseteq Nat
    BY <1>0, <1>37, <2>1, <2>2, <2>3, LinkIds DEF HandleConnect, Take, TypeOK
  <2>5. chg' \in [Actor -> BOOLEAN]
    BY <1>0, <1>37, <2>1, <2>2, <2>3, <2>4, ChgType DEF HandleConnect, TypeOK
  <2>6. pc' \in [Actor -> Pc]
    BY <1>0, <1>37, <2>1, <2>2, <2>3, <2>4, <2>5 DEF HandleConnect, Goto, Take, Pc
  <2>7. TypeOK'
    BY <1>37, <2>1, <2>2, <2>3, <2>4, <2>5, <2>6 DEF HandleConnect, Take, TypeOK, table,
       backend, history
  <2>8. LocalsSet'
    <3>1. CASE UNCHANGED <<pc, loc>>
      BY <3>1 DEF LocalsSet
    <3>2. CASE SetLocal(Pump, [loc[Pump] EXCEPT !.addr = Head(queue).addr]) /\ Goto(Pump, "reject")
      BY <1>0, <2>1, <2>2, <3>2 DEF LocalsSet, Goto, SetLocal, Local
    <3> QED
      BY <1>37, <3>1, <3>2 DEF HandleConnect
  <2> QED
    BY <2>7, <2>8
<1>38. ASSUME HandleDisconnect PROVE TypeOK' /\ LocalsSet'
  <2>1. Pump \in Actor
    BY DEF Actor
  <2>2. queue' \in Seq(Event) /\ Head(queue).addr \in Addr
    BY <1>0, <1>38, <2>1, HeadType DEF HandleDisconnect
  <2>3. loc' \in [Actor -> Local]
    BY <1>0, <1>38, <2>1, <2>2, RecordUpdate, SetLocalType DEF HandleDisconnect
  <2>4. pc' \in [Actor -> Pc]
    BY <1>0, <1>38, <2>1, <2>2, <2>3 DEF HandleDisconnect, Goto, Take, Pc, ClearPc
  <2>5. TypeOK'
    BY <1>38, <2>1, <2>2, <2>3, <2>4 DEF HandleDisconnect, Take, TypeOK, table, backend,
       history
  <2>6. LocalsSet'
    <3>1. CASE UNCHANGED <<pc, loc>>
      BY <3>1 DEF LocalsSet
    <3>2. CASE SetLocal(Pump, [loc[Pump] EXCEPT !.addr = Head(queue).addr]) /\ Goto(Pump, "clear")
      BY <1>0, <2>1, <2>2, <3>2 DEF LocalsSet, Goto, SetLocal, Local
    <3> QED
      BY <1>38, <3>1, <3>2 DEF HandleDisconnect
  <2> QED
    BY <2>5, <2>6
<1>39. ASSUME HandlePoweredOff PROVE TypeOK' /\ LocalsSet'
  <2>1. Pump \in Actor
    BY DEF Actor
  <2>2. queue' \in Seq(Event)
    BY <1>0, <1>39, <2>1, HeadType DEF HandlePoweredOff
  <2>3. loc' \in [Actor -> Local]
    BY <1>0, <1>39, <2>1, <2>2, RecordUpdate, SetLocalType DEF HandlePoweredOff
  <2>4. pc' \in [Actor -> Pc]
    BY <1>0, <1>39, <2>1, <2>2, <2>3 DEF HandlePoweredOff, Goto, Take, Pc, DisconnectPc
  <2>5. TypeOK'
    BY <1>39, <2>1, <2>2, <2>3, <2>4 DEF HandlePoweredOff, Take, TypeOK, table, backend,
       history
  <2>6. LocalsSet'
    BY <1>0, <1>39, <2>2, <2>1 DEF HandlePoweredOff, Take, LocalsSet, Goto, At, SetLocal,
       Local
  <2> QED
    BY <2>5, <2>6
<1>40. ASSUME RejectDevice PROVE TypeOK' /\ LocalsSet'
  <2>1. Pump \in Actor /\ loc[Pump].addr \in Addr
    BY <1>40 DEF Actor, LocalsSet, RejectDevice, At
  <2>2. dev' \in [Addr -> DevState] /\ queue' \in Seq(Event) /\ drops' \in Nat
    BY <1>0, <1>40, <2>1, DisconnectType DEF RejectDevice
  <2>3. loc' \in [Actor -> Local]
    BY <1>0, <1>40, <2>1, <2>2, IdleLocalType, SetLocalType DEF RejectDevice
  <2>4. pc' \in [Actor -> Pc]
    BY <1>0, <1>40, <2>1, <2>2, <2>3 DEF RejectDevice, Goto, Pc
  <2>5. TypeOK'
    BY <1>40, <2>1, <2>2, <2>3, <2>4 DEF RejectDevice, TypeOK, table, backend, history
  <2>6. LocalsSet'
    BY <1>0, <1>40, <2>2, <2>1 DEF RejectDevice, LocalsSet, Goto, At, SetLocal, Local
  <2> QED
    BY <2>5, <2>6
<1>41. ASSUME UNCHANGED vars PROVE TypeOK' /\ LocalsSet'
  BY <1>41 DEF vars, TypeOK, LocalsSet, table, backend, history
<1> QED
  BY <1>1, <1>2, <1>3, <1>4, <1>5, <1>6, <1>7, <1>8, <1>9, <1>10, <1>11,
     <1>12, <1>13, <1>14, <1>15, <1>16, <1>17, <1>18, <1>19, <1>20, <1>21,
     <1>22, <1>23, <1>24, <1>25, <1>26, <1>27, <1>28, <1>29, <1>30, <1>31,
     <1>32, <1>33, <1>34, <1>35, <1>36, <1>37, <1>38, <1>39, <1>40, <1>41
  DEF Next, Backend, PumpStep, StartCall, CallerStep, ConnectStep, DisconnectStep, ClearLink, Actor

-----------------------------------------------------------------------------
(* The connect lock, the ids, pending and temporary links                   *)

\* Every step keeps the lock discipline.
LEMMA LockStep ==
  TypeOK /\ LockDiscipline /\ [Next]_vars => LockDiscipline'
<1> SUFFICES ASSUME TypeOK, LockDiscipline, [Next]_vars PROVE LockDiscipline'
  OBVIOUS
<1> USE ActorAssumption, NoneAssumption
<1> USE DEF At, Goto, table, history, backend
<1>0. pc \in [Actor -> Pc] /\ loc \in [Actor -> Local] /\ Caller \subseteq Actor /\ Pump \in Actor
  BY DEF TypeOK, Actor
<1>1. ASSUME PowerOff PROVE LockDiscipline'
  BY <1>0, <1>1 DEF PowerOff, BackendOnly, LockDiscipline, ConnectPc, DiscoverPc
<1>2. ASSUME NEW a \in Addr, Establish(a) PROVE LockDiscipline'
  BY <1>0, <1>2 DEF Establish, BackendOnly, LockDiscipline, ConnectPc, DiscoverPc
<1>3. ASSUME NEW a \in Addr, FailConnect(a) PROVE LockDiscipline'
  BY <1>0, <1>3 DEF FailConnect, BackendOnly, LockDiscipline, ConnectPc, DiscoverPc
<1>4. ASSUME NEW a \in Addr, DropLink(a) PROVE LockDiscipline'
  BY <1>0, <1>4 DEF DropLink, BackendOnly, LockDiscipline, ConnectPc, DiscoverPc
<1>5. ASSUME NEW p \in Caller, NEW a \in Addr, CallConnect(p, a) PROVE LockDiscipline'
  BY <1>0, <1>5 DEF CallConnect, Call, SetLocal, IdleLocal, Local, LockDiscipline, ConnectPc,
     DiscoverPc
<1>6. ASSUME NEW p \in Caller, NEW a \in Addr, CallDiscover(p, a) PROVE LockDiscipline'
  BY <1>0, <1>6 DEF CallDiscover, Call, SetLocal, IdleLocal, Local, LockDiscipline, ConnectPc,
     DiscoverPc
<1>7. ASSUME NEW p \in Caller, NEW S \in SUBSET Addr, CallDisconnect(p, S) PROVE LockDiscipline'
  BY <1>0, <1>7 DEF CallDisconnect, Call, SetLocal, IdleLocal, Local, LockDiscipline,
     ConnectPc, DiscoverPc
<1>8. ASSUME NEW p \in Caller, Return(p) PROVE LockDiscipline'
  BY <1>0, <1>8 DEF Return, SetLocal, Local, IdleLocal, LockDiscipline, ConnectPc, DiscoverPc
<1>9. ASSUME NEW p \in Caller, AcquireConnectLock(p) PROVE LockDiscipline'
  BY <1>0, <1>9 DEF AcquireConnectLock, LockDiscipline, ConnectPc, DiscoverPc
<1>10. ASSUME NEW p \in Caller, ProbeDevice(p) PROVE LockDiscipline'
  BY <1>0, <1>10 DEF ProbeDevice, LockDiscipline, ConnectPc, DiscoverPc
<1>11. ASSUME NEW p \in Caller, ReadServices(p) PROVE LockDiscipline'
  BY <1>0, <1>11 DEF ReadServices, LockDiscipline, ConnectPc, DiscoverPc
<1>12. ASSUME NEW p \in Caller, OpenLink(p) PROVE LockDiscipline'
  BY <1>0, <1>12 DEF OpenLink, SetLocal, Local, LockDiscipline, ConnectPc, DiscoverPc
<1>13. ASSUME NEW p \in Caller, CheckConnected(p) PROVE LockDiscipline'
  BY <1>0, <1>13 DEF CheckConnected, Opened, LockDiscipline, ConnectPc, DiscoverPc
<1>14. ASSUME NEW p \in Caller, ConnectReturns(p) PROVE LockDiscipline'
  BY <1>0, <1>14 DEF ConnectReturns, Opened, LockDiscipline, ConnectPc, DiscoverPc
<1>15. ASSUME NEW p \in Caller, AwaitConnected(p) PROVE LockDiscipline'
  BY <1>0, <1>15 DEF AwaitConnected, Opened, LockDiscipline, ConnectPc, DiscoverPc
<1>16. ASSUME NEW p \in Caller, CancelAttempt(p) PROVE LockDiscipline'
  BY <1>0, <1>16 DEF CancelAttempt, LockDiscipline, ConnectPc, DiscoverPc
<1>17. ASSUME NEW p \in Caller, AttemptFailed(p) PROVE LockDiscipline'
  BY <1>0, <1>17 DEF AttemptFailed, SetLocal, Local, LockDiscipline, ConnectPc, DiscoverPc
<1>18. ASSUME NEW p \in Caller, GiveUp(p) PROVE LockDiscipline'
  BY <1>0, <1>18 DEF GiveUp, SetLocal, Local, LockDiscipline, ConnectPc, DiscoverPc
<1>19. ASSUME NEW p \in Caller, FindServices(p) PROVE LockDiscipline'
  BY <1>0, <1>19 DEF FindServices, LockDiscipline, ConnectPc, DiscoverPc
<1>20. ASSUME NEW p \in Caller, DiscoverServices(p) PROVE LockDiscipline'
  BY <1>0, <1>20 DEF DiscoverServices, LockDiscipline, ConnectPc, DiscoverPc
<1>21. ASSUME NEW p \in Caller, InstallCallback(p) PROVE LockDiscipline'
  BY <1>0, <1>21 DEF InstallCallback, LockDiscipline, ConnectPc, DiscoverPc
<1>22. ASSUME NEW p \in Caller, ReportConnected(p) PROVE LockDiscipline'
  BY <1>0, <1>22 DEF ReportConnected, LockDiscipline, ConnectPc, DiscoverPc
<1>23. ASSUME NEW p \in Caller, OpenedForDiscovery(p) PROVE LockDiscipline'
  BY <1>0, <1>23 DEF OpenedForDiscovery, SetLocal, Local, LockDiscipline, ConnectPc,
     DiscoverPc
<1>24. ASSUME NEW p \in Caller, ReadAndRelease(p) PROVE LockDiscipline'
  BY <1>0, <1>24 DEF ReadAndRelease, SetLocal, Local, LockDiscipline, ConnectPc, DiscoverPc
<1>25. ASSUME NEW p \in Caller, ReleaseDevice(p) PROVE LockDiscipline'
  BY <1>0, <1>25 DEF ReleaseDevice, LockDiscipline, ConnectPc, DiscoverPc
<1>26. ASSUME NEW p \in Caller, WaitReleased(p) PROVE LockDiscipline'
  BY <1>0, <1>26 DEF WaitReleased, LockDiscipline, ConnectPc, DiscoverPc
<1>27. ASSUME NEW p \in Caller, LookupLink(p) PROVE LockDiscipline'
  <2>1. loc'[p].op = loc[p].op /\ \A y \in Actor \ {p} : loc'[y] = loc[y]
    <3>1. CASE Visible(loc[p].addr)
      <4> DEFINE link == links[loc[p].addr]
      <4>1. (link.id \in up) \in BOOLEAN
        OBVIOUS
      <4>2. PICK b \in BOOLEAN : SetLocal(p, [loc[p] EXCEPT !.rx = link.id, !.only = link.id,
                                                           !.was = b, !.born = nextId])
        BY <1>27, <3>1, <4>1 DEF LookupLink
      <4> QED
        BY <1>0, <4>2 DEF SetLocal, Local
    <3>2. CASE ~Visible(loc[p].addr)
      BY <1>0, <1>27, <3>2 DEF LookupLink
    <3> QED
      BY <3>1, <3>2
  <2> QED
    BY <1>0, <1>27, <2>1 DEF LookupLink, AfterDisconnect, LockDiscipline, ConnectPc, DiscoverPc
<1>28. ASSUME NEW p \in Caller, QueryConnected(p) PROVE LockDiscipline'
  BY <1>0, <1>28 DEF QueryConnected, SetLocal, Local, LockDiscipline, ConnectPc, DiscoverPc
<1>29. ASSUME NEW p \in Caller, DropDevice(p) PROVE LockDiscipline'
  BY <1>0, <1>29 DEF DropDevice, LockDiscipline, ConnectPc, DiscoverPc
<1>30. ASSUME NEW p \in Caller, WaitDisconnected(p) PROVE LockDiscipline'
  BY <1>0, <1>30 DEF WaitDisconnected, AfterDisconnect, LockDiscipline, ConnectPc, DiscoverPc
<1>31. ASSUME NEW x \in Actor, NextAddress(x) PROVE LockDiscipline'
  <2>1. \A y \in Actor : y # x => pc'[y] = pc[y] /\ loc'[y] = loc[y]
    BY <1>0, <1>31 DEF NextAddress, SetLocal
  <2>2. CASE x = Pump
    BY <1>0, <1>31, <2>1, <2>2 DEF NextAddress, LockDiscipline
  <2>3. CASE x # Pump
    <3>1. loc'[x].op = loc[x].op
      <4>1. CASE loc' = loc
        BY <4>1
      <4>2. CASE \E a : SetLocal(x, [loc[x] EXCEPT !.todo = loc[x].todo \ {a}, !.addr = a,
                                                   !.only = None, !.rx = None])
        BY <1>0, <4>2 DEF SetLocal, Local
      <4> QED
        BY <1>31, <2>3, <4>1, <4>2 DEF NextAddress
    <3>2. pc[x] = "next" /\ pc'[x] \in {"done", "lookup"} /\ lock' = lock
      BY <1>0, <1>31, <2>3 DEF NextAddress
    <3> QED
      BY <1>0, <2>1, <3>1, <3>2 DEF LockDiscipline, ConnectPc, DiscoverPc
  <2> QED
    BY <2>2, <2>3
<1>32. ASSUME NEW x \in Actor, RemoveLink(x) PROVE LockDiscipline'
  BY <1>0, <1>32 DEF RemoveLink, AfterClear, AfterDisconnect, SetLocal, Local, LockDiscipline,
     ConnectPc, DiscoverPc
<1>33. ASSUME NEW x \in Actor, RunCallback(x) PROVE LockDiscipline'
  BY <1>0, <1>33 DEF RunCallback, LockDiscipline, ConnectPc, DiscoverPc
<1>34. ASSUME NEW x \in Actor, ComputeUpdate(x) PROVE LockDiscipline'
  BY <1>0, <1>34 DEF ComputeUpdate, SetLocal, Local, LockDiscipline, ConnectPc, DiscoverPc
<1>35. ASSUME NEW x \in Actor, ReportDisconnected(x) PROVE LockDiscipline'
  BY <1>0, <1>35 DEF ReportDisconnected, LockDiscipline, ConnectPc, DiscoverPc
<1>36. ASSUME NEW x \in Actor, SignalClosed(x) PROVE LockDiscipline'
  BY <1>0, <1>36 DEF SignalClosed, AfterClear, AfterDisconnect, SetLocal, Local,
     LockDiscipline, ConnectPc, DiscoverPc
<1>37. ASSUME HandleConnect PROVE LockDiscipline'
  <2>1. \A p \in Caller : pc'[p] = pc[p] /\ loc'[p] = loc[p]
    BY <1>0, <1>37 DEF HandleConnect, Take, SetLocal
  <2> QED
    BY <1>0, <1>37, <2>1 DEF HandleConnect, Take, LockDiscipline
<1>38. ASSUME HandleDisconnect PROVE LockDiscipline'
  <2>1. \A p \in Caller : pc'[p] = pc[p] /\ loc'[p] = loc[p]
    BY <1>0, <1>38 DEF HandleDisconnect, Take, SetLocal
  <2> QED
    BY <1>0, <1>38, <2>1 DEF HandleDisconnect, Take, LockDiscipline
<1>39. ASSUME HandlePoweredOff PROVE LockDiscipline'
  BY <1>0, <1>39 DEF HandlePoweredOff, Take, SetLocal, Local, LockDiscipline, ConnectPc,
     DiscoverPc
<1>40. ASSUME RejectDevice PROVE LockDiscipline'
  BY <1>0, <1>40 DEF RejectDevice, SetLocal, Local, IdleLocal, LockDiscipline, ConnectPc,
     DiscoverPc
<1>41. ASSUME UNCHANGED vars PROVE LockDiscipline'
  BY <1>41 DEF vars, LockDiscipline, ConnectPc, DiscoverPc
<1> QED
  BY <1>1, <1>2, <1>3, <1>4, <1>5, <1>6, <1>7, <1>8, <1>9, <1>10, <1>11,
     <1>12, <1>13, <1>14, <1>15, <1>16, <1>17, <1>18, <1>19, <1>20, <1>21,
     <1>22, <1>23, <1>24, <1>25, <1>26, <1>27, <1>28, <1>29, <1>30, <1>31,
     <1>32, <1>33, <1>34, <1>35, <1>36, <1>37, <1>38, <1>39, <1>40, <1>41
  DEF Next, Backend, PumpStep, StartCall, CallerStep, ConnectStep, DisconnectStep, ClearLink, Actor


\* Every step keeps the ids unique.
LEMMA IdsStep ==
  TypeOK /\ LocalsSet /\ IdsAreUnique /\ [Next]_vars => IdsAreUnique'
<1> SUFFICES ASSUME TypeOK, LocalsSet, IdsAreUnique, [Next]_vars PROVE IdsAreUnique'
  OBVIOUS
<1> USE ActorAssumption, NoneAssumption
<1> USE DEF At, Goto, table, history, backend
<1>0. /\ pc \in [Actor -> Pc] /\ loc \in [Actor -> Local] /\ nextId \in Nat
      /\ links \in [Addr -> Link \cup {NoLink}] /\ Caller \subseteq Actor /\ Pump \in Actor
  BY DEF TypeOK, Actor
<1>1. ASSUME PowerOff PROVE IdsAreUnique'
  BY <1>0, <1>1 DEF PowerOff, BackendOnly, IdsAreUnique, Present
<1>2. ASSUME NEW a \in Addr, Establish(a) PROVE IdsAreUnique'
  BY <1>0, <1>2 DEF Establish, BackendOnly, IdsAreUnique, Present
<1>3. ASSUME NEW a \in Addr, FailConnect(a) PROVE IdsAreUnique'
  BY <1>0, <1>3 DEF FailConnect, BackendOnly, IdsAreUnique, Present
<1>4. ASSUME NEW a \in Addr, DropLink(a) PROVE IdsAreUnique'
  BY <1>0, <1>4 DEF DropLink, BackendOnly, IdsAreUnique, Present
<1>5. ASSUME NEW p \in Caller, NEW a \in Addr, CallConnect(p, a) PROVE IdsAreUnique'
  <2>1. links' = links /\ nextId' = nextId /\ \A y \in Actor : loc'[y].clr \in {loc[y].clr, NoLink}
    BY <1>0, <1>5 DEF CallConnect, Call, SetLocal, IdleLocal, Local
  <2> QED
    BY <1>0, <2>1 DEF IdsAreUnique, Present
<1>6. ASSUME NEW p \in Caller, NEW a \in Addr, CallDiscover(p, a) PROVE IdsAreUnique'
  <2>1. links' = links /\ nextId' = nextId /\ \A y \in Actor : loc'[y].clr \in {loc[y].clr, NoLink}
    BY <1>0, <1>6 DEF CallDiscover, Call, SetLocal, IdleLocal, Local
  <2> QED
    BY <1>0, <2>1 DEF IdsAreUnique, Present
<1>7. ASSUME NEW p \in Caller, NEW S \in SUBSET Addr, CallDisconnect(p, S) PROVE IdsAreUnique'
  <2>1. links' = links /\ nextId' = nextId /\ \A y \in Actor : loc'[y].clr \in {loc[y].clr, NoLink}
    BY <1>0, <1>7 DEF CallDisconnect, Call, SetLocal, IdleLocal, Local
  <2> QED
    BY <1>0, <2>1 DEF IdsAreUnique, Present
<1>8. ASSUME NEW p \in Caller, Return(p) PROVE IdsAreUnique'
  <2>1. links' = links /\ nextId' = nextId /\ \A y \in Actor : loc'[y].clr \in {loc[y].clr, NoLink}
    BY <1>0, <1>8 DEF Return, SetLocal, Local, IdleLocal
  <2> QED
    BY <1>0, <2>1 DEF IdsAreUnique, Present
<1>9. ASSUME NEW p \in Caller, AcquireConnectLock(p) PROVE IdsAreUnique'
  BY <1>0, <1>9 DEF AcquireConnectLock, IdsAreUnique, Present
<1>10. ASSUME NEW p \in Caller, ProbeDevice(p) PROVE IdsAreUnique'
  BY <1>0, <1>10 DEF ProbeDevice, IdsAreUnique, Present
<1>11. ASSUME NEW p \in Caller, ReadServices(p) PROVE IdsAreUnique'
  BY <1>0, <1>11 DEF ReadServices, IdsAreUnique, Present
<1>12. ASSUME NEW p \in Caller, OpenLink(p) PROVE IdsAreUnique'
  <2> DEFINE a == loc[p].addr
  <2>1. \A y \in Actor : loc'[y].clr = loc[y].clr
    <3>1. PICK n : SetLocal(p, [loc[p] EXCEPT !.rx = n])
      BY <1>12 DEF OpenLink
    <3> QED
      BY <1>0, <3>1 DEF SetLocal, Local
  <2>2. CASE Present(a)
    BY <1>0, <1>12, <2>1, <2>2 DEF OpenLink, IdsAreUnique, Present
  <2>3. CASE ~Present(a)
    <3>1. nextId' = nextId + 1 /\ \A b \in Addr : links'[b].id = IF b = a THEN nextId ELSE links[b].id
      BY <1>0, <1>12, <2>3 DEF OpenLink
    <3>2. \A b \in Addr : Present(b) => links[b].id \in Nat
      BY LinkIds
    <3>3. \A y \in Actor : loc[y].clr # NoLink => loc[y].clr.id \in Nat
      BY <1>0 DEF Local, Link
    <3> QED
      BY <1>0, <2>1, <3>1, <3>2, <3>3 DEF IdsAreUnique, Present
  <2> QED
    BY <2>2, <2>3
<1>13. ASSUME NEW p \in Caller, CheckConnected(p) PROVE IdsAreUnique'
  BY <1>0, <1>13 DEF CheckConnected, Opened, IdsAreUnique, Present
<1>14. ASSUME NEW p \in Caller, ConnectReturns(p) PROVE IdsAreUnique'
  BY <1>0, <1>14 DEF ConnectReturns, Opened, IdsAreUnique, Present
<1>15. ASSUME NEW p \in Caller, AwaitConnected(p) PROVE IdsAreUnique'
  BY <1>0, <1>15 DEF AwaitConnected, Opened, IdsAreUnique, Present
<1>16. ASSUME NEW p \in Caller, CancelAttempt(p) PROVE IdsAreUnique'
  BY <1>0, <1>16 DEF CancelAttempt, IdsAreUnique, Present
<1>17. ASSUME NEW p \in Caller, AttemptFailed(p) PROVE IdsAreUnique'
  <2>1. links' = links /\ nextId' = nextId /\ \A y \in Actor : loc'[y].clr \in {loc[y].clr, NoLink}
    BY <1>0, <1>17 DEF AttemptFailed, SetLocal, Local
  <2> QED
    BY <1>0, <2>1 DEF IdsAreUnique, Present
<1>18. ASSUME NEW p \in Caller, GiveUp(p) PROVE IdsAreUnique'
  <2>1. links' = links /\ nextId' = nextId /\ \A y \in Actor : loc'[y].clr \in {loc[y].clr, NoLink}
    BY <1>0, <1>18 DEF GiveUp, SetLocal, Local
  <2> QED
    BY <1>0, <2>1 DEF IdsAreUnique, Present
<1>19. ASSUME NEW p \in Caller, FindServices(p) PROVE IdsAreUnique'
  BY <1>0, <1>19 DEF FindServices, IdsAreUnique, Present
<1>20. ASSUME NEW p \in Caller, DiscoverServices(p) PROVE IdsAreUnique'
  BY <1>0, <1>20 DEF DiscoverServices, IdsAreUnique, Present
<1>21. ASSUME NEW p \in Caller, InstallCallback(p) PROVE IdsAreUnique'
  <2>1. \A a \in Addr : links'[a].id = links[a].id
    BY <1>0, <1>21 DEF InstallCallback, Link, NoLink
  <2>2. loc' = loc /\ nextId' = nextId
    BY <1>21 DEF InstallCallback
  <2> QED
    BY <1>0, <2>1, <2>2 DEF IdsAreUnique, Present
<1>22. ASSUME NEW p \in Caller, ReportConnected(p) PROVE IdsAreUnique'
  BY <1>0, <1>22 DEF ReportConnected, IdsAreUnique, Present
<1>23. ASSUME NEW p \in Caller, OpenedForDiscovery(p) PROVE IdsAreUnique'
  <2>1. links' = links /\ nextId' = nextId /\ \A y \in Actor : loc'[y].clr \in {loc[y].clr, NoLink}
    BY <1>0, <1>23 DEF OpenedForDiscovery, SetLocal, Local
  <2> QED
    BY <1>0, <2>1 DEF IdsAreUnique, Present
<1>24. ASSUME NEW p \in Caller, ReadAndRelease(p) PROVE IdsAreUnique'
  <2>1. links' = links /\ nextId' = nextId /\ \A y \in Actor : loc'[y].clr \in {loc[y].clr, NoLink}
    BY <1>0, <1>24 DEF ReadAndRelease, SetLocal, Local
  <2> QED
    BY <1>0, <2>1 DEF IdsAreUnique, Present
<1>25. ASSUME NEW p \in Caller, ReleaseDevice(p) PROVE IdsAreUnique'
  BY <1>0, <1>25 DEF ReleaseDevice, IdsAreUnique, Present
<1>26. ASSUME NEW p \in Caller, WaitReleased(p) PROVE IdsAreUnique'
  BY <1>0, <1>26 DEF WaitReleased, IdsAreUnique, Present
<1>27. ASSUME NEW p \in Caller, LookupLink(p) PROVE IdsAreUnique'
  <2>1. \A y \in Actor : loc'[y].clr = loc[y].clr
    <3>1. CASE Visible(loc[p].addr)
      <4> DEFINE link == links[loc[p].addr]
      <4>1. (link.id \in up) \in BOOLEAN
        OBVIOUS
      <4>2. PICK b \in BOOLEAN : SetLocal(p, [loc[p] EXCEPT !.rx = link.id, !.only = link.id,
                                                           !.was = b, !.born = nextId])
        BY <1>27, <3>1, <4>1 DEF LookupLink
      <4> QED
        BY <1>0, <4>2 DEF SetLocal, Local
    <3>2. CASE ~Visible(loc[p].addr)
      BY <1>27, <3>2 DEF LookupLink
    <3> QED
      BY <3>1, <3>2
  <2> QED
    BY <1>0, <1>27, <2>1 DEF LookupLink, IdsAreUnique, Present
<1>28. ASSUME NEW p \in Caller, QueryConnected(p) PROVE IdsAreUnique'
  <2>1. links' = links /\ nextId' = nextId /\ \A y \in Actor : loc'[y].clr \in {loc[y].clr, NoLink}
    BY <1>0, <1>28 DEF QueryConnected, SetLocal, Local
  <2> QED
    BY <1>0, <2>1 DEF IdsAreUnique, Present
<1>29. ASSUME NEW p \in Caller, DropDevice(p) PROVE IdsAreUnique'
  BY <1>0, <1>29 DEF DropDevice, IdsAreUnique, Present
<1>30. ASSUME NEW p \in Caller, WaitDisconnected(p) PROVE IdsAreUnique'
  BY <1>0, <1>30 DEF WaitDisconnected, AfterDisconnect, IdsAreUnique, Present
<1>31. ASSUME NEW x \in Actor, NextAddress(x) PROVE IdsAreUnique'
  <2>1. \A y \in Actor : loc'[y].clr \in {loc[y].clr, NoLink}
    <3>1. CASE loc' = loc
      BY <3>1
    <3>2. CASE \E a : SetLocal(x, [loc[x] EXCEPT !.todo = loc[x].todo \ {a}, !.addr = a,
                                                 !.only = None, !.rx = None])
      BY <1>0, <3>2 DEF SetLocal, Local
    <3>3. CASE SetLocal(x, IdleLocal)
      BY <1>0, <3>3 DEF SetLocal, IdleLocal
    <3> QED
      BY <1>31, <3>1, <3>2, <3>3 DEF NextAddress
  <2> QED
    BY <1>0, <1>31, <2>1 DEF NextAddress, IdsAreUnique, Present
<1>32. ASSUME NEW x \in Actor, RemoveLink(x) PROVE IdsAreUnique'
  <2> DEFINE a == loc[x].addr
  <2>1. CASE links' = links /\ loc' = loc
    BY <1>0, <1>32, <2>1 DEF RemoveLink, IdsAreUnique, Present
  <2>2. CASE Present(a) /\ links' = [links EXCEPT ![a] = NoLink]
             /\ SetLocal(x, [loc[x] EXCEPT !.clr = links[a]])
    <3>1. a \in Addr
      BY <1>0, <1>32 DEF RemoveLink, LocalsSet
    <3>2. loc'[x].clr = links[a] /\ \A y \in Actor \ {x} : loc'[y].clr = loc[y].clr
      BY <1>0, <2>2 DEF SetLocal, Local
    <3>3. \A b \in Addr : links'[b] = IF b = a THEN NoLink ELSE links[b]
      BY <1>0, <2>2
    <3>4. nextId' = nextId
      BY <1>32 DEF RemoveLink
    <3>5. NoLink.id = None /\ links[a].id \in Nat
      BY <2>2, <3>1, LinkIds DEF NoLink
    <3>6. \A y \in Actor : loc[y].clr # NoLink => loc[y].clr.id \in Nat
      BY <1>0 DEF Local, Link
    <3> QED
      BY <1>0, <2>2, <3>1, <3>2, <3>3, <3>4, <3>5, <3>6 DEF IdsAreUnique, Present
  <2> QED
    BY <1>32, <2>1, <2>2 DEF RemoveLink
<1>33. ASSUME NEW x \in Actor, RunCallback(x) PROVE IdsAreUnique'
  BY <1>0, <1>33 DEF RunCallback, IdsAreUnique, Present
<1>34. ASSUME NEW x \in Actor, ComputeUpdate(x) PROVE IdsAreUnique'
  <2>1. links' = links /\ nextId' = nextId /\ \A y \in Actor : loc'[y].clr \in {loc[y].clr, NoLink}
    BY <1>0, <1>34 DEF ComputeUpdate, SetLocal, Local
  <2> QED
    BY <1>0, <2>1 DEF IdsAreUnique, Present
<1>35. ASSUME NEW x \in Actor, ReportDisconnected(x) PROVE IdsAreUnique'
  BY <1>0, <1>35 DEF ReportDisconnected, IdsAreUnique, Present
<1>36. ASSUME NEW x \in Actor, SignalClosed(x) PROVE IdsAreUnique'
  <2>1. links' = links /\ nextId' = nextId /\ \A y \in Actor : loc'[y].clr \in {loc[y].clr, NoLink}
    BY <1>0, <1>36 DEF SignalClosed, AfterClear, AfterDisconnect, SetLocal, Local
  <2> QED
    BY <1>0, <2>1 DEF IdsAreUnique, Present
<1>37. ASSUME HandleConnect PROVE IdsAreUnique'
  <2>1. \A y \in Actor : loc'[y].clr = loc[y].clr
    <3>1. CASE loc' = loc
      BY <3>1
    <3>2. CASE \E a : SetLocal(Pump, [loc[Pump] EXCEPT !.addr = a])
      BY <1>0, <3>2 DEF SetLocal, Local
    <3> QED
      BY <1>37, <3>1, <3>2 DEF HandleConnect
  <2> QED
    BY <1>0, <1>37, <2>1 DEF HandleConnect, Take, IdsAreUnique, Present
<1>38. ASSUME HandleDisconnect PROVE IdsAreUnique'
  <2>1. \A y \in Actor : loc'[y].clr = loc[y].clr
    <3>1. CASE loc' = loc
      BY <3>1
    <3>2. CASE \E a : SetLocal(Pump, [loc[Pump] EXCEPT !.addr = a])
      BY <1>0, <3>2 DEF SetLocal, Local
    <3> QED
      BY <1>38, <3>1, <3>2 DEF HandleDisconnect
  <2> QED
    BY <1>0, <1>38, <2>1 DEF HandleDisconnect, Take, IdsAreUnique, Present
<1>39. ASSUME HandlePoweredOff PROVE IdsAreUnique'
  <2>1. links' = links /\ nextId' = nextId /\ \A y \in Actor : loc'[y].clr \in {loc[y].clr, NoLink}
    BY <1>0, <1>39 DEF HandlePoweredOff, Take, SetLocal, Local
  <2> QED
    BY <1>0, <2>1 DEF IdsAreUnique, Present
<1>40. ASSUME RejectDevice PROVE IdsAreUnique'
  <2>1. links' = links /\ nextId' = nextId /\ \A y \in Actor : loc'[y].clr \in {loc[y].clr, NoLink}
    BY <1>0, <1>40 DEF RejectDevice, SetLocal, Local, IdleLocal
  <2> QED
    BY <1>0, <2>1 DEF IdsAreUnique, Present
<1>41. ASSUME UNCHANGED vars PROVE IdsAreUnique'
  BY <1>41 DEF vars, IdsAreUnique, Present
<1> QED
  BY <1>1, <1>2, <1>3, <1>4, <1>5, <1>6, <1>7, <1>8, <1>9, <1>10, <1>11,
     <1>12, <1>13, <1>14, <1>15, <1>16, <1>17, <1>18, <1>19, <1>20, <1>21,
     <1>22, <1>23, <1>24, <1>25, <1>26, <1>27, <1>28, <1>29, <1>30, <1>31,
     <1>32, <1>33, <1>34, <1>35, <1>36, <1>37, <1>38, <1>39, <1>40, <1>41
  DEF Next, Backend, PumpStep, StartCall, CallerStep, ConnectStep, DisconnectStep, ClearLink, Actor


\* Every step keeps pending links with the lock holder that opens them.
LEMMA PendingStep ==
  TypeOK /\ LocalsSet /\ IdsAreUnique /\ LockDiscipline /\ PendingLinkIsOpened /\ WatchedLinkIsCurrent /\ [Next]_vars => PendingLinkIsOpened' /\ WatchedLinkIsCurrent'
<1> SUFFICES ASSUME TypeOK, LocalsSet, IdsAreUnique, LockDiscipline, PendingLinkIsOpened, WatchedLinkIsCurrent, [Next]_vars PROVE PendingLinkIsOpened' /\ WatchedLinkIsCurrent'
  OBVIOUS
<1> USE ActorAssumption, NoneAssumption
<1> USE DEF At, Goto, table, history, backend
<1>0. /\ pc \in [Actor -> Pc] /\ loc \in [Actor -> Local] /\ nextId \in Nat
      /\ links \in [Addr -> Link \cup {NoLink}] /\ Caller \subseteq Actor /\ Pump \in Actor
      /\ lock \in Caller \cup {None}
  BY DEF TypeOK, Actor
<1>1. ASSUME PowerOff PROVE PendingLinkIsOpened' /\ WatchedLinkIsCurrent'
  <2>1. PendingLinkIsOpened'
    BY <1>0, <1>1 DEF PowerOff, BackendOnly, PendingLinkIsOpened, LockDiscipline, ConnectPc,
       DiscoverPc, Present
  <2>2. WatchedLinkIsCurrent'
    BY <1>0, <1>1 DEF PowerOff, BackendOnly, WatchedLinkIsCurrent, LockDiscipline, ConnectPc,
       DiscoverPc, Present
  <2> QED
    BY <2>1, <2>2
<1>2. ASSUME NEW a \in Addr, Establish(a) PROVE PendingLinkIsOpened' /\ WatchedLinkIsCurrent'
  <2>1. PendingLinkIsOpened'
    BY <1>0, <1>2 DEF Establish, BackendOnly, PendingLinkIsOpened, LockDiscipline, ConnectPc,
       DiscoverPc, Present
  <2>2. WatchedLinkIsCurrent'
    BY <1>0, <1>2 DEF Establish, BackendOnly, WatchedLinkIsCurrent, LockDiscipline, ConnectPc,
       DiscoverPc, Present
  <2> QED
    BY <2>1, <2>2
<1>3. ASSUME NEW a \in Addr, FailConnect(a) PROVE PendingLinkIsOpened' /\ WatchedLinkIsCurrent'
  <2>1. PendingLinkIsOpened'
    BY <1>0, <1>3 DEF FailConnect, BackendOnly, PendingLinkIsOpened, LockDiscipline, ConnectPc,
       DiscoverPc, Present
  <2>2. WatchedLinkIsCurrent'
    BY <1>0, <1>3 DEF FailConnect, BackendOnly, WatchedLinkIsCurrent, LockDiscipline, ConnectPc,
       DiscoverPc, Present
  <2> QED
    BY <2>1, <2>2
<1>4. ASSUME NEW a \in Addr, DropLink(a) PROVE PendingLinkIsOpened' /\ WatchedLinkIsCurrent'
  <2>1. PendingLinkIsOpened'
    BY <1>0, <1>4 DEF DropLink, BackendOnly, PendingLinkIsOpened, LockDiscipline, ConnectPc,
       DiscoverPc, Present
  <2>2. WatchedLinkIsCurrent'
    BY <1>0, <1>4 DEF DropLink, BackendOnly, WatchedLinkIsCurrent, LockDiscipline, ConnectPc,
       DiscoverPc, Present
  <2> QED
    BY <2>1, <2>2
<1>5. ASSUME NEW p \in Caller, NEW a \in Addr, CallConnect(p, a) PROVE PendingLinkIsOpened' /\ WatchedLinkIsCurrent'
  <2>1. PendingLinkIsOpened'
    BY <1>0, <1>5 DEF CallConnect, Call, SetLocal, IdleLocal, Local, PendingLinkIsOpened,
       LockDiscipline, ConnectPc, DiscoverPc, Present
  <2>2. WatchedLinkIsCurrent'
    BY <1>0, <1>5 DEF CallConnect, Call, SetLocal, IdleLocal, Local, WatchedLinkIsCurrent,
       LockDiscipline, ConnectPc, DiscoverPc, Present
  <2> QED
    BY <2>1, <2>2
<1>6. ASSUME NEW p \in Caller, NEW a \in Addr, CallDiscover(p, a) PROVE PendingLinkIsOpened' /\ WatchedLinkIsCurrent'
  <2>1. PendingLinkIsOpened'
    BY <1>0, <1>6 DEF CallDiscover, Call, SetLocal, IdleLocal, Local, PendingLinkIsOpened,
       LockDiscipline, ConnectPc, DiscoverPc, Present
  <2>2. WatchedLinkIsCurrent'
    BY <1>0, <1>6 DEF CallDiscover, Call, SetLocal, IdleLocal, Local, WatchedLinkIsCurrent,
       LockDiscipline, ConnectPc, DiscoverPc, Present
  <2> QED
    BY <2>1, <2>2
<1>7. ASSUME NEW p \in Caller, NEW S \in SUBSET Addr, CallDisconnect(p, S) PROVE PendingLinkIsOpened' /\ WatchedLinkIsCurrent'
  <2>1. PendingLinkIsOpened'
    BY <1>0, <1>7 DEF CallDisconnect, Call, SetLocal, IdleLocal, Local, PendingLinkIsOpened,
       LockDiscipline, ConnectPc, DiscoverPc, Present
  <2>2. WatchedLinkIsCurrent'
    BY <1>0, <1>7 DEF CallDisconnect, Call, SetLocal, IdleLocal, Local, WatchedLinkIsCurrent,
       LockDiscipline, ConnectPc, DiscoverPc, Present
  <2> QED
    BY <2>1, <2>2
<1>8. ASSUME NEW p \in Caller, Return(p) PROVE PendingLinkIsOpened' /\ WatchedLinkIsCurrent'
  <2>1. PendingLinkIsOpened'
    BY <1>0, <1>8 DEF Return, SetLocal, Local, IdleLocal, PendingLinkIsOpened, LockDiscipline,
       ConnectPc, DiscoverPc, Present
  <2>2. WatchedLinkIsCurrent'
    BY <1>0, <1>8 DEF Return, SetLocal, Local, IdleLocal, WatchedLinkIsCurrent, LockDiscipline,
       ConnectPc, DiscoverPc, Present
  <2> QED
    BY <2>1, <2>2
<1>9. ASSUME NEW p \in Caller, AcquireConnectLock(p) PROVE PendingLinkIsOpened' /\ WatchedLinkIsCurrent'
  <2>1. PendingLinkIsOpened'
    BY <1>0, <1>9 DEF AcquireConnectLock, PendingLinkIsOpened, LockDiscipline, ConnectPc,
       DiscoverPc, Present
  <2>2. WatchedLinkIsCurrent'
    BY <1>0, <1>9 DEF AcquireConnectLock, WatchedLinkIsCurrent, LockDiscipline, ConnectPc,
       DiscoverPc, Present
  <2> QED
    BY <2>1, <2>2
<1>10. ASSUME NEW p \in Caller, ProbeDevice(p) PROVE PendingLinkIsOpened' /\ WatchedLinkIsCurrent'
  <2>1. PendingLinkIsOpened'
    BY <1>0, <1>10 DEF ProbeDevice, PendingLinkIsOpened, LockDiscipline, ConnectPc, DiscoverPc,
       Present
  <2>2. WatchedLinkIsCurrent'
    BY <1>0, <1>10 DEF ProbeDevice, WatchedLinkIsCurrent, LockDiscipline, ConnectPc, DiscoverPc,
       Present
  <2> QED
    BY <2>1, <2>2
<1>11. ASSUME NEW p \in Caller, ReadServices(p) PROVE PendingLinkIsOpened' /\ WatchedLinkIsCurrent'
  <2>1. PendingLinkIsOpened'
    BY <1>0, <1>11 DEF ReadServices, PendingLinkIsOpened, LockDiscipline, ConnectPc, DiscoverPc,
       Present
  <2>2. WatchedLinkIsCurrent'
    BY <1>0, <1>11 DEF ReadServices, WatchedLinkIsCurrent, LockDiscipline, ConnectPc, DiscoverPc,
       Present
  <2> QED
    BY <2>1, <2>2
<1>12. ASSUME NEW p \in Caller, OpenLink(p) PROVE PendingLinkIsOpened' /\ WatchedLinkIsCurrent'
  <2>1. PendingLinkIsOpened'
    BY <1>0, <1>12 DEF OpenLink, SetLocal, Local, PendingLinkIsOpened, LockDiscipline, ConnectPc,
       DiscoverPc, Present
  <2>2. WatchedLinkIsCurrent'
    BY <1>0, <1>12 DEF OpenLink, SetLocal, Local, WatchedLinkIsCurrent, LockDiscipline,
       ConnectPc, DiscoverPc, Present
  <2> QED
    BY <2>1, <2>2
<1>13. ASSUME NEW p \in Caller, CheckConnected(p) PROVE PendingLinkIsOpened' /\ WatchedLinkIsCurrent'
  <2>1. PendingLinkIsOpened'
    BY <1>0, <1>13 DEF CheckConnected, Opened, PendingLinkIsOpened, LockDiscipline, ConnectPc,
       DiscoverPc, Present
  <2>2. WatchedLinkIsCurrent'
    BY <1>0, <1>13 DEF CheckConnected, Opened, WatchedLinkIsCurrent, LockDiscipline, ConnectPc,
       DiscoverPc, Present
  <2> QED
    BY <2>1, <2>2
<1>14. ASSUME NEW p \in Caller, ConnectReturns(p) PROVE PendingLinkIsOpened' /\ WatchedLinkIsCurrent'
  <2>1. PendingLinkIsOpened'
    BY <1>0, <1>14 DEF ConnectReturns, Opened, PendingLinkIsOpened, WatchedLinkIsCurrent, LockDiscipline, ConnectPc,
       DiscoverPc, Present
  <2>2. WatchedLinkIsCurrent'
    BY <1>0, <1>14 DEF ConnectReturns, Opened, WatchedLinkIsCurrent, LockDiscipline, ConnectPc,
       DiscoverPc, Present
  <2> QED
    BY <2>1, <2>2
<1>15. ASSUME NEW p \in Caller, AwaitConnected(p) PROVE PendingLinkIsOpened' /\ WatchedLinkIsCurrent'
  <2>1. PendingLinkIsOpened'
    BY <1>0, <1>15 DEF AwaitConnected, Opened, PendingLinkIsOpened, WatchedLinkIsCurrent, LockDiscipline, ConnectPc,
       DiscoverPc, Present
  <2>2. WatchedLinkIsCurrent'
    BY <1>0, <1>15 DEF AwaitConnected, Opened, WatchedLinkIsCurrent, LockDiscipline, ConnectPc,
       DiscoverPc, Present
  <2> QED
    BY <2>1, <2>2
<1>16. ASSUME NEW p \in Caller, CancelAttempt(p) PROVE PendingLinkIsOpened' /\ WatchedLinkIsCurrent'
  <2>1. PendingLinkIsOpened'
    BY <1>0, <1>16 DEF CancelAttempt, PendingLinkIsOpened, LockDiscipline, ConnectPc, DiscoverPc,
       Present
  <2>2. WatchedLinkIsCurrent'
    BY <1>0, <1>16 DEF CancelAttempt, WatchedLinkIsCurrent, LockDiscipline, ConnectPc,
       DiscoverPc, Present
  <2> QED
    BY <2>1, <2>2
<1>17. ASSUME NEW p \in Caller, AttemptFailed(p) PROVE PendingLinkIsOpened' /\ WatchedLinkIsCurrent'
  <2>1. PendingLinkIsOpened'
    BY <1>0, <1>17 DEF AttemptFailed, SetLocal, Local, PendingLinkIsOpened, LockDiscipline,
       ConnectPc, DiscoverPc, Present
  <2>2. WatchedLinkIsCurrent'
    BY <1>0, <1>17 DEF AttemptFailed, SetLocal, Local, WatchedLinkIsCurrent, LockDiscipline,
       ConnectPc, DiscoverPc, Present
  <2> QED
    BY <2>1, <2>2
<1>18. ASSUME NEW p \in Caller, GiveUp(p) PROVE PendingLinkIsOpened' /\ WatchedLinkIsCurrent'
  <2>1. PendingLinkIsOpened'
    BY <1>0, <1>18 DEF GiveUp, SetLocal, Local, PendingLinkIsOpened, LockDiscipline, ConnectPc,
       DiscoverPc, Present
  <2>2. WatchedLinkIsCurrent'
    BY <1>0, <1>18 DEF GiveUp, SetLocal, Local, WatchedLinkIsCurrent, LockDiscipline, ConnectPc,
       DiscoverPc, Present
  <2> QED
    BY <2>1, <2>2
<1>19. ASSUME NEW p \in Caller, FindServices(p) PROVE PendingLinkIsOpened' /\ WatchedLinkIsCurrent'
  <2>1. PendingLinkIsOpened'
    BY <1>0, <1>19 DEF FindServices, PendingLinkIsOpened, LockDiscipline, ConnectPc, DiscoverPc,
       Present
  <2>2. WatchedLinkIsCurrent'
    BY <1>0, <1>19 DEF FindServices, WatchedLinkIsCurrent, LockDiscipline, ConnectPc, DiscoverPc,
       Present
  <2> QED
    BY <2>1, <2>2
<1>20. ASSUME NEW p \in Caller, DiscoverServices(p) PROVE PendingLinkIsOpened' /\ WatchedLinkIsCurrent'
  <2>1. PendingLinkIsOpened'
    BY <1>0, <1>20 DEF DiscoverServices, PendingLinkIsOpened, LockDiscipline, ConnectPc,
       DiscoverPc, Present
  <2>2. WatchedLinkIsCurrent'
    BY <1>0, <1>20 DEF DiscoverServices, WatchedLinkIsCurrent, LockDiscipline, ConnectPc,
       DiscoverPc, Present
  <2> QED
    BY <2>1, <2>2
<1>21. ASSUME NEW p \in Caller, InstallCallback(p) PROVE PendingLinkIsOpened' /\ WatchedLinkIsCurrent'
  <2>7. \A y \in Caller : pc[y] \in {"check", "connecting", "await"} => loc[y].addr \in Addr
    BY <1>0 DEF LocalsSet
  <2>1. \A a \in Addr : links'[a].id = links[a].id
    BY <1>0, <1>21 DEF InstallCallback, Link, NoLink
  <2>8. PendingLinkIsOpened'
    BY <1>0, <1>21, <2>1 DEF InstallCallback, PendingLinkIsOpened, LockDiscipline, ConnectPc,
       Present
  <2>9. WatchedLinkIsCurrent'
    BY <1>0, <1>21, <2>1, <2>7 DEF InstallCallback, WatchedLinkIsCurrent, Present
  <2> QED
    BY <2>8, <2>9
<1>22. ASSUME NEW p \in Caller, ReportConnected(p) PROVE PendingLinkIsOpened' /\ WatchedLinkIsCurrent'
  <2>1. PendingLinkIsOpened'
    BY <1>0, <1>22 DEF ReportConnected, PendingLinkIsOpened, LockDiscipline, ConnectPc,
       DiscoverPc, Present
  <2>2. WatchedLinkIsCurrent'
    BY <1>0, <1>22 DEF ReportConnected, WatchedLinkIsCurrent, LockDiscipline, ConnectPc,
       DiscoverPc, Present
  <2> QED
    BY <2>1, <2>2
<1>23. ASSUME NEW p \in Caller, OpenedForDiscovery(p) PROVE PendingLinkIsOpened' /\ WatchedLinkIsCurrent'
  <2>1. PendingLinkIsOpened'
    BY <1>0, <1>23 DEF OpenedForDiscovery, SetLocal, Local, PendingLinkIsOpened, LockDiscipline,
       ConnectPc, DiscoverPc, Present
  <2>2. WatchedLinkIsCurrent'
    BY <1>0, <1>23 DEF OpenedForDiscovery, SetLocal, Local, WatchedLinkIsCurrent, LockDiscipline,
       ConnectPc, DiscoverPc, Present
  <2> QED
    BY <2>1, <2>2
<1>24. ASSUME NEW p \in Caller, ReadAndRelease(p) PROVE PendingLinkIsOpened' /\ WatchedLinkIsCurrent'
  <2>1. PendingLinkIsOpened'
    BY <1>0, <1>24 DEF ReadAndRelease, SetLocal, Local, PendingLinkIsOpened, LockDiscipline,
       ConnectPc, DiscoverPc, Present
  <2>2. WatchedLinkIsCurrent'
    BY <1>0, <1>24 DEF ReadAndRelease, SetLocal, Local, WatchedLinkIsCurrent, LockDiscipline,
       ConnectPc, DiscoverPc, Present
  <2> QED
    BY <2>1, <2>2
<1>25. ASSUME NEW p \in Caller, ReleaseDevice(p) PROVE PendingLinkIsOpened' /\ WatchedLinkIsCurrent'
  <2>1. PendingLinkIsOpened'
    BY <1>0, <1>25 DEF ReleaseDevice, PendingLinkIsOpened, LockDiscipline, ConnectPc, DiscoverPc,
       Present
  <2>2. WatchedLinkIsCurrent'
    BY <1>0, <1>25 DEF ReleaseDevice, WatchedLinkIsCurrent, LockDiscipline, ConnectPc,
       DiscoverPc, Present
  <2> QED
    BY <2>1, <2>2
<1>26. ASSUME NEW p \in Caller, WaitReleased(p) PROVE PendingLinkIsOpened' /\ WatchedLinkIsCurrent'
  <2>1. PendingLinkIsOpened'
    BY <1>0, <1>26 DEF WaitReleased, PendingLinkIsOpened, LockDiscipline, ConnectPc, DiscoverPc,
       Present
  <2>2. WatchedLinkIsCurrent'
    BY <1>0, <1>26 DEF WaitReleased, WatchedLinkIsCurrent, LockDiscipline, ConnectPc, DiscoverPc,
       Present
  <2> QED
    BY <2>1, <2>2
<1>27. ASSUME NEW p \in Caller, LookupLink(p) PROVE PendingLinkIsOpened' /\ WatchedLinkIsCurrent'
  <2>1. PendingLinkIsOpened'
    BY <1>0, <1>27 DEF LookupLink, AfterDisconnect, SetLocal, Local, PendingLinkIsOpened,
       LockDiscipline, ConnectPc, DiscoverPc, Present
  <2>2. WatchedLinkIsCurrent'
    BY <1>0, <1>27 DEF LookupLink, AfterDisconnect, SetLocal, Local, WatchedLinkIsCurrent,
       LockDiscipline, ConnectPc, DiscoverPc, Present
  <2> QED
    BY <2>1, <2>2
<1>28. ASSUME NEW p \in Caller, QueryConnected(p) PROVE PendingLinkIsOpened' /\ WatchedLinkIsCurrent'
  <2>1. PendingLinkIsOpened'
    BY <1>0, <1>28 DEF QueryConnected, SetLocal, Local, PendingLinkIsOpened, LockDiscipline,
       ConnectPc, DiscoverPc, Present
  <2>2. WatchedLinkIsCurrent'
    BY <1>0, <1>28 DEF QueryConnected, SetLocal, Local, WatchedLinkIsCurrent, LockDiscipline,
       ConnectPc, DiscoverPc, Present
  <2> QED
    BY <2>1, <2>2
<1>29. ASSUME NEW p \in Caller, DropDevice(p) PROVE PendingLinkIsOpened' /\ WatchedLinkIsCurrent'
  <2>1. PendingLinkIsOpened'
    BY <1>0, <1>29 DEF DropDevice, PendingLinkIsOpened, LockDiscipline, ConnectPc, DiscoverPc,
       Present
  <2>2. WatchedLinkIsCurrent'
    BY <1>0, <1>29 DEF DropDevice, WatchedLinkIsCurrent, LockDiscipline, ConnectPc, DiscoverPc,
       Present
  <2> QED
    BY <2>1, <2>2
<1>30. ASSUME NEW p \in Caller, WaitDisconnected(p) PROVE PendingLinkIsOpened' /\ WatchedLinkIsCurrent'
  <2>1. PendingLinkIsOpened'
    BY <1>0, <1>30 DEF WaitDisconnected, AfterDisconnect, PendingLinkIsOpened, LockDiscipline,
       ConnectPc, DiscoverPc, Present
  <2>2. WatchedLinkIsCurrent'
    BY <1>0, <1>30 DEF WaitDisconnected, AfterDisconnect, WatchedLinkIsCurrent, LockDiscipline,
       ConnectPc, DiscoverPc, Present
  <2> QED
    BY <2>1, <2>2
<1>31. ASSUME NEW x \in Actor, NextAddress(x) PROVE PendingLinkIsOpened' /\ WatchedLinkIsCurrent'
  <2>1. PendingLinkIsOpened'
    BY <1>0, <1>31 DEF NextAddress, SetLocal, Local, IdleLocal, PendingLinkIsOpened,
       LockDiscipline, ConnectPc, DiscoverPc, Present
  <2>2. WatchedLinkIsCurrent'
    <3>1. \A y \in Actor \ {x} : pc'[y] = pc[y] /\ loc'[y] = loc[y]
      BY <1>0, <1>31 DEF NextAddress, SetLocal
    <3>2. links' = links /\ lock' = lock /\ pc'[x] \notin {"check", "connecting", "await"}
      BY <1>0, <1>31 DEF NextAddress
    <3> QED
      BY <1>0, <3>1, <3>2 DEF WatchedLinkIsCurrent, Present
  <2> QED
    BY <2>1, <2>2
<1>32. ASSUME NEW x \in Actor, RemoveLink(x) PROVE PendingLinkIsOpened' /\ WatchedLinkIsCurrent'
  <2>7. \A y \in Caller : pc[y] \in {"check", "connecting", "await"} => loc[y].addr \in Addr
    BY <1>0 DEF LocalsSet
  <2> DEFINE a == loc[x].addr
  <2>1. \A b \in Addr : links'[b].id \in {links[b].id, None}
    BY <1>0, <1>32 DEF RemoveLink, NoLink
  <2>2. a \in Addr
    BY <1>0, <1>32 DEF RemoveLink, LocalsSet
  <2>3. loc[x].only = None => links'[a].id = None
    BY <1>0, <1>32, <2>2 DEF RemoveLink, NoLink, Present
  <2>4. \A y \in Actor : /\ loc'[y].addr = loc[y].addr /\ loc'[y].rx = loc[y].rx
                          /\ loc'[y].only = loc[y].only
    BY <1>0, <1>32 DEF RemoveLink, SetLocal, Local
  <2>5. /\ pc[x] = "clear" /\ up' = up /\ lock' = lock
        /\ \A y \in Actor \ {x} : pc'[y] = pc[y]
        /\ pc'[x] \in {"callback", "next", "done"}
    BY <1>0, <1>32 DEF RemoveLink, AfterClear, AfterDisconnect
  <2>8. PendingLinkIsOpened'
    BY <1>0, <2>1, <2>2, <2>3, <2>4, <2>5 DEF PendingLinkIsOpened, Present
  <2>9. WatchedLinkIsCurrent'
    BY <1>0, <2>1, <2>2, <2>4, <2>5, <2>7 DEF WatchedLinkIsCurrent, Present
  <2> QED
    BY <2>8, <2>9
<1>33. ASSUME NEW x \in Actor, RunCallback(x) PROVE PendingLinkIsOpened' /\ WatchedLinkIsCurrent'
  <2>1. PendingLinkIsOpened'
    BY <1>0, <1>33 DEF RunCallback, PendingLinkIsOpened, LockDiscipline, ConnectPc, DiscoverPc,
       Present
  <2>2. WatchedLinkIsCurrent'
    BY <1>0, <1>33 DEF RunCallback, WatchedLinkIsCurrent, LockDiscipline, ConnectPc, DiscoverPc,
       Present
  <2> QED
    BY <2>1, <2>2
<1>34. ASSUME NEW x \in Actor, ComputeUpdate(x) PROVE PendingLinkIsOpened' /\ WatchedLinkIsCurrent'
  <2>1. PendingLinkIsOpened'
    BY <1>0, <1>34 DEF ComputeUpdate, SetLocal, Local, PendingLinkIsOpened, LockDiscipline,
       ConnectPc, DiscoverPc, Present
  <2>2. WatchedLinkIsCurrent'
    BY <1>0, <1>34 DEF ComputeUpdate, SetLocal, Local, WatchedLinkIsCurrent, LockDiscipline,
       ConnectPc, DiscoverPc, Present
  <2> QED
    BY <2>1, <2>2
<1>35. ASSUME NEW x \in Actor, ReportDisconnected(x) PROVE PendingLinkIsOpened' /\ WatchedLinkIsCurrent'
  <2>1. PendingLinkIsOpened'
    BY <1>0, <1>35 DEF ReportDisconnected, PendingLinkIsOpened, LockDiscipline, ConnectPc,
       DiscoverPc, Present
  <2>2. WatchedLinkIsCurrent'
    BY <1>0, <1>35 DEF ReportDisconnected, WatchedLinkIsCurrent, LockDiscipline, ConnectPc,
       DiscoverPc, Present
  <2> QED
    BY <2>1, <2>2
<1>36. ASSUME NEW x \in Actor, SignalClosed(x) PROVE PendingLinkIsOpened' /\ WatchedLinkIsCurrent'
  <2>1. \A y \in Actor : /\ loc'[y].addr = loc[y].addr /\ loc'[y].rx = loc[y].rx
                          /\ loc'[y].only = loc[y].only
    BY <1>0, <1>36 DEF SignalClosed, SetLocal, Local
  <2>2. \A a \in Addr : Present(a) => links[a].id # loc[x].clr.id
    BY <1>0, <1>36 DEF SignalClosed, IdsAreUnique, LocalsSet, Link, NoLink, Present
  <2>3. /\ pc[x] = "signal" /\ up' = up \ {loc[x].clr.id} /\ lock' = lock /\ links' = links
        /\ \A y \in Actor \ {x} : pc'[y] = pc[y]
        /\ pc'[x] \in {"next", "done"}
    BY <1>0, <1>36 DEF SignalClosed, AfterClear, AfterDisconnect
  <2>8. PendingLinkIsOpened'
    BY <1>0, <2>1, <2>2, <2>3 DEF PendingLinkIsOpened, Present
  <2>9. WatchedLinkIsCurrent'
    BY <1>0, <2>1, <2>3 DEF WatchedLinkIsCurrent, Present
  <2> QED
    BY <2>8, <2>9
<1>37. ASSUME HandleConnect PROVE PendingLinkIsOpened' /\ WatchedLinkIsCurrent'
  <2>1. PendingLinkIsOpened'
    BY <1>0, <1>37 DEF HandleConnect, Take, SetLocal, Local, PendingLinkIsOpened, LockDiscipline,
       ConnectPc, DiscoverPc, Present
  <2>2. WatchedLinkIsCurrent'
    BY <1>0, <1>37 DEF HandleConnect, Take, SetLocal, Local, WatchedLinkIsCurrent,
       LockDiscipline, ConnectPc, DiscoverPc, Present
  <2> QED
    BY <2>1, <2>2
<1>38. ASSUME HandleDisconnect PROVE PendingLinkIsOpened' /\ WatchedLinkIsCurrent'
  <2>1. PendingLinkIsOpened'
    BY <1>0, <1>38 DEF HandleDisconnect, Take, SetLocal, Local, PendingLinkIsOpened,
       LockDiscipline, ConnectPc, DiscoverPc, Present
  <2>2. WatchedLinkIsCurrent'
    BY <1>0, <1>38 DEF HandleDisconnect, Take, SetLocal, Local, WatchedLinkIsCurrent,
       LockDiscipline, ConnectPc, DiscoverPc, Present
  <2> QED
    BY <2>1, <2>2
<1>39. ASSUME HandlePoweredOff PROVE PendingLinkIsOpened' /\ WatchedLinkIsCurrent'
  <2>1. PendingLinkIsOpened'
    BY <1>0, <1>39 DEF HandlePoweredOff, Take, SetLocal, Local, PendingLinkIsOpened,
       LockDiscipline, ConnectPc, DiscoverPc, Present
  <2>2. WatchedLinkIsCurrent'
    BY <1>0, <1>39 DEF HandlePoweredOff, Take, SetLocal, Local, WatchedLinkIsCurrent,
       LockDiscipline, ConnectPc, DiscoverPc, Present
  <2> QED
    BY <2>1, <2>2
<1>40. ASSUME RejectDevice PROVE PendingLinkIsOpened' /\ WatchedLinkIsCurrent'
  <2>1. PendingLinkIsOpened'
    BY <1>0, <1>40 DEF RejectDevice, SetLocal, Local, IdleLocal, PendingLinkIsOpened,
       LockDiscipline, ConnectPc, DiscoverPc, Present
  <2>2. WatchedLinkIsCurrent'
    BY <1>0, <1>40 DEF RejectDevice, SetLocal, Local, IdleLocal, WatchedLinkIsCurrent,
       LockDiscipline, ConnectPc, DiscoverPc, Present
  <2> QED
    BY <2>1, <2>2
<1>41. ASSUME UNCHANGED vars PROVE PendingLinkIsOpened' /\ WatchedLinkIsCurrent'
  BY <1>41 DEF vars, PendingLinkIsOpened, WatchedLinkIsCurrent, Present
<1> QED
  BY <1>1, <1>2, <1>3, <1>4, <1>5, <1>6, <1>7, <1>8, <1>9, <1>10, <1>11,
     <1>12, <1>13, <1>14, <1>15, <1>16, <1>17, <1>18, <1>19, <1>20, <1>21,
     <1>22, <1>23, <1>24, <1>25, <1>26, <1>27, <1>28, <1>29, <1>30, <1>31,
     <1>32, <1>33, <1>34, <1>35, <1>36, <1>37, <1>38, <1>39, <1>40, <1>41
  DEF Next, Backend, PumpStep, StartCall, CallerStep, ConnectStep, DisconnectStep, ClearLink, Actor


\* Every step keeps temporary links with the discovery that releases them.
LEMMA TemporaryStep ==
  TypeOK /\ LocalsSet /\ LockDiscipline /\ TemporaryLinkIsReleased /\ [Next]_vars => TemporaryLinkIsReleased'
<1> SUFFICES ASSUME TypeOK, LocalsSet, LockDiscipline, TemporaryLinkIsReleased, [Next]_vars PROVE TemporaryLinkIsReleased'
  OBVIOUS
<1> USE ActorAssumption, NoneAssumption
<1> USE DEF At, Goto, table, history, backend
<1>0. /\ pc \in [Actor -> Pc] /\ loc \in [Actor -> Local] /\ nextId \in Nat
      /\ links \in [Addr -> Link \cup {NoLink}] /\ Caller \subseteq Actor /\ Pump \in Actor
      /\ lock \in Caller \cup {None}
  BY DEF TypeOK, Actor
<1>1. ASSUME PowerOff PROVE TemporaryLinkIsReleased'
  BY <1>0, <1>1 DEF PowerOff, BackendOnly, TemporaryLinkIsReleased, LockDiscipline, ConnectPc,
     DiscoverPc
<1>2. ASSUME NEW a \in Addr, Establish(a) PROVE TemporaryLinkIsReleased'
  BY <1>0, <1>2 DEF Establish, BackendOnly, TemporaryLinkIsReleased, LockDiscipline,
     ConnectPc, DiscoverPc
<1>3. ASSUME NEW a \in Addr, FailConnect(a) PROVE TemporaryLinkIsReleased'
  BY <1>0, <1>3 DEF FailConnect, BackendOnly, TemporaryLinkIsReleased, LockDiscipline,
     ConnectPc, DiscoverPc
<1>4. ASSUME NEW a \in Addr, DropLink(a) PROVE TemporaryLinkIsReleased'
  BY <1>0, <1>4 DEF DropLink, BackendOnly, TemporaryLinkIsReleased, LockDiscipline, ConnectPc,
     DiscoverPc
<1>5. ASSUME NEW p \in Caller, NEW a \in Addr, CallConnect(p, a) PROVE TemporaryLinkIsReleased'
  BY <1>0, <1>5 DEF CallConnect, Call, SetLocal, IdleLocal, Local, TemporaryLinkIsReleased,
     LockDiscipline, ConnectPc, DiscoverPc
<1>6. ASSUME NEW p \in Caller, NEW a \in Addr, CallDiscover(p, a) PROVE TemporaryLinkIsReleased'
  BY <1>0, <1>6 DEF CallDiscover, Call, SetLocal, IdleLocal, Local, TemporaryLinkIsReleased,
     LockDiscipline, ConnectPc, DiscoverPc
<1>7. ASSUME NEW p \in Caller, NEW S \in SUBSET Addr, CallDisconnect(p, S) PROVE TemporaryLinkIsReleased'
  BY <1>0, <1>7 DEF CallDisconnect, Call, SetLocal, IdleLocal, Local, TemporaryLinkIsReleased,
     LockDiscipline, ConnectPc, DiscoverPc
<1>8. ASSUME NEW p \in Caller, Return(p) PROVE TemporaryLinkIsReleased'
  BY <1>0, <1>8 DEF Return, SetLocal, Local, IdleLocal, TemporaryLinkIsReleased,
     LockDiscipline, ConnectPc, DiscoverPc
<1>9. ASSUME NEW p \in Caller, AcquireConnectLock(p) PROVE TemporaryLinkIsReleased'
  BY <1>0, <1>9 DEF AcquireConnectLock, TemporaryLinkIsReleased, LockDiscipline, ConnectPc,
     DiscoverPc
<1>10. ASSUME NEW p \in Caller, ProbeDevice(p) PROVE TemporaryLinkIsReleased'
  BY <1>0, <1>10 DEF ProbeDevice, TemporaryLinkIsReleased, LockDiscipline, ConnectPc,
     DiscoverPc
<1>11. ASSUME NEW p \in Caller, ReadServices(p) PROVE TemporaryLinkIsReleased'
  BY <1>0, <1>11 DEF ReadServices, TemporaryLinkIsReleased, LockDiscipline, ConnectPc,
     DiscoverPc
<1>12. ASSUME NEW p \in Caller, OpenLink(p) PROVE TemporaryLinkIsReleased'
  <2> DEFINE a == loc[p].addr
  <2>1. lock = p /\ lock' = p /\ pc'[p] = "check" /\ loc[p].op \in {"connect", "discover"}
    BY <1>0, <1>12 DEF OpenLink, LockDiscipline, ConnectPc
  <2>2. loc'[p].op = loc[p].op /\ loc'[p].addr = a
    <3>1. PICK n : SetLocal(p, [loc[p] EXCEPT !.rx = n])
      BY <1>12 DEF OpenLink
    <3> QED
      BY <1>0, <3>1 DEF SetLocal, Local
  <2>3. \A b \in Addr : ~links[b].temporary
    BY <1>0, <1>12, <2>1 DEF OpenLink, TemporaryLinkIsReleased
  <2>4. \A b \in Addr : links'[b].temporary => b = a /\ loc[p].op = "discover"
    <3> DEFINE link == [id |-> nextId, temporary |-> loc[p].op = "discover", owner |-> None]
    <3>1. link.temporary = (loc[p].op = "discover")
      OBVIOUS
    <3> HIDE DEF link
    <3>2. links' = links \/ links' = [links EXCEPT ![a] = link]
      BY <1>12 DEF OpenLink, link
    <3> QED
      BY <1>0, <2>3, <3>1, <3>2
  <2> QED
    BY <2>1, <2>2, <2>4 DEF TemporaryLinkIsReleased
<1>13. ASSUME NEW p \in Caller, CheckConnected(p) PROVE TemporaryLinkIsReleased'
  BY <1>0, <1>13 DEF CheckConnected, Opened, TemporaryLinkIsReleased, LockDiscipline,
     ConnectPc, DiscoverPc
<1>14. ASSUME NEW p \in Caller, ConnectReturns(p) PROVE TemporaryLinkIsReleased'
  BY <1>0, <1>14 DEF ConnectReturns, Opened, TemporaryLinkIsReleased, LockDiscipline,
     ConnectPc, DiscoverPc
<1>15. ASSUME NEW p \in Caller, AwaitConnected(p) PROVE TemporaryLinkIsReleased'
  BY <1>0, <1>15 DEF AwaitConnected, Opened, TemporaryLinkIsReleased, LockDiscipline,
     ConnectPc, DiscoverPc
<1>16. ASSUME NEW p \in Caller, CancelAttempt(p) PROVE TemporaryLinkIsReleased'
  BY <1>0, <1>16 DEF CancelAttempt, TemporaryLinkIsReleased, LockDiscipline, ConnectPc,
     DiscoverPc
<1>17. ASSUME NEW p \in Caller, AttemptFailed(p) PROVE TemporaryLinkIsReleased'
  BY <1>0, <1>17 DEF AttemptFailed, SetLocal, Local, TemporaryLinkIsReleased, LockDiscipline,
     ConnectPc, DiscoverPc
<1>18. ASSUME NEW p \in Caller, GiveUp(p) PROVE TemporaryLinkIsReleased'
  BY <1>0, <1>18 DEF GiveUp, SetLocal, Local, TemporaryLinkIsReleased, LockDiscipline,
     ConnectPc, DiscoverPc
<1>19. ASSUME NEW p \in Caller, FindServices(p) PROVE TemporaryLinkIsReleased'
  BY <1>0, <1>19 DEF FindServices, TemporaryLinkIsReleased, LockDiscipline, ConnectPc,
     DiscoverPc
<1>20. ASSUME NEW p \in Caller, DiscoverServices(p) PROVE TemporaryLinkIsReleased'
  BY <1>0, <1>20 DEF DiscoverServices, TemporaryLinkIsReleased, LockDiscipline, ConnectPc,
     DiscoverPc
<1>21. ASSUME NEW p \in Caller, InstallCallback(p) PROVE TemporaryLinkIsReleased'
  <2>1. \A a \in Addr : links'[a].id = links[a].id /\ links'[a].temporary = links[a].temporary
    BY <1>0, <1>21 DEF InstallCallback, Link, NoLink
  <2> QED
    BY <1>0, <1>21, <2>1 DEF InstallCallback, TemporaryLinkIsReleased, LockDiscipline, ConnectPc
<1>22. ASSUME NEW p \in Caller, ReportConnected(p) PROVE TemporaryLinkIsReleased'
  BY <1>0, <1>22 DEF ReportConnected, TemporaryLinkIsReleased, LockDiscipline, ConnectPc,
     DiscoverPc
<1>23. ASSUME NEW p \in Caller, OpenedForDiscovery(p) PROVE TemporaryLinkIsReleased'
  <2> DEFINE a == loc[p].addr
  <2>1. lock = p /\ lock' = p /\ loc[p].op = "discover" /\ links' = links /\ a \in Addr
    BY <1>0, <1>23 DEF OpenedForDiscovery, LockDiscipline, DiscoverPc, LocalsSet
  <2>2. \A b \in Addr : links[b].temporary => b = a
    BY <1>0, <2>1 DEF TemporaryLinkIsReleased
  <2>3. CASE Present(a) /\ SetLocal(p, [loc[p] EXCEPT !.rx = links[a].id]) /\ pc' = [pc EXCEPT ![p] = "reading"]
    <3>1. loc'[p].op = "discover" /\ loc'[p].addr = a /\ loc'[p].rx = links[a].id
      BY <1>0, <2>1, <2>3 DEF SetLocal, Local
    <3> QED
      BY <1>0, <2>1, <2>2, <2>3, <3>1 DEF TemporaryLinkIsReleased
  <2>4. CASE ~Present(a)
    BY <1>0, <2>1, <2>2, <2>4 DEF TemporaryLinkIsReleased, Present, NoLink, Link
  <2> QED
    BY <1>23, <2>3, <2>4 DEF OpenedForDiscovery
<1>24. ASSUME NEW p \in Caller, ReadAndRelease(p) PROVE TemporaryLinkIsReleased'
  BY <1>0, <1>24 DEF ReadAndRelease, SetLocal, Local, TemporaryLinkIsReleased, LockDiscipline,
     ConnectPc, DiscoverPc
<1>25. ASSUME NEW p \in Caller, ReleaseDevice(p) PROVE TemporaryLinkIsReleased'
  BY <1>0, <1>25 DEF ReleaseDevice, TemporaryLinkIsReleased, LockDiscipline, ConnectPc,
     DiscoverPc
<1>26. ASSUME NEW p \in Caller, WaitReleased(p) PROVE TemporaryLinkIsReleased'
  BY <1>0, <1>26 DEF WaitReleased, TemporaryLinkIsReleased, LockDiscipline, ConnectPc,
     DiscoverPc
<1>27. ASSUME NEW p \in Caller, LookupLink(p) PROVE TemporaryLinkIsReleased'
  BY <1>0, <1>27 DEF LookupLink, AfterDisconnect, SetLocal, Local, TemporaryLinkIsReleased,
     LockDiscipline, ConnectPc, DiscoverPc
<1>28. ASSUME NEW p \in Caller, QueryConnected(p) PROVE TemporaryLinkIsReleased'
  BY <1>0, <1>28 DEF QueryConnected, SetLocal, Local, TemporaryLinkIsReleased, LockDiscipline,
     ConnectPc, DiscoverPc
<1>29. ASSUME NEW p \in Caller, DropDevice(p) PROVE TemporaryLinkIsReleased'
  BY <1>0, <1>29 DEF DropDevice, TemporaryLinkIsReleased, LockDiscipline, ConnectPc,
     DiscoverPc
<1>30. ASSUME NEW p \in Caller, WaitDisconnected(p) PROVE TemporaryLinkIsReleased'
  BY <1>0, <1>30 DEF WaitDisconnected, AfterDisconnect, TemporaryLinkIsReleased,
     LockDiscipline, ConnectPc, DiscoverPc
<1>31. ASSUME NEW x \in Actor, NextAddress(x) PROVE TemporaryLinkIsReleased'
  <2>1. \A y \in Actor \ {x} : pc'[y] = pc[y] /\ loc'[y] = loc[y]
    BY <1>0, <1>31 DEF NextAddress, SetLocal
  <2>2. links' = links /\ lock' = lock /\ pc[x] = "next"
    BY <1>31 DEF NextAddress
  <2> QED
    BY <1>0, <2>1, <2>2 DEF TemporaryLinkIsReleased
<1>32. ASSUME NEW x \in Actor, RemoveLink(x) PROVE TemporaryLinkIsReleased'
  <2> DEFINE a == loc[x].addr
  <2>1. a \in Addr
    BY <1>0, <1>32 DEF RemoveLink, LocalsSet
  <2>2. \A b \in Addr : links'[b] = links[b] \/ ~links'[b].temporary
    BY <1>0, <1>32 DEF RemoveLink, NoLink
  <2>3. \A y \in Actor : /\ loc'[y].addr = loc[y].addr /\ loc'[y].rx = loc[y].rx
                          /\ loc'[y].only = loc[y].only /\ loc'[y].op = loc[y].op
    BY <1>0, <1>32 DEF RemoveLink, SetLocal, Local
  <2>4. /\ pc[x] = "clear" /\ lock' = lock
        /\ \A y \in Actor \ {x} : pc'[y] = pc[y]
    BY <1>0, <1>32 DEF RemoveLink
  <2>5. loc[x].only \in {None, links[a].id} => ~links'[a].temporary
    BY <1>0, <1>32, <2>1 DEF RemoveLink, NoLink, Present, Link
  <2>6. ASSUME NEW b \in Addr, links'[b].temporary
        PROVE  /\ lock \in Caller /\ loc[lock].addr = b /\ links'[b] = links[b]
               /\ lock # x
    <3>1. links'[b] = links[b] /\ lock \in Caller /\ loc[lock].addr = b
      BY <2>2, <2>6 DEF TemporaryLinkIsReleased
    <3>2. lock = x => loc[x].only \in {None, links[a].id}
      BY <2>4, <2>6, <3>1 DEF TemporaryLinkIsReleased
    <3> QED
      BY <2>5, <2>6, <3>1, <3>2
  <2> QED
    BY <1>0, <2>2, <2>3, <2>4, <2>6 DEF TemporaryLinkIsReleased
<1>33. ASSUME NEW x \in Actor, RunCallback(x) PROVE TemporaryLinkIsReleased'
  BY <1>0, <1>33 DEF RunCallback, TemporaryLinkIsReleased, LockDiscipline, ConnectPc,
     DiscoverPc
<1>34. ASSUME NEW x \in Actor, ComputeUpdate(x) PROVE TemporaryLinkIsReleased'
  BY <1>0, <1>34 DEF ComputeUpdate, SetLocal, Local, TemporaryLinkIsReleased, LockDiscipline,
     ConnectPc, DiscoverPc
<1>35. ASSUME NEW x \in Actor, ReportDisconnected(x) PROVE TemporaryLinkIsReleased'
  BY <1>0, <1>35 DEF ReportDisconnected, TemporaryLinkIsReleased, LockDiscipline, ConnectPc,
     DiscoverPc
<1>36. ASSUME NEW x \in Actor, SignalClosed(x) PROVE TemporaryLinkIsReleased'
  BY <1>0, <1>36 DEF SignalClosed, AfterClear, AfterDisconnect, SetLocal, Local,
     TemporaryLinkIsReleased, LockDiscipline, ConnectPc, DiscoverPc
<1>37. ASSUME HandleConnect PROVE TemporaryLinkIsReleased'
  <2>1. links' = links /\ lock' = lock
    BY <1>37 DEF HandleConnect, Take
  <2>2. \A p \in Caller : pc'[p] = pc[p] /\ loc'[p] = loc[p]
    BY <1>0, <1>37 DEF HandleConnect, Take, SetLocal
  <2> QED
    BY <2>1, <2>2 DEF TemporaryLinkIsReleased
<1>38. ASSUME HandleDisconnect PROVE TemporaryLinkIsReleased'
  <2>1. links' = links /\ lock' = lock
    BY <1>38 DEF HandleDisconnect, Take
  <2>2. \A p \in Caller : pc'[p] = pc[p] /\ loc'[p] = loc[p]
    BY <1>0, <1>38 DEF HandleDisconnect, Take, SetLocal
  <2> QED
    BY <2>1, <2>2 DEF TemporaryLinkIsReleased
<1>39. ASSUME HandlePoweredOff PROVE TemporaryLinkIsReleased'
  BY <1>0, <1>39 DEF HandlePoweredOff, Take, SetLocal, Local, TemporaryLinkIsReleased,
     LockDiscipline, ConnectPc, DiscoverPc
<1>40. ASSUME RejectDevice PROVE TemporaryLinkIsReleased'
  BY <1>0, <1>40 DEF RejectDevice, SetLocal, Local, IdleLocal, TemporaryLinkIsReleased,
     LockDiscipline, ConnectPc, DiscoverPc
<1>41. ASSUME UNCHANGED vars PROVE TemporaryLinkIsReleased'
  BY <1>41 DEF vars, TemporaryLinkIsReleased
<1> QED
  BY <1>1, <1>2, <1>3, <1>4, <1>5, <1>6, <1>7, <1>8, <1>9, <1>10, <1>11,
     <1>12, <1>13, <1>14, <1>15, <1>16, <1>17, <1>18, <1>19, <1>20, <1>21,
     <1>22, <1>23, <1>24, <1>25, <1>26, <1>27, <1>28, <1>29, <1>30, <1>31,
     <1>32, <1>33, <1>34, <1>35, <1>36, <1>37, <1>38, <1>39, <1>40, <1>41
  DEF Next, Backend, PumpStep, StartCall, CallerStep, ConnectStep, DisconnectStep, ClearLink, Actor


-----------------------------------------------------------------------------
(* Callbacks                                                                *)

\* Callbacks move in three actions only.
LEMMA OwnersStep ==
  TypeOK /\ [Next]_vars => OwnersKept \/ CallbackMoves
<1> SUFFICES ASSUME TypeOK, [Next]_vars PROVE OwnersKept \/ CallbackMoves
  OBVIOUS
<1> USE ActorAssumption, NoneAssumption
<1> USE DEF At, Goto, table, history, backend
<1>0. pc \in [Actor -> Pc] /\ loc \in [Actor -> Local] /\ Caller \subseteq Actor /\ Pump \in Actor
  BY DEF TypeOK, Actor
<1>1. ASSUME PowerOff PROVE OwnersKept \/ CallbackMoves
  BY <1>0, <1>1 DEF PowerOff, BackendOnly, OwnersKept
<1>2. ASSUME NEW a \in Addr, Establish(a) PROVE OwnersKept \/ CallbackMoves
  BY <1>0, <1>2 DEF Establish, BackendOnly, OwnersKept
<1>3. ASSUME NEW a \in Addr, FailConnect(a) PROVE OwnersKept \/ CallbackMoves
  BY <1>0, <1>3 DEF FailConnect, BackendOnly, OwnersKept
<1>4. ASSUME NEW a \in Addr, DropLink(a) PROVE OwnersKept \/ CallbackMoves
  BY <1>0, <1>4 DEF DropLink, BackendOnly, OwnersKept
<1>5. ASSUME NEW p \in Caller, NEW a \in Addr, CallConnect(p, a) PROVE OwnersKept \/ CallbackMoves
  BY <1>0, <1>5 DEF CallConnect, Call, SetLocal, IdleLocal, OwnersKept
<1>6. ASSUME NEW p \in Caller, NEW a \in Addr, CallDiscover(p, a) PROVE OwnersKept \/ CallbackMoves
  BY <1>0, <1>6 DEF CallDiscover, Call, SetLocal, IdleLocal, OwnersKept
<1>7. ASSUME NEW p \in Caller, NEW S \in SUBSET Addr, CallDisconnect(p, S) PROVE OwnersKept \/ CallbackMoves
  BY <1>0, <1>7 DEF CallDisconnect, Call, SetLocal, IdleLocal, OwnersKept
<1>8. ASSUME NEW p \in Caller, Return(p) PROVE OwnersKept \/ CallbackMoves
  BY <1>0, <1>8 DEF Return, SetLocal, IdleLocal, OwnersKept
<1>9. ASSUME NEW p \in Caller, AcquireConnectLock(p) PROVE OwnersKept \/ CallbackMoves
  BY <1>0, <1>9 DEF AcquireConnectLock, OwnersKept
<1>10. ASSUME NEW p \in Caller, ProbeDevice(p) PROVE OwnersKept \/ CallbackMoves
  BY <1>0, <1>10 DEF ProbeDevice, OwnersKept
<1>11. ASSUME NEW p \in Caller, ReadServices(p) PROVE OwnersKept \/ CallbackMoves
  BY <1>0, <1>11 DEF ReadServices, OwnersKept
<1>12. ASSUME NEW p \in Caller, OpenLink(p) PROVE OwnersKept \/ CallbackMoves
  <2>1. \A a \in Addr : ~Present(a) => links[a] = NoLink
    BY DEF TypeOK, Present, Link
  <2>2. \A a \in Addr : links'[a].owner = links[a].owner
    <3>1. links \in [Addr -> Link \cup {NoLink}]
      BY DEF TypeOK
    <3> QED
      BY <2>1, <3>1, <1>12 DEF OpenLink, NoLink
  <2> QED
    BY <1>0, <2>2, <1>12 DEF OpenLink, SetLocal, OwnersKept
<1>13. ASSUME NEW p \in Caller, CheckConnected(p) PROVE OwnersKept \/ CallbackMoves
  BY <1>0, <1>13 DEF CheckConnected, Opened, OwnersKept
<1>14. ASSUME NEW p \in Caller, ConnectReturns(p) PROVE OwnersKept \/ CallbackMoves
  BY <1>0, <1>14 DEF ConnectReturns, Opened, OwnersKept
<1>15. ASSUME NEW p \in Caller, AwaitConnected(p) PROVE OwnersKept \/ CallbackMoves
  BY <1>0, <1>15 DEF AwaitConnected, Opened, OwnersKept
<1>16. ASSUME NEW p \in Caller, CancelAttempt(p) PROVE OwnersKept \/ CallbackMoves
  BY <1>0, <1>16 DEF CancelAttempt, OwnersKept
<1>17. ASSUME NEW p \in Caller, AttemptFailed(p) PROVE OwnersKept \/ CallbackMoves
  BY <1>0, <1>17 DEF AttemptFailed, SetLocal, OwnersKept
<1>18. ASSUME NEW p \in Caller, GiveUp(p) PROVE OwnersKept \/ CallbackMoves
  BY <1>0, <1>18 DEF GiveUp, SetLocal, OwnersKept
<1>19. ASSUME NEW p \in Caller, FindServices(p) PROVE OwnersKept \/ CallbackMoves
  BY <1>0, <1>19 DEF FindServices, OwnersKept
<1>20. ASSUME NEW p \in Caller, DiscoverServices(p) PROVE OwnersKept \/ CallbackMoves
  BY <1>0, <1>20 DEF DiscoverServices, OwnersKept
<1>21. ASSUME NEW p \in Caller, InstallCallback(p) PROVE OwnersKept \/ CallbackMoves
  BY <1>21 DEF CallbackMoves, Actor
<1>22. ASSUME NEW p \in Caller, ReportConnected(p) PROVE OwnersKept \/ CallbackMoves
  BY <1>0, <1>22 DEF ReportConnected, OwnersKept
<1>23. ASSUME NEW p \in Caller, OpenedForDiscovery(p) PROVE OwnersKept \/ CallbackMoves
  BY <1>0, <1>23 DEF OpenedForDiscovery, SetLocal, OwnersKept
<1>24. ASSUME NEW p \in Caller, ReadAndRelease(p) PROVE OwnersKept \/ CallbackMoves
  BY <1>0, <1>24 DEF ReadAndRelease, SetLocal, OwnersKept
<1>25. ASSUME NEW p \in Caller, ReleaseDevice(p) PROVE OwnersKept \/ CallbackMoves
  BY <1>0, <1>25 DEF ReleaseDevice, OwnersKept
<1>26. ASSUME NEW p \in Caller, WaitReleased(p) PROVE OwnersKept \/ CallbackMoves
  BY <1>0, <1>26 DEF WaitReleased, OwnersKept
<1>27. ASSUME NEW p \in Caller, LookupLink(p) PROVE OwnersKept \/ CallbackMoves
  BY <1>0, <1>27 DEF LookupLink, AfterDisconnect, SetLocal, OwnersKept
<1>28. ASSUME NEW p \in Caller, QueryConnected(p) PROVE OwnersKept \/ CallbackMoves
  BY <1>0, <1>28 DEF QueryConnected, SetLocal, OwnersKept
<1>29. ASSUME NEW p \in Caller, DropDevice(p) PROVE OwnersKept \/ CallbackMoves
  BY <1>0, <1>29 DEF DropDevice, OwnersKept
<1>30. ASSUME NEW p \in Caller, WaitDisconnected(p) PROVE OwnersKept \/ CallbackMoves
  BY <1>0, <1>30 DEF WaitDisconnected, AfterDisconnect, OwnersKept
<1>31. ASSUME NEW x \in Actor, NextAddress(x) PROVE OwnersKept \/ CallbackMoves
  BY <1>0, <1>31 DEF NextAddress, SetLocal, IdleLocal, OwnersKept
<1>32. ASSUME NEW x \in Actor, RemoveLink(x) PROVE OwnersKept \/ CallbackMoves
  BY <1>32 DEF CallbackMoves, Actor
<1>33. ASSUME NEW x \in Actor, RunCallback(x) PROVE OwnersKept \/ CallbackMoves
  BY <1>33 DEF CallbackMoves, Actor
<1>34. ASSUME NEW x \in Actor, ComputeUpdate(x) PROVE OwnersKept \/ CallbackMoves
  BY <1>0, <1>34 DEF ComputeUpdate, SetLocal, OwnersKept
<1>35. ASSUME NEW x \in Actor, ReportDisconnected(x) PROVE OwnersKept \/ CallbackMoves
  BY <1>0, <1>35 DEF ReportDisconnected, OwnersKept
<1>36. ASSUME NEW x \in Actor, SignalClosed(x) PROVE OwnersKept \/ CallbackMoves
  BY <1>0, <1>36 DEF SignalClosed, AfterClear, AfterDisconnect, SetLocal, OwnersKept
<1>37. ASSUME HandleConnect PROVE OwnersKept \/ CallbackMoves
  BY <1>0, <1>37 DEF HandleConnect, Take, SetLocal, OwnersKept
<1>38. ASSUME HandleDisconnect PROVE OwnersKept \/ CallbackMoves
  BY <1>0, <1>38 DEF HandleDisconnect, Take, SetLocal, OwnersKept
<1>39. ASSUME HandlePoweredOff PROVE OwnersKept \/ CallbackMoves
  BY <1>0, <1>39 DEF HandlePoweredOff, Take, SetLocal, OwnersKept
<1>40. ASSUME RejectDevice PROVE OwnersKept \/ CallbackMoves
  BY <1>0, <1>40 DEF RejectDevice, SetLocal, IdleLocal, OwnersKept
<1>41. ASSUME UNCHANGED vars PROVE OwnersKept \/ CallbackMoves
  BY <1>41 DEF vars, OwnersKept
<1> QED
  BY <1>1, <1>2, <1>3, <1>4, <1>5, <1>6, <1>7, <1>8, <1>9, <1>10, <1>11,
     <1>12, <1>13, <1>14, <1>15, <1>16, <1>17, <1>18, <1>19, <1>20, <1>21,
     <1>22, <1>23, <1>24, <1>25, <1>26, <1>27, <1>28, <1>29, <1>30, <1>31,
     <1>32, <1>33, <1>34, <1>35, <1>36, <1>37, <1>38, <1>39, <1>40, <1>41
  DEF Next, Backend, PumpStep, StartCall, CallerStep, ConnectStep, DisconnectStep, ClearLink, Actor


\* Calls begin, end and proceed beyond the installation in six actions only.
LEMMA CallsStep ==
  TypeOK /\ [Next]_vars => CallsKept \/ CallsMove
<1> SUFFICES ASSUME TypeOK, [Next]_vars PROVE CallsKept \/ CallsMove
  OBVIOUS
<1> USE ActorAssumption, NoneAssumption
<1> USE DEF At, Goto, table, history, backend
<1>0. pc \in [Actor -> Pc] /\ loc \in [Actor -> Local] /\ Caller \subseteq Actor /\ Pump \in Actor /\ Pump \notin Caller
  BY DEF TypeOK, Actor
<1>1. ASSUME PowerOff PROVE CallsKept \/ CallsMove
  BY <1>0, <1>1 DEF PowerOff, BackendOnly, CallsKept
<1>2. ASSUME NEW a \in Addr, Establish(a) PROVE CallsKept \/ CallsMove
  BY <1>0, <1>2 DEF Establish, BackendOnly, CallsKept
<1>3. ASSUME NEW a \in Addr, FailConnect(a) PROVE CallsKept \/ CallsMove
  BY <1>0, <1>3 DEF FailConnect, BackendOnly, CallsKept
<1>4. ASSUME NEW a \in Addr, DropLink(a) PROVE CallsKept \/ CallsMove
  BY <1>0, <1>4 DEF DropLink, BackendOnly, CallsKept
<1>5. ASSUME NEW p \in Caller, NEW a \in Addr, CallConnect(p, a) PROVE CallsKept \/ CallsMove
  BY <1>5 DEF CallsMove
<1>6. ASSUME NEW p \in Caller, NEW a \in Addr, CallDiscover(p, a) PROVE CallsKept \/ CallsMove
  BY <1>6 DEF CallsMove
<1>7. ASSUME NEW p \in Caller, NEW S \in SUBSET Addr, CallDisconnect(p, S) PROVE CallsKept \/ CallsMove
  BY <1>7 DEF CallsMove
<1>8. ASSUME NEW p \in Caller, Return(p) PROVE CallsKept \/ CallsMove
  BY <1>8 DEF CallsMove
<1>9. ASSUME NEW p \in Caller, AcquireConnectLock(p) PROVE CallsKept \/ CallsMove
  BY <1>0, <1>9 DEF AcquireConnectLock, CallsKept
<1>10. ASSUME NEW p \in Caller, ProbeDevice(p) PROVE CallsKept \/ CallsMove
  BY <1>0, <1>10 DEF ProbeDevice, CallsKept
<1>11. ASSUME NEW p \in Caller, ReadServices(p) PROVE CallsKept \/ CallsMove
  BY <1>0, <1>11 DEF ReadServices, CallsKept
<1>12. ASSUME NEW p \in Caller, OpenLink(p) PROVE CallsKept \/ CallsMove
  BY <1>0, <1>12 DEF OpenLink, SetLocal, Local, CallsKept
<1>13. ASSUME NEW p \in Caller, CheckConnected(p) PROVE CallsKept \/ CallsMove
  BY <1>0, <1>13 DEF CheckConnected, Opened, CallsKept
<1>14. ASSUME NEW p \in Caller, ConnectReturns(p) PROVE CallsKept \/ CallsMove
  BY <1>0, <1>14 DEF ConnectReturns, Opened, CallsKept
<1>15. ASSUME NEW p \in Caller, AwaitConnected(p) PROVE CallsKept \/ CallsMove
  BY <1>0, <1>15 DEF AwaitConnected, Opened, CallsKept
<1>16. ASSUME NEW p \in Caller, CancelAttempt(p) PROVE CallsKept \/ CallsMove
  BY <1>0, <1>16 DEF CancelAttempt, CallsKept
<1>17. ASSUME NEW p \in Caller, AttemptFailed(p) PROVE CallsKept \/ CallsMove
  BY <1>0, <1>17 DEF AttemptFailed, SetLocal, Local, CallsKept
<1>18. ASSUME NEW p \in Caller, GiveUp(p) PROVE CallsKept \/ CallsMove
  BY <1>0, <1>18 DEF GiveUp, SetLocal, Local, CallsKept
<1>19. ASSUME NEW p \in Caller, FindServices(p) PROVE CallsKept \/ CallsMove
  BY <1>0, <1>19 DEF FindServices, CallsKept
<1>20. ASSUME NEW p \in Caller, DiscoverServices(p) PROVE CallsKept \/ CallsMove
  BY <1>0, <1>20 DEF DiscoverServices, CallsKept
<1>21. ASSUME NEW p \in Caller, InstallCallback(p) PROVE CallsKept \/ CallsMove
  BY <1>21 DEF CallsMove
<1>22. ASSUME NEW p \in Caller, ReportConnected(p) PROVE CallsKept \/ CallsMove
  BY <1>22 DEF CallsMove
<1>23. ASSUME NEW p \in Caller, OpenedForDiscovery(p) PROVE CallsKept \/ CallsMove
  BY <1>0, <1>23 DEF OpenedForDiscovery, SetLocal, Local, CallsKept
<1>24. ASSUME NEW p \in Caller, ReadAndRelease(p) PROVE CallsKept \/ CallsMove
  BY <1>0, <1>24 DEF ReadAndRelease, SetLocal, Local, CallsKept
<1>25. ASSUME NEW p \in Caller, ReleaseDevice(p) PROVE CallsKept \/ CallsMove
  BY <1>0, <1>25 DEF ReleaseDevice, CallsKept
<1>26. ASSUME NEW p \in Caller, WaitReleased(p) PROVE CallsKept \/ CallsMove
  BY <1>0, <1>26 DEF WaitReleased, CallsKept
<1>27. ASSUME NEW p \in Caller, LookupLink(p) PROVE CallsKept \/ CallsMove
  <2>1. \A y \in Actor : loc'[y].op = loc[y].op /\ loc'[y].call = loc[y].call
    <3>1. CASE Visible(loc[p].addr)
      <4> DEFINE link == links[loc[p].addr]
      <4>1. (link.id \in up) \in BOOLEAN
        OBVIOUS
      <4>2. PICK b \in BOOLEAN : SetLocal(p, [loc[p] EXCEPT !.rx = link.id, !.only = link.id,
                                                           !.was = b, !.born = nextId])
        BY <1>27, <3>1, <4>1 DEF LookupLink
      <4> QED
        BY <1>0, <4>2 DEF SetLocal, Local
    <3>2. CASE ~Visible(loc[p].addr)
      BY <1>0, <1>27, <3>2 DEF LookupLink
    <3> QED
      BY <3>1, <3>2
  <2> QED
    BY <1>0, <1>27, <2>1 DEF LookupLink, AfterDisconnect, CallsKept
<1>28. ASSUME NEW p \in Caller, QueryConnected(p) PROVE CallsKept \/ CallsMove
  BY <1>0, <1>28 DEF QueryConnected, SetLocal, Local, CallsKept
<1>29. ASSUME NEW p \in Caller, DropDevice(p) PROVE CallsKept \/ CallsMove
  BY <1>0, <1>29 DEF DropDevice, CallsKept
<1>30. ASSUME NEW p \in Caller, WaitDisconnected(p) PROVE CallsKept \/ CallsMove
  BY <1>0, <1>30 DEF WaitDisconnected, AfterDisconnect, CallsKept
<1>31. ASSUME NEW x \in Actor, NextAddress(x) PROVE CallsKept \/ CallsMove
  <2>1. \A y \in Caller : loc'[y].op = loc[y].op /\ loc'[y].call = loc[y].call
    <3>1. CASE loc' = loc
      BY <3>1
    <3>2. CASE \E a : SetLocal(x, [loc[x] EXCEPT !.todo = loc[x].todo \ {a}, !.addr = a,
                                                 !.only = None, !.rx = None])
      BY <1>0, <3>2 DEF SetLocal, Local
    <3>3. CASE x = Pump /\ SetLocal(x, IdleLocal)
      BY <1>0, <3>3 DEF SetLocal
    <3> QED
      BY <1>31, <3>1, <3>2, <3>3 DEF NextAddress
  <2> QED
    BY <1>0, <1>31, <2>1 DEF NextAddress, CallsKept
<1>32. ASSUME NEW x \in Actor, RemoveLink(x) PROVE CallsKept \/ CallsMove
  BY <1>0, <1>32 DEF RemoveLink, AfterClear, AfterDisconnect, SetLocal, Local, CallsKept
<1>33. ASSUME NEW x \in Actor, RunCallback(x) PROVE CallsKept \/ CallsMove
  BY <1>0, <1>33 DEF RunCallback, CallsKept
<1>34. ASSUME NEW x \in Actor, ComputeUpdate(x) PROVE CallsKept \/ CallsMove
  BY <1>0, <1>34 DEF ComputeUpdate, SetLocal, Local, CallsKept
<1>35. ASSUME NEW x \in Actor, ReportDisconnected(x) PROVE CallsKept \/ CallsMove
  BY <1>0, <1>35 DEF ReportDisconnected, CallsKept
<1>36. ASSUME NEW x \in Actor, SignalClosed(x) PROVE CallsKept \/ CallsMove
  BY <1>0, <1>36 DEF SignalClosed, AfterClear, AfterDisconnect, SetLocal, Local, CallsKept
<1>37. ASSUME HandleConnect PROVE CallsKept \/ CallsMove
  BY <1>0, <1>37 DEF HandleConnect, Take, SetLocal, Local, CallsKept
<1>38. ASSUME HandleDisconnect PROVE CallsKept \/ CallsMove
  BY <1>0, <1>38 DEF HandleDisconnect, Take, SetLocal, Local, CallsKept
<1>39. ASSUME HandlePoweredOff PROVE CallsKept \/ CallsMove
  BY <1>0, <1>39 DEF HandlePoweredOff, Take, SetLocal, Local, CallsKept
<1>40. ASSUME RejectDevice PROVE CallsKept \/ CallsMove
  BY <1>0, <1>40 DEF RejectDevice, SetLocal, Local, IdleLocal, CallsKept
<1>41. ASSUME UNCHANGED vars PROVE CallsKept \/ CallsMove
  BY <1>41 DEF vars, CallsKept
<1> QED
  BY <1>1, <1>2, <1>3, <1>4, <1>5, <1>6, <1>7, <1>8, <1>9, <1>10, <1>11,
     <1>12, <1>13, <1>14, <1>15, <1>16, <1>17, <1>18, <1>19, <1>20, <1>21,
     <1>22, <1>23, <1>24, <1>25, <1>26, <1>27, <1>28, <1>29, <1>30, <1>31,
     <1>32, <1>33, <1>34, <1>35, <1>36, <1>37, <1>38, <1>39, <1>40, <1>41
  DEF Next, Backend, PumpStep, StartCall, CallerStep, ConnectStep, DisconnectStep, ClearLink, Actor


\* The owner of a link and of a link being cleared is a call.
LEMMA OwnerTypes ==
  ASSUME TypeOK
  PROVE  /\ \A a \in Addr : links[a].owner \in CallId \cup {None}
         /\ \A x \in Actor : loc[x].clr.owner \in CallId \cup {None}
         /\ None \notin CallId
<1>1. \A link \in Link \cup {NoLink} : link.owner \in CallId \cup {None}
  BY DEF Link, NoLink
<1>2. \A x \in Actor : loc[x].clr \in Link \cup {NoLink}
  BY DEF TypeOK, Local
<1>3. None \notin CallId
  BY NoneAssumption, BoundAssumption DEF CallId
<1> QED
  BY <1>1, <1>2, <1>3 DEF TypeOK

\* A connect has the number of a call.
LEMMA ConnectCall ==
  ASSUME TypeOK, CallsDiffer, NEW p \in Caller, loc[p].op = "connect"
  PROVE  loc[p].call \in CallId
<1>1. loc[p].call \in 1 .. calls /\ calls \in 0 .. MaxCalls
  BY DEF CallsDiffer, TypeOK
<1> QED
  BY <1>1, BoundAssumption DEF CallId

\* A step that moves no callback keeps track of every callback.
LEMMA OwnersKeptInv ==
  ASSUME OwnersAreArmed, OwnersDiffer, NoCallbackIsLost, OwnersKept
  PROVE  OwnersAreArmed' /\ OwnersDiffer' /\ NoCallbackIsLost'
<1>1. OwnersAreArmed'
  BY DEF OwnersAreArmed, OwnersKept
<1>2. OwnersDiffer'
  BY DEF OwnersDiffer, OwnersKept
<1>3. NoCallbackIsLost'
  BY DEF NoCallbackIsLost, OwnersKept, At
<1> QED
  BY <1>1, <1>2, <1>3

\* A callback goes into a link, whose old callback is replaced.
LEMMA InstallOwners ==
  ASSUME LinkInv, CallbackInv, NEW p \in Caller, InstallCallback(p)
  PROVE  OwnersAreArmed' /\ OwnersDiffer' /\ NoCallbackIsLost'
<1> DEFINE a == loc[p].addr
           c == loc[p].call
           old == links[a].owner
<1>0. TypeOK /\ CallsDiffer /\ CallProgress /\ OwnersAreArmed /\ OwnersDiffer /\ NoCallbackIsLost
  BY DEF LinkInv, CallbackInv
<1>1. /\ pc \in [Actor -> Pc] /\ p \in Actor /\ loc' = loc
      /\ links \in [Addr -> Link \cup {NoLink}]
      /\ cb \in [CallId -> {"idle", "armed", "replaced", "run"}]
  BY <1>0 DEF TypeOK, Actor, InstallCallback
<1>2. \A x \in Actor : pc'[x] = "callback" <=> pc[x] = "callback"
  BY <1>1 DEF InstallCallback, Goto, At
<1>3. CASE ~Present(a)
  <2>1. OwnersKept
    BY <1>1, <1>2, <1>3 DEF InstallCallback, OwnersKept, Goto, At
  <2> QED
    BY <1>0, <2>1, OwnersKeptInv
<1>4. CASE Present(a)
  <2>1. pc[p] = "install" /\ loc[p].op = "connect" /\ a \in Addr
    BY <1>1 DEF InstallCallback, At, LinkInv, LockDiscipline, LocalsSet
  <2>2. c \in CallId /\ c # None /\ cb[c] = "idle"
    BY <1>0, <2>1, ConnectCall, OwnerTypes DEF CallProgress
  <2>3. \A d \in CallId : cb'[d] = IF d = c THEN "armed" ELSE IF d = old THEN "replaced" ELSE cb[d]
    BY <1>4 DEF InstallCallback
  <2>4. \A b \in Addr : links'[b].owner = IF b = a THEN c ELSE links[b].owner
    BY <1>1, <1>4, <2>1 DEF InstallCallback, Link, NoLink
  <2>5. \A b \in Addr : links[b].owner # c
    BY <1>0, <2>2 DEF OwnersAreArmed
  <2>6. \A x \in Actor : pc[x] = "callback" => loc[x].clr.owner # c
    BY <1>0, <2>2 DEF OwnersAreArmed
  <2>7. OwnersAreArmed'
    <3>1. ASSUME NEW b \in Addr, links'[b].owner # None PROVE cb'[links'[b].owner] = "armed"
      <4>1. CASE b = a
        BY <2>2, <2>3, <2>4, <4>1
      <4>2. CASE b # a
        BY <1>0, <2>1, <2>3, <2>4, <2>5, <3>1, <4>2, OwnerTypes DEF OwnersAreArmed, OwnersDiffer
      <4> QED
        BY <4>1, <4>2
    <3>2. ASSUME NEW x \in Actor, pc'[x] = "callback", loc'[x].clr.owner # None
          PROVE  cb'[loc'[x].clr.owner] = "armed"
      BY <1>0, <1>1, <1>2, <2>1, <2>3, <2>6, <3>2, OwnerTypes DEF OwnersAreArmed, OwnersDiffer
    <3> QED
      BY <3>1, <3>2 DEF OwnersAreArmed
  <2>8. OwnersDiffer'
    <3>1. \A b1, b2 \in Addr : links'[b1].owner # None /\ links'[b1].owner = links'[b2].owner => b1 = b2
      BY <1>0, <2>4, <2>5 DEF OwnersDiffer
    <3>2. \A x \in Actor, b \in Addr :
            pc'[x] = "callback" /\ loc'[x].clr.owner # None => links'[b].owner # loc'[x].clr.owner
      BY <1>0, <1>1, <1>2, <2>4, <2>6 DEF OwnersDiffer
    <3> QED
      BY <1>0, <1>1, <1>2, <3>1, <3>2 DEF OwnersDiffer
  <2>9. NoCallbackIsLost'
    <3> SUFFICES ASSUME NEW d \in CallId, cb'[d] = "armed"
                 PROVE  \/ \E b \in Addr : links'[b].owner = d
                        \/ \E x \in Actor : loc'[x].clr.owner = d /\ pc'[x] = "callback"
      BY DEF NoCallbackIsLost, At
    <3>1. CASE d = c
      BY <2>1, <2>4, <3>1
    <3>2. CASE d # c
      <4>1. d # old /\ cb[d] = "armed"
        BY <2>3, <3>2
      <4> QED
        BY <1>0, <1>1, <1>2, <2>4, <4>1 DEF NoCallbackIsLost, At
    <3> QED
      BY <3>1, <3>2
  <2> QED
    BY <2>7, <2>8, <2>9
<1> QED
  BY <1>3, <1>4

\* The callback of a removed link goes with the task that removed it.
LEMMA RemoveOwners ==
  ASSUME LinkInv, CallbackInv, NEW x \in Actor, RemoveLink(x)
  PROVE  OwnersAreArmed' /\ OwnersDiffer' /\ NoCallbackIsLost'
<1> DEFINE a == loc[x].addr
<1>0. TypeOK /\ OwnersAreArmed /\ OwnersDiffer /\ NoCallbackIsLost
  BY DEF LinkInv, CallbackInv
<1>1. /\ pc \in [Actor -> Pc] /\ loc \in [Actor -> Local] /\ cb' = cb
      /\ links \in [Addr -> Link \cup {NoLink}] /\ pc[x] = "clear"
  BY <1>0 DEF TypeOK, RemoveLink, history, At
<1>2. a \in Addr
  BY <1>1 DEF LinkInv, LocalsSet
<1>3. CASE links' = links
  <2>1. OwnersKept
    <3>1. pc'[x] # "callback"
      <4> SUFFICES ASSUME pc'[x] = "callback" PROVE FALSE
        OBVIOUS
      <4>1. Present(a) /\ links'[a] = NoLink
        BY <1>1, <1>2 DEF RemoveLink, Goto, AfterClear, AfterDisconnect
      <4> QED
        BY <1>3, <4>1 DEF Present, NoLink
    <3> QED
      BY <1>1, <1>3, <3>1 DEF RemoveLink, SetLocal, Goto, OwnersKept
  <2> QED
    BY <1>0, <2>1, OwnersKeptInv
<1>4. CASE links' # links
  <2>1. /\ links' = [links EXCEPT ![a] = NoLink]
        /\ SetLocal(x, [loc[x] EXCEPT !.clr = links[a]])
        /\ Goto(x, "callback")
    BY <1>4 DEF RemoveLink
  <2>2. /\ loc'[x].clr = links[a] /\ pc'[x] = "callback"
        /\ \A y \in Actor \ {x} : loc'[y] = loc[y] /\ pc'[y] = pc[y]
    BY <1>1, <2>1 DEF SetLocal, Goto, Local
  <2>3. \A b \in Addr : links'[b].owner = IF b = a THEN None ELSE links[b].owner
    BY <1>1, <2>1 DEF NoLink
  <2>4. OwnersAreArmed'
    BY <1>0, <1>1, <1>2, <2>2, <2>3 DEF OwnersAreArmed
  <2>5. OwnersDiffer'
    BY <1>0, <1>1, <1>2, <2>2, <2>3 DEF OwnersDiffer
  <2>6. NoCallbackIsLost'
    BY <1>0, <1>1, <1>2, <2>2, <2>3 DEF NoCallbackIsLost, At
  <2> QED
    BY <2>4, <2>5, <2>6
<1> QED
  BY <1>3, <1>4

\* A callback that runs was nowhere else.
LEMMA RunOwners ==
  ASSUME LinkInv, CallbackInv, NEW x \in Actor, RunCallback(x)
  PROVE  OwnersAreArmed' /\ OwnersDiffer' /\ NoCallbackIsLost'
<1> DEFINE o == loc[x].clr.owner
<1>0. TypeOK /\ OwnersAreArmed /\ OwnersDiffer /\ NoCallbackIsLost
  BY DEF LinkInv, CallbackInv
<1>1. /\ pc \in [Actor -> Pc] /\ links' = links /\ loc' = loc /\ pc[x] = "callback"
      /\ \A c \in CallId : cb'[c] = IF c = o THEN "run" ELSE cb[c]
  BY <1>0 DEF TypeOK, RunCallback, table, At
<1>2. pc'[x] # "callback" /\ \A y \in Actor \ {x} : pc'[y] = pc[y]
  BY <1>1 DEF RunCallback, Goto
<1>3. OwnersAreArmed'
  BY <1>0, <1>1, <1>2, OwnerTypes DEF OwnersAreArmed, OwnersDiffer
<1>4. OwnersDiffer'
  BY <1>0, <1>1, <1>2 DEF OwnersDiffer
<1>5. NoCallbackIsLost'
  BY <1>0, <1>1, <1>2 DEF NoCallbackIsLost, At
<1> QED
  BY <1>3, <1>4, <1>5

\* A step that keeps calls where they are and no callback's state.
LEMMA CallsKeptInv ==
  ASSUME TypeOK, CallsDiffer, CallProgress, CallsKept, cb' = cb
  PROVE  CallsDiffer' /\ CallProgress'
<1>1. CallsDiffer'
  BY DEF CallsDiffer, CallsKept
<1>2. CallProgress'
  <2> SUFFICES ASSUME NEW p \in Caller, loc'[p].op = "connect"
               PROVE  /\ pc'[p] \notin {"report", "done"} =>
                           cb[loc[p].call] = "idle" /\ res[loc[p].call] = "none"
                      /\ pc'[p] = "report" =>
                           cb[loc[p].call] \in {"armed", "run"} /\ res[loc[p].call] = "none"
                      /\ pc'[p] = "done" =>
                           \/ res[loc[p].call] = "ok"
                           \/ cb[loc[p].call] = "idle" /\ res[loc[p].call] = "none"
    BY DEF CallProgress, CallsKept
  <2> QED
    BY DEF CallProgress, CallsKept
<1> QED
  BY <1>1, <1>2

\* A callback that runs was installed by a connect that reports it or has.
LEMMA RunCalls ==
  ASSUME LinkInv, CallbackInv, NEW x \in Actor, RunCallback(x)
  PROVE  CallsDiffer' /\ CallProgress'
<1> DEFINE o == loc[x].clr.owner
<1>0. TypeOK /\ OwnersAreArmed /\ CallsDiffer /\ CallProgress
  BY DEF LinkInv, CallbackInv
<1>1. /\ pc \in [Actor -> Pc] /\ loc' = loc /\ res' = res /\ calls' = calls /\ pc[x] = "callback"
      /\ \A c \in CallId : cb'[c] = IF c = o THEN "run" ELSE cb[c]
  BY <1>0 DEF TypeOK, RunCallback, At
<1>2. o # None => cb[o] = "armed"
  BY <1>0, <1>1 DEF OwnersAreArmed
<1>3. pc'[x] \in {"signal", "compute"} /\ \A y \in Actor \ {x} : pc'[y] = pc[y]
  BY <1>1 DEF RunCallback, Goto
<1>4. o \in CallId => o <= calls
  <2>1. o \in CallId => cb[o] # "idle"
    BY <1>0, <1>2, OwnerTypes
  <2>2. \A c \in CallId : c > calls \/ c <= calls
    BY <1>0 DEF CallId, TypeOK
  <2> QED
    BY <1>0, <2>1, <2>2 DEF CallsDiffer
<1>5. CallsDiffer'
  <2>1. \A c \in CallId : c > calls => c # o
    BY <1>0, <1>4 DEF TypeOK, CallId
  <2> QED
    BY <1>0, <1>1, <2>1 DEF CallsDiffer
<1>6. CallProgress'
  <2> SUFFICES ASSUME NEW p \in Caller, loc[p].op = "connect"
               PROVE  /\ pc'[p] \notin {"report", "done"} =>
                           cb'[loc[p].call] = "idle" /\ res[loc[p].call] = "none"
                      /\ pc'[p] = "report" =>
                           cb'[loc[p].call] \in {"armed", "run"} /\ res[loc[p].call] = "none"
                      /\ pc'[p] = "done" =>
                           \/ res[loc[p].call] = "ok"
                           \/ cb'[loc[p].call] = "idle" /\ res[loc[p].call] = "none"
    BY <1>1 DEF CallProgress
  <2>1. loc[p].call \in CallId /\ p \in Actor
    BY <1>0, ConnectCall DEF Actor
  <2>2. CASE loc[p].call = o
    <3>1. cb[loc[p].call] = "armed" /\ cb'[loc[p].call] = "run"
      BY <1>0, <1>1, <1>2, <2>1, <2>2, OwnerTypes
    <3> QED
      BY <1>0, <1>1, <1>3, <2>1, <3>1 DEF CallProgress
  <2>3. CASE loc[p].call # o
    <3>1. cb'[loc[p].call] = cb[loc[p].call]
      BY <1>1, <2>1, <2>3
    <3> QED
      BY <1>0, <1>1, <1>3, <2>1, <3>1 DEF CallProgress
  <2> QED
    BY <2>2, <2>3
<1> QED
  BY <1>5, <1>6

\* The connect whose callback is replaced has returned Ok or is about to.
LEMMA InstallCalls ==
  ASSUME LinkInv, CallbackInv, NEW p \in Caller, InstallCallback(p)
  PROVE  CallsDiffer' /\ CallProgress'
<1> DEFINE a == loc[p].addr
           c == loc[p].call
           old == links[a].owner
<1>0. TypeOK /\ OwnersAreArmed /\ CallsDiffer /\ CallProgress /\ LockDiscipline
  BY DEF LinkInv, CallbackInv
<1>1. /\ pc \in [Actor -> Pc] /\ p \in Actor /\ loc' = loc /\ res' = res /\ calls' = calls
      /\ cb \in [CallId -> {"idle", "armed", "replaced", "run"}]
      /\ pc[p] = "install" /\ loc[p].op = "connect"
  BY <1>0 DEF TypeOK, Actor, InstallCallback, At, LockDiscipline
<1>2. c \in CallId /\ cb[c] = "idle" /\ res[c] = "none" /\ c <= calls
  <2>1. c \in 1 .. calls
    BY <1>0, <1>1 DEF CallsDiffer
  <2> QED
    BY <1>0, <1>1, <2>1, ConnectCall DEF CallProgress, TypeOK
<1>3. \A q \in Actor \ {p} : pc'[q] = pc[q]
  BY <1>1 DEF InstallCallback, Goto
<1>4. CASE ~Present(a)
  <2>1. cb' = cb /\ pc'[p] = "done"
    BY <1>1, <1>4 DEF InstallCallback, Goto
  <2> QED
    BY <1>0, <1>1, <1>2, <1>3, <2>1 DEF CallsDiffer, CallProgress, Actor
<1>5. CASE Present(a)
  <2>1. pc'[p] = "report"
    BY <1>1, <1>5 DEF InstallCallback, Goto
  <2>2. \A d \in CallId : cb'[d] = IF d = c THEN "armed" ELSE IF d = old THEN "replaced" ELSE cb[d]
    BY <1>5 DEF InstallCallback
  <2>3. a \in Addr
    BY <1>1 DEF LinkInv, LocalsSet
  <2>4. old \in CallId => cb[old] = "armed"
    BY <1>0, <2>3, OwnerTypes DEF OwnersAreArmed
  <2>5. CallsDiffer'
    <3>1. \A d \in CallId : d > calls => d # c /\ d # old
      BY <1>0, <1>2, <2>4 DEF CallsDiffer, TypeOK, CallId
    <3> QED
      BY <1>0, <1>1, <2>2, <3>1 DEF CallsDiffer
  <2>6. CallProgress'
    <3> SUFFICES ASSUME NEW q \in Caller, loc[q].op = "connect"
                 PROVE  /\ pc'[q] \notin {"report", "done"} =>
                             cb'[loc[q].call] = "idle" /\ res[loc[q].call] = "none"
                        /\ pc'[q] = "report" =>
                             cb'[loc[q].call] \in {"armed", "run"} /\ res[loc[q].call] = "none"
                        /\ pc'[q] = "done" =>
                             \/ res[loc[q].call] = "ok"
                             \/ cb'[loc[q].call] = "idle" /\ res[loc[q].call] = "none"
      BY <1>1 DEF CallProgress
    <3>1. loc[q].call \in CallId /\ q \in Actor
      BY <1>0, ConnectCall DEF Actor
    <3>2. CASE q = p
      BY <1>2, <2>1, <2>2, <3>2
    <3>3. CASE q # p
      <4>1. loc[q].call # c
        BY <1>0, <1>1, <3>3 DEF CallsDiffer
      <4>2. pc'[q] = pc[q] /\ pc[q] # "report"
        BY <1>0, <1>1, <1>3, <3>1, <3>3 DEF LockDiscipline, ConnectPc
      <4>3. CASE loc[q].call = old
        BY <1>0, <2>4, <3>1, <4>2, <4>3 DEF CallProgress
      <4>4. CASE loc[q].call # old
        BY <1>0, <2>2, <3>1, <4>1, <4>2, <4>4 DEF CallProgress
      <4> QED
        BY <4>3, <4>4
    <3> QED
      BY <3>2, <3>3
  <2> QED
    BY <2>5, <2>6
<1> QED
  BY <1>4, <1>5

\* A connect that starts has a new number.
LEMMA ConnectCalls ==
  ASSUME TypeOK, CallsDiffer, CallProgress, NEW p \in Caller, NEW a \in Addr, CallConnect(p, a)
  PROVE  CallsDiffer' /\ CallProgress'
<1>1. /\ pc \in [Actor -> Pc] /\ loc \in [Actor -> Local] /\ p \in Actor
      /\ calls \in Nat /\ calls' = calls + 1 /\ calls + 1 \in CallId
      /\ res' = res /\ cb' = cb
  BY BoundAssumption DEF TypeOK, Actor, CallConnect, Call, history, CallId
<1>2. /\ loc'[p].op = "connect" /\ loc'[p].call = calls + 1 /\ pc'[p] = "lock"
      /\ \A q \in Actor \ {p} : loc'[q] = loc[q] /\ pc'[q] = pc[q]
  BY <1>1 DEF CallConnect, SetLocal, Goto, IdleLocal
<1>3. cb[calls + 1] = "idle" /\ res[calls + 1] = "none"
  BY <1>1 DEF CallsDiffer
<1>4. \A q \in Caller \ {p} : loc'[q] = loc[q] /\ pc'[q] = pc[q]
  BY <1>2 DEF Actor
<1>5. \A q \in Caller : loc[q].op = "connect" => loc[q].call \in 1 .. calls
  BY DEF CallsDiffer
<1>6. CallsDiffer'
  <2>1. \A q \in Caller : loc'[q].op = "connect" => loc'[q].call \in 1 .. calls'
    BY <1>1, <1>2, <1>4, <1>5
  <2>2. \A q, r \in Caller :
          loc'[q].op = "connect" /\ loc'[r].op = "connect" /\ loc'[q].call = loc'[r].call => q = r
    BY <1>1, <1>2, <1>4, <1>5 DEF CallsDiffer
  <2>3. \A c \in CallId : c > calls' => cb'[c] = "idle" /\ res'[c] = "none"
    BY <1>1 DEF CallsDiffer, CallId
  <2> QED
    BY <2>1, <2>2, <2>3 DEF CallsDiffer
<1>7. CallProgress'
  BY <1>1, <1>2, <1>3, <1>4 DEF CallProgress
<1> QED
  BY <1>6, <1>7

\* A call that starts is counted, and has nothing to do with callbacks yet.
LEMMA CallKeepsHistory ==
  ASSUME NEW p, NEW name, Call(p, name), calls \in Nat
  PROVE  cb' = cb /\ calls' \in Nat /\ calls <= calls'
<1>1. calls' = calls + 1 /\ history' = history
  BY DEF Call
<1>2. cb' = cb
  BY <1>1 DEF history
<1> QED
  BY <1>1, <1>2

\* A call that starts or returns takes its number along, or has none.
LEMMA OtherCalls ==
  ASSUME TypeOK, CallsDiffer, CallProgress, NEW p \in Caller,
         \/ \E a \in Addr : CallDiscover(p, a)
         \/ \E S \in SUBSET Addr : CallDisconnect(p, S)
         \/ Return(p)
  PROVE  CallsDiffer' /\ CallProgress'
<1>0. /\ pc \in [Actor -> Pc] /\ loc \in [Actor -> Local] /\ p \in Actor /\ calls \in Nat
      /\ res \in [CallId -> {"none", "ok", "err"}]
  BY DEF TypeOK, Actor
<1>1. cb' = cb /\ calls' \in Nat /\ calls <= calls'
  <2>1. ASSUME NEW a \in Addr, CallDiscover(p, a) PROVE <1>1!:
    BY <1>0, <2>1, CallKeepsHistory DEF CallDiscover
  <2>2. ASSUME NEW S \in SUBSET Addr, CallDisconnect(p, S) PROVE <1>1!:
    BY <1>0, <2>2, CallKeepsHistory DEF CallDisconnect
  <2>3. CASE Return(p)
    BY <1>0, <2>3 DEF Return
  <2> QED
    BY <2>1, <2>2, <2>3
<1>2. /\ loc'[p].op # "connect"
      /\ \A q \in Caller \ {p} : loc'[q] = loc[q] /\ pc'[q] = pc[q]
  <2>1. ASSUME NEW a \in Addr, CallDiscover(p, a) PROVE <1>2!:
    BY <1>0, <2>1 DEF CallDiscover, SetLocal, Goto, IdleLocal, Actor
  <2>2. ASSUME NEW S \in SUBSET Addr, CallDisconnect(p, S) PROVE <1>2!:
    BY <1>0, <2>2 DEF CallDisconnect, SetLocal, Goto, IdleLocal, Actor
  <2>3. CASE Return(p)
    BY <1>0, <2>3 DEF Return, SetLocal, Goto, IdleLocal, Actor
  <2> QED
    BY <2>1, <2>2, <2>3
<1>3. ASSUME NEW c \in CallId, res'[c] # res[c]
      PROVE  loc[p].op = "connect" /\ c = loc[p].call
  BY <1>0, <1>3 DEF CallDiscover, CallDisconnect, Return, Call, history
<1>4. CallsDiffer'
  <2>1. \A q \in Caller : loc'[q].op = "connect" => loc'[q].call \in 1 .. calls'
    BY <1>0, <1>1, <1>2 DEF CallsDiffer
  <2>2. \A q, r \in Caller :
          loc'[q].op = "connect" /\ loc'[r].op = "connect" /\ loc'[q].call = loc'[r].call => q = r
    BY <1>2 DEF CallsDiffer
  <2>3. \A c \in CallId : c > calls' => c > calls /\ res'[c] = res[c]
    BY <1>0, <1>1, <1>3 DEF CallsDiffer, CallId
  <2>4. \A c \in CallId : c > calls' => cb'[c] = "idle" /\ res'[c] = "none"
    BY <1>1, <2>3 DEF CallsDiffer
  <2> QED
    BY <2>1, <2>2, <2>4 DEF CallsDiffer
<1>5. CallProgress'
  <2>1. \A q \in Caller \ {p} : loc[q].op = "connect" => res'[loc[q].call] = res[loc[q].call]
    BY <1>3, ConnectCall DEF CallsDiffer
  <2> QED
    BY <1>1, <1>2, <2>1 DEF CallProgress
<1> QED
  BY <1>4, <1>5

\* A connect reports what it installed.
LEMMA ReportCalls ==
  ASSUME LinkInv, CallsDiffer, CallProgress, NEW p \in Caller, ReportConnected(p)
  PROVE  CallsDiffer' /\ CallProgress'
<1>1. /\ pc \in [Actor -> Pc] /\ p \in Actor /\ loc' = loc /\ cb' = cb /\ calls' = calls
      /\ res \in [CallId -> {"none", "ok", "err"}] /\ calls \in Nat /\ TypeOK
  BY DEF LinkInv, TypeOK, Actor, ReportConnected
<1>2. /\ pc'[p] = "done" /\ res' = [res EXCEPT ![loc[p].call] = "ok"]
      /\ \A q \in Caller \ {p} : pc'[q] = pc[q]
  BY <1>1 DEF ReportConnected, Goto, Actor
<1>3. loc[p].op = "connect"
  BY DEF LinkInv, LockDiscipline, ReportConnected, At
<1>4. loc[p].call \in CallId /\ loc[p].call \in 1 .. calls
  BY <1>1, <1>3, ConnectCall DEF CallsDiffer
<1>5. \A q \in Caller \ {p} : loc[q].op = "connect" => res'[loc[q].call] = res[loc[q].call]
  BY <1>1, <1>2, <1>3, ConnectCall DEF CallsDiffer
<1>6. CallsDiffer'
  BY <1>1, <1>2, <1>4 DEF CallsDiffer, CallId
<1>7. CallProgress'
  BY <1>1, <1>2, <1>4, <1>5 DEF CallProgress
<1> QED
  BY <1>6, <1>7

\* Every step keeps track of every callback and of every connect.
LEMMA CallbackStep == LinkInv /\ CallbackInv /\ [Next]_vars => CallbackInv'
<1> SUFFICES ASSUME LinkInv, CallbackInv, [Next]_vars PROVE CallbackInv'
  OBVIOUS
<1>0. /\ TypeOK /\ OwnersAreArmed /\ OwnersDiffer /\ NoCallbackIsLost
      /\ CallsDiffer /\ CallProgress
  BY DEF LinkInv, CallbackInv
<1>1. OwnersAreArmed' /\ OwnersDiffer' /\ NoCallbackIsLost'
  <2>1. CASE OwnersKept
    BY <1>0, <2>1, OwnersKeptInv
  <2>2. CASE CallbackMoves
    BY <2>2, InstallOwners, RemoveOwners, RunOwners DEF CallbackMoves
  <2> QED
    BY <1>0, <2>1, <2>2, OwnersStep
<1>2. CallsDiffer' /\ CallProgress'
  <2>1. CASE CallsMove
    <3>1. PICK p \in Caller : \/ \E a \in Addr : CallConnect(p, a) \/ CallDiscover(p, a)
                              \/ \E S \in SUBSET Addr : CallDisconnect(p, S)
                              \/ Return(p) \/ InstallCallback(p) \/ ReportConnected(p)
      BY <2>1 DEF CallsMove
    <3>2. CASE InstallCallback(p)
      BY <3>2, InstallCalls
    <3>3. CASE ReportConnected(p)
      BY <1>0, <3>3, ReportCalls
    <3>4. CASE \E a \in Addr : CallConnect(p, a)
      BY <1>0, <3>4, ConnectCalls
    <3> QED
      BY <1>0, <3>1, <3>2, <3>3, <3>4, OtherCalls
  <2>2. CASE CallsKept
    <3>1. CASE OwnersKept
      BY <1>0, <2>2, <3>1, CallsKeptInv DEF OwnersKept
    <3>2. CASE CallbackMoves
      <4>1. ASSUME NEW p \in Caller, InstallCallback(p) PROVE CallsDiffer' /\ CallProgress'
        BY <4>1, InstallCalls
      <4>2. ASSUME NEW x \in Actor, RunCallback(x) PROVE CallsDiffer' /\ CallProgress'
        BY <4>2, RunCalls
      <4>3. ASSUME NEW x \in Actor, RemoveLink(x) PROVE CallsDiffer' /\ CallProgress'
        <5>1. cb' = cb
          BY <4>3 DEF RemoveLink, history
        <5> QED
          BY <1>0, <2>2, <5>1, CallsKeptInv
      <4> QED
        BY <3>2, <4>1, <4>2, <4>3 DEF CallbackMoves
    <3> QED
      BY <1>0, <3>1, <3>2, OwnersStep
  <2> QED
    BY <1>0, <2>1, <2>2, CallsStep
<1> QED
  BY <1>1, <1>2 DEF CallbackInv

-----------------------------------------------------------------------------
(* The theorems.                                                           *)

\* The inductive invariant holds at the start ...
LEMMA InitInv == Init => LinkInv
<1> SUFFICES ASSUME Init PROVE LinkInv
  OBVIOUS
<1> USE ActorAssumption, NoneAssumption
<1>1. loc \in [Actor -> Local]
  BY IdleLocalType DEF Init
<1>2. 0 \in 0 .. MaxCalls
  BY BoundAssumption
<1>3. queue \in Seq(Event) /\ dev \in [Addr -> DevState] /\ pc \in [Actor -> Pc]
  BY DEF Init, DevState, Pc
<1>4. /\ links \in [Addr -> Link \cup {NoLink}]
      /\ cb \in [CallId -> {"idle", "armed", "replaced", "run"}]
      /\ cbLink \in [CallId -> Nat \cup {None}]
      /\ res \in [CallId -> {"none", "ok", "err"}]
      /\ lastEvent \in [Addr -> BOOLEAN] /\ chg \in [Actor -> BOOLEAN]
  BY DEF Init
<1>5. TypeOK
  BY <1>1, <1>2, <1>3, <1>4 DEF Init, TypeOK
<1>6. \A a \in Addr : ~Present(a) /\ ~links[a].temporary
  BY DEF Init, Present, NoLink
<1>7. \A x \in Actor : pc[x] = "idle" /\ loc[x].op = "none" /\ loc[x].clr = NoLink
  BY DEF Init, IdleLocal
<1>8. LocalsSet
  BY <1>7 DEF LocalsSet
<1>9. IdsAreUnique
  BY <1>6, <1>7 DEF IdsAreUnique
<1>10. LockDiscipline
  BY <1>7 DEF Init, LockDiscipline, ConnectPc, DiscoverPc, Actor
<1>11. PendingLinkIsOpened /\ WatchedLinkIsCurrent /\ TemporaryLinkIsReleased
  BY <1>6, <1>7 DEF PendingLinkIsOpened, WatchedLinkIsCurrent, TemporaryLinkIsReleased, Actor
<1> QED
  BY <1>5, <1>8, <1>9, <1>10, <1>11 DEF LinkInv

\* ... every step keeps it ...
LEMMA NextInv == LinkInv /\ [Next]_vars => LinkInv'
  BY TypeStep, LockStep, IdsStep, PendingStep, TemporaryStep DEF LinkInv

\* ... so it always holds.
LEMMA Invariance == Spec => []LinkInv
  BY InitInv, NextInv, PTL DEF Spec

\* TypeOK holds in every reachable state: no task is ever at a step whose
\* device, link or call it has not got.
THEOREM TypeCorrect == Spec => []TypeOK
<1>1. LinkInv => TypeOK
  BY DEF LinkInv
<1> QED
  BY <1>1, Invariance, PTL

\* No call leaves a pending connection behind: while a link is pending, a
\* connect or discovery of its device holds the connect lock (handler.rs,
\* connect, connect_device and clear_link).
THEOREM PendingCorrect == Spec => []PendingLinkHasConnector
<1>1. LinkInv => PendingLinkHasConnector
  BY DEF LinkInv, PendingLinkHasConnector, PendingLinkIsOpened, LockDiscipline
<1> QED
  BY <1>1, Invariance, PTL

\* No connect can adopt the link of a discovery, which is in the table only
\* while that discovery runs (handler.rs, discover_services).
THEOREM TemporaryCorrect == Spec => []TemporaryLinkHasDiscovery
<1>1. LinkInv => TemporaryLinkHasDiscovery
  <2> SUFFICES ASSUME LinkInv, NEW a \in Addr, links[a].temporary
               PROVE  lock \in Caller /\ loc[lock].addr = a /\ loc[lock].op = "discover"
    BY DEF TemporaryLinkHasDiscovery
  <2> QED
    BY DEF LinkInv, TemporaryLinkIsReleased
<1> QED
  BY <1>1, Invariance, PTL

\* Nobody has a callback at the start.
LEMMA InitCallbackInv == Init => CallbackInv
<1> SUFFICES ASSUME Init PROVE CallbackInv
  OBVIOUS
<1>1. /\ \A a \in Addr : links[a].owner = None
      /\ \A x \in Actor : pc[x] = "idle" /\ loc[x].op = "none"
      /\ \A c \in CallId : cb[c] = "idle" /\ res[c] = "none"
  BY DEF Init, NoLink, IdleLocal
<1>2. OwnersAreArmed /\ OwnersDiffer
  BY <1>1 DEF OwnersAreArmed, OwnersDiffer
<1>3. CallsDiffer /\ CallProgress
  BY <1>1 DEF CallsDiffer, CallProgress, Actor
<1>4. NoCallbackIsLost
  BY <1>1 DEF NoCallbackIsLost
<1> QED
  BY <1>2, <1>3, <1>4 DEF CallbackInv

\* LinkInv and CallbackInv together are the invariant of the second half.
LEMMA CallbackInvariance == Spec => [](LinkInv /\ CallbackInv)
<1>1. Init => LinkInv /\ CallbackInv
  BY InitInv, InitCallbackInv
<1>2. LinkInv /\ CallbackInv /\ [Next]_vars => (LinkInv /\ CallbackInv)'
  BY NextInv, CallbackStep
<1> QED
  BY <1>1, <1>2, PTL DEF Spec

\* An installed callback is in the link table or with the task that is clearing
\* its link: however calls, events and timeouts interleave it is never dropped
\* unrun (handler.rs, connect and clear_link).
THEOREM CallbacksCorrect == Spec => []NoCallbackIsLost
<1>1. CallbackInv => NoCallbackIsLost
  BY DEF CallbackInv
<1> QED
  BY <1>1, CallbackInvariance, PTL

\* A connect installs its callback as the promise says.
LEMMA InstallPromise ==
  ASSUME LinkInv, CallbackInv, NEW p \in Caller, InstallCallback(p)
  PROVE  Promise!Next \/ UNCHANGED <<cb, res>>
<1> DEFINE a == loc[p].addr
           c == loc[p].call
           old == links[a].owner
<1>0. /\ TypeOK /\ OwnersAreArmed /\ CallProgress
      /\ pc[p] = "install" /\ loc[p].op = "connect" /\ res' = res
  BY DEF LinkInv, CallbackInv, InstallCallback, At, LockDiscipline
<1>1. CASE ~Present(a)
  BY <1>0, <1>1 DEF InstallCallback
<1>2. CASE Present(a)
  <2>1. /\ cb \in [CallId -> {"idle", "armed", "replaced", "run"}]
        /\ cb' = [d \in CallId |-> IF d = c THEN "armed" ELSE IF d = old THEN "replaced" ELSE cb[d]]
    BY <1>0, <1>2 DEF TypeOK, InstallCallback
  <2>2. c \in CallId /\ cb[c] = "idle" /\ res[c] = "none"
    BY <1>0, ConnectCall DEF CallbackInv, CallProgress
  <2>3. a \in Addr /\ old \in CallId \cup {None} /\ None \notin CallId
    <3>1. p \in Actor
      BY DEF Actor
    <3> QED
      BY <1>0, <3>1, OwnerTypes DEF LinkInv, LocalsSet
  <2>4. CASE old = None
    <3>1. cb' = [cb EXCEPT ![c] = "armed"]
      BY <2>1, <2>3, <2>4
    <3> QED
      BY <1>0, <2>2, <3>1 DEF Promise!Next, Promise!Install
  <2>5. CASE old # None
    <3>1. old \in CallId \ {c} /\ cb[old] = "armed"
      BY <1>0, <2>2, <2>3, <2>5 DEF OwnersAreArmed
    <3> QED
      BY <1>0, <2>1, <2>2, <3>1 DEF Promise!Next, Promise!Install
  <2> QED
    BY <2>4, <2>5
<1> QED
  BY <1>1, <1>2

\* Running the callback of a cleared link is a run of the promise.
LEMMA RunPromise ==
  ASSUME LinkInv, CallbackInv, NEW x \in Actor, RunCallback(x)
  PROVE  Promise!Next \/ UNCHANGED <<cb, res>>
<1> DEFINE o == loc[x].clr.owner
<1>0. /\ TypeOK /\ OwnersAreArmed /\ pc[x] = "callback" /\ res' = res
      /\ cb \in [CallId -> {"idle", "armed", "replaced", "run"}]
      /\ cb' = [c \in CallId |-> IF c = o THEN "run" ELSE cb[c]]
  BY DEF LinkInv, CallbackInv, TypeOK, RunCallback, At
<1>1. o \in CallId \cup {None} /\ None \notin CallId
  BY <1>0, OwnerTypes
<1>2. CASE o = None
  BY <1>0, <1>1, <1>2
<1>3. CASE o \in CallId
  <2>1. cb[o] = "armed" /\ cb' = [cb EXCEPT ![o] = "run"]
    BY <1>0, <1>1, <1>3 DEF OwnersAreArmed
  <2> QED
    BY <1>0, <1>3, <2>1 DEF Promise!Next, Promise!Run
<1> QED
  BY <1>1, <1>2, <1>3

\* A connect returns Ok once it has installed its callback, and Err only if it
\* has not.
LEMMA ReturnPromise ==
  ASSUME LinkInv, CallbackInv, NEW p \in Caller, ReportConnected(p) \/ Return(p)
  PROVE  Promise!Next \/ UNCHANGED <<cb, res>>
<1>0. TypeOK /\ CallProgress /\ CallsDiffer /\ cb' = cb
  BY DEF LinkInv, CallbackInv, ReportConnected, Return
<1>1. CASE ReportConnected(p)
  <2>1. pc[p] = "report" /\ loc[p].op = "connect" /\ res' = [res EXCEPT ![loc[p].call] = "ok"]
    BY <1>1 DEF ReportConnected, At, LinkInv, LockDiscipline
  <2>2. loc[p].call \in CallId /\ cb[loc[p].call] \in {"armed", "run"} /\ res[loc[p].call] = "none"
    BY <1>0, <2>1, ConnectCall DEF CallProgress
  <2> QED
    BY <1>0, <2>1, <2>2 DEF Promise!Next, Promise!Succeed
<1>2. CASE Return(p)
  <2>1. CASE res' = res
    BY <1>0, <2>1
  <2>2. CASE res' # res
    <3>1. /\ pc[p] = "done" /\ loc[p].op = "connect" /\ res[loc[p].call] = "none"
          /\ res' = [res EXCEPT ![loc[p].call] = "err"]
      BY <1>2, <2>2 DEF Return, At
    <3>2. loc[p].call \in CallId /\ cb[loc[p].call] = "idle"
      BY <1>0, <3>1, ConnectCall DEF CallProgress
    <3> QED
      BY <1>0, <3>1, <3>2 DEF Promise!Next, Promise!Fail
  <2> QED
    BY <2>1, <2>2
<1> QED
  BY <1>1, <1>2

\* Every step of the handler is a step of the promise, or none.
LEMMA PromiseStep ==
  ASSUME LinkInv, CallbackInv, [Next]_vars
  PROVE  Promise!Next \/ UNCHANGED <<cb, res>>
<1>0. TypeOK
  BY DEF LinkInv
<1>1. ASSUME NEW p \in Caller, InstallCallback(p) PROVE Promise!Next \/ UNCHANGED <<cb, res>>
  BY <1>1, InstallPromise
<1>2. ASSUME NEW x \in Actor, RunCallback(x) PROVE Promise!Next \/ UNCHANGED <<cb, res>>
  BY <1>2, RunPromise
<1>3. ASSUME NEW x \in Actor, RemoveLink(x) PROVE Promise!Next \/ UNCHANGED <<cb, res>>
  BY <1>3 DEF RemoveLink, history
<1>4. CASE OwnersKept
  <2>1. CASE CallsKept
    BY <1>4, <2>1 DEF OwnersKept, CallsKept
  <2>2. CASE CallsMove
    <3>1. PICK p \in Caller : \/ \E a \in Addr : CallConnect(p, a) \/ CallDiscover(p, a)
                              \/ \E S \in SUBSET Addr : CallDisconnect(p, S)
                              \/ Return(p) \/ InstallCallback(p) \/ ReportConnected(p)
      BY <2>2 DEF CallsMove
    <3>2. CASE \E a \in Addr : CallConnect(p, a) \/ CallDiscover(p, a)
      BY <3>2 DEF CallConnect, CallDiscover, Call, history
    <3>3. CASE \E S \in SUBSET Addr : CallDisconnect(p, S)
      BY <3>3 DEF CallDisconnect, Call, history
    <3> QED
      BY <1>1, <3>1, <3>2, <3>3, ReturnPromise
  <2> QED
    BY <1>0, <2>1, <2>2, CallsStep
<1> QED
  BY <1>0, <1>1, <1>2, <1>3, <1>4, OwnersStep DEF CallbackMoves

\* The handler keeps the promise of ConnectPromise on every callback: connect
\* returned Ok exactly for callbacks it installed, each is run at most once, and
\* never after a later connect replaced it (handler.rs, connect, clear_link).
THEOREM PromiseKept == Spec => CallbackPromise
<1>1. Init => Promise!Init
  BY DEF Init, Promise!Init
<1>2. LinkInv /\ CallbackInv /\ [Next]_vars => [Promise!Next]_(Promise!vars)
  BY PromiseStep DEF Promise!vars
<1> QED
  BY <1>1, <1>2, CallbackInvariance, PTL DEF Spec, CallbackPromise, Promise!Spec
=============================================================================
