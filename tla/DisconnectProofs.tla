--------------------------- MODULE DisconnectProofs ---------------------------
(***************************************************************************)
(* Proofs about the end of a link in BlecLinks: what is done when its      *)
(* watch says so, which link a disconnect removes, that no reported loss   *)
(* is missed, and that in the end the table says what the adapter says.    *)
(***************************************************************************)
EXTENDS BlecLinksProofs

-----------------------------------------------------------------------------
(* The inductive invariants, on top of LinkInv and CallbackInv.            *)

\* A link is cleared by one task, and only then closed.
ClearedOnce ==
  /\ \A x \in Actor : loc[x].clr.id \notin closed
  /\ \A x, y \in Actor : loc[x].clr # NoLink /\ loc[x].clr.id = loc[y].clr.id => x = y

\* A closed link was in the table, is not any more, and its loss is reported.
ClosedIsGone ==
  \A id \in closed :
    /\ id < nextId
    /\ \A a \in Addr : links[a].id # id
    /\ id \in reported \cup temps

\* A link that is about to be closed is reported, unless it was temporary.
SignalIsLast ==
  /\ \A a \in Addr : links[a].temporary => links[a].id \in temps
  /\ \A x \in Actor : loc[x].clr.temporary => loc[x].clr.id \in temps
  /\ \A x \in Actor : At(x, "signal") => loc[x].clr.id \in reported \cup temps

\* A callback that waits is with the link it was installed on.
OwnerKnowsLink ==
  /\ \A a \in Addr : links[a].owner # None => cbLink[links[a].owner] = links[a].id
  /\ \A x \in Actor : At(x, "callback") /\ loc[x].clr.owner # None
       => cbLink[loc[x].clr.owner] = loc[x].clr.id

ClosingInv == ClearedOnce /\ ClosedIsGone /\ SignalIsLast /\ OwnerKnowsLink

\* The link that a disconnect found is older than its look-up; if it was up, it
\* is up until it is closed; what it clears is that link.
FoundLinkIsOld(p) ==
  /\ loc[p].rx \in Nat /\ loc[p].only = loc[p].rx
  /\ loc[p].rx < loc[p].born /\ loc[p].born <= nextId
  /\ \A a \in Addr : links[a].id = loc[p].rx => a = loc[p].addr

KnowsLink(d) ==
  /\ At(d, "idle") => loc[d].op = "none"
  /\ loc[d].op = "disconnect" =>
       /\ At(d, "lookup") => loc[d].rx = None
       /\ pc[d] \in {"query", "drop", "waitdown", "clear"} => FoundLinkIsOld(d)
       /\ pc[d] \in {"query", "drop", "waitdown"} /\ loc[d].was => loc[d].rx \in up \cup closed
       /\ At(d, "waitdown") => loc[d].was
       /\ pc[d] \in {"callback", "compute", "send", "signal"} => loc[d].clr.id = loc[d].rx

DisconnectKnowsLink == \A d \in Caller : KnowsLink(d)

-----------------------------------------------------------------------------
(* The end of a link.                                                      *)

\* What a step does that opens, closes, reports and owns no link ...
ClosingKept ==
  /\ links' = links /\ nextId' = nextId /\ closed' = closed
  /\ temps' = temps /\ reported' = reported /\ cbLink' = cbLink
  /\ \A x \in Actor :
       /\ loc'[x].clr \in {loc[x].clr, NoLink}
       /\ pc'[x] \in {"callback", "signal"} => pc'[x] = pc[x] /\ loc'[x].clr = loc[x].clr

\* ... and the steps that do.
ClosingMoves ==
  \/ \E p \in Caller : OpenLink(p) \/ InstallCallback(p)
  \/ \E x \in Actor : RemoveLink(x) \/ RunCallback(x) \/ ReportDisconnected(x) \/ SignalClosed(x)

\* Links are opened, owned, cleared, reported and closed in six actions only.
LEMMA ClosingStep == TypeOK /\ [Next]_vars => ClosingKept \/ ClosingMoves
<1> SUFFICES ASSUME TypeOK, [Next]_vars PROVE ClosingKept \/ ClosingMoves
  OBVIOUS
<1> USE ActorAssumption, NoneAssumption
<1> USE DEF At, Goto, table, history, backend
<1>0. pc \in [Actor -> Pc] /\ loc \in [Actor -> Local] /\ Caller \subseteq Actor /\ Pump \in Actor
  BY DEF TypeOK, Actor
<1>1. ASSUME PowerOff PROVE ClosingKept \/ ClosingMoves
  BY <1>0, <1>1 DEF PowerOff, BackendOnly, ClosingKept
<1>2. ASSUME NEW a \in Addr, Establish(a) PROVE ClosingKept \/ ClosingMoves
  BY <1>0, <1>2 DEF Establish, BackendOnly, ClosingKept
<1>3. ASSUME NEW a \in Addr, FailConnect(a) PROVE ClosingKept \/ ClosingMoves
  BY <1>0, <1>3 DEF FailConnect, BackendOnly, ClosingKept
<1>4. ASSUME NEW a \in Addr, DropLink(a) PROVE ClosingKept \/ ClosingMoves
  BY <1>0, <1>4 DEF DropLink, BackendOnly, ClosingKept
<1>5. ASSUME NEW p \in Caller, NEW a \in Addr, CallConnect(p, a) PROVE ClosingKept \/ ClosingMoves
  BY <1>0, <1>5 DEF CallConnect, Call, SetLocal, IdleLocal, Local, ClosingKept
<1>6. ASSUME NEW p \in Caller, NEW a \in Addr, CallDiscover(p, a) PROVE ClosingKept \/ ClosingMoves
  BY <1>0, <1>6 DEF CallDiscover, Call, SetLocal, IdleLocal, Local, ClosingKept
<1>7. ASSUME NEW p \in Caller, NEW S \in SUBSET Addr, CallDisconnect(p, S) PROVE ClosingKept \/ ClosingMoves
  BY <1>0, <1>7 DEF CallDisconnect, Call, SetLocal, IdleLocal, Local, ClosingKept
<1>8. ASSUME NEW p \in Caller, Return(p) PROVE ClosingKept \/ ClosingMoves
  BY <1>0, <1>8 DEF Return, SetLocal, IdleLocal, Local, ClosingKept
<1>9. ASSUME NEW p \in Caller, AcquireConnectLock(p) PROVE ClosingKept \/ ClosingMoves
  BY <1>0, <1>9 DEF AcquireConnectLock, ClosingKept
<1>10. ASSUME NEW p \in Caller, ProbeDevice(p) PROVE ClosingKept \/ ClosingMoves
  BY <1>0, <1>10 DEF ProbeDevice, ClosingKept
<1>11. ASSUME NEW p \in Caller, ReadServices(p) PROVE ClosingKept \/ ClosingMoves
  BY <1>0, <1>11 DEF ReadServices, ClosingKept
<1>12. ASSUME NEW p \in Caller, OpenLink(p) PROVE ClosingKept \/ ClosingMoves
  BY <1>12 DEF ClosingMoves, Actor
<1>13. ASSUME NEW p \in Caller, CheckConnected(p) PROVE ClosingKept \/ ClosingMoves
  BY <1>0, <1>13 DEF CheckConnected, Opened, ClosingKept
<1>14. ASSUME NEW p \in Caller, ConnectReturns(p) PROVE ClosingKept \/ ClosingMoves
  BY <1>0, <1>14 DEF ConnectReturns, Opened, ClosingKept
<1>15. ASSUME NEW p \in Caller, AwaitConnected(p) PROVE ClosingKept \/ ClosingMoves
  BY <1>0, <1>15 DEF AwaitConnected, Opened, ClosingKept
<1>16. ASSUME NEW p \in Caller, CancelAttempt(p) PROVE ClosingKept \/ ClosingMoves
  BY <1>0, <1>16 DEF CancelAttempt, ClosingKept
<1>17. ASSUME NEW p \in Caller, AttemptFailed(p) PROVE ClosingKept \/ ClosingMoves
  BY <1>0, <1>17 DEF AttemptFailed, SetLocal, Local, ClosingKept
<1>18. ASSUME NEW p \in Caller, GiveUp(p) PROVE ClosingKept \/ ClosingMoves
  BY <1>0, <1>18 DEF GiveUp, SetLocal, Local, ClosingKept
<1>19. ASSUME NEW p \in Caller, FindServices(p) PROVE ClosingKept \/ ClosingMoves
  BY <1>0, <1>19 DEF FindServices, ClosingKept
<1>20. ASSUME NEW p \in Caller, DiscoverServices(p) PROVE ClosingKept \/ ClosingMoves
  BY <1>0, <1>20 DEF DiscoverServices, ClosingKept
<1>21. ASSUME NEW p \in Caller, InstallCallback(p) PROVE ClosingKept \/ ClosingMoves
  BY <1>21 DEF ClosingMoves, Actor
<1>22. ASSUME NEW p \in Caller, ReportConnected(p) PROVE ClosingKept \/ ClosingMoves
  BY <1>0, <1>22 DEF ReportConnected, ClosingKept
<1>23. ASSUME NEW p \in Caller, OpenedForDiscovery(p) PROVE ClosingKept \/ ClosingMoves
  BY <1>0, <1>23 DEF OpenedForDiscovery, SetLocal, Local, ClosingKept
<1>24. ASSUME NEW p \in Caller, ReadAndRelease(p) PROVE ClosingKept \/ ClosingMoves
  BY <1>0, <1>24 DEF ReadAndRelease, SetLocal, Local, ClosingKept
<1>25. ASSUME NEW p \in Caller, ReleaseDevice(p) PROVE ClosingKept \/ ClosingMoves
  BY <1>0, <1>25 DEF ReleaseDevice, ClosingKept
<1>26. ASSUME NEW p \in Caller, WaitReleased(p) PROVE ClosingKept \/ ClosingMoves
  BY <1>0, <1>26 DEF WaitReleased, ClosingKept
<1>27. ASSUME NEW p \in Caller, LookupLink(p) PROVE ClosingKept \/ ClosingMoves
  <2>1. \A y \in Actor : loc'[y].clr = loc[y].clr
    <3>1. CASE Visible(loc[p].addr)
      <4> DEFINE link == links[loc[p].addr]
      <4>1. (link.id \in up) \in BOOLEAN
        OBVIOUS
      <4>2. PICK b \in BOOLEAN : SetLocal(p, [loc[p] EXCEPT !.rx = link.id, !.only = link.id,
                                                           !.was = b, !.born = nextId])
        BY <1>27, <3>1, <4>1 DEF LookupLink
      <4> QED
        BY <1>0, <4>2 DEF SetLocal, Local
    <3>2. CASE ~Visible(loc[p].addr)
      BY <1>0, <1>27, <3>2 DEF LookupLink
    <3> QED
      BY <3>1, <3>2
  <2> QED
    BY <1>0, <1>27, <2>1 DEF LookupLink, AfterDisconnect, ClosingKept
<1>28. ASSUME NEW p \in Caller, QueryConnected(p) PROVE ClosingKept \/ ClosingMoves
  BY <1>0, <1>28 DEF QueryConnected, SetLocal, Local, ClosingKept
<1>29. ASSUME NEW p \in Caller, DropDevice(p) PROVE ClosingKept \/ ClosingMoves
  BY <1>0, <1>29 DEF DropDevice, ClosingKept
<1>30. ASSUME NEW p \in Caller, WaitDisconnected(p) PROVE ClosingKept \/ ClosingMoves
  BY <1>0, <1>30 DEF WaitDisconnected, AfterDisconnect, ClosingKept
<1>31. ASSUME NEW x \in Actor, NextAddress(x) PROVE ClosingKept \/ ClosingMoves
  <2>1. \A y \in Actor : loc'[y].clr \in {loc[y].clr, NoLink}
    <3>1. CASE loc' = loc
      BY <3>1
    <3>2. CASE \E a : SetLocal(x, [loc[x] EXCEPT !.todo = loc[x].todo \ {a}, !.addr = a,
                                                 !.only = None, !.rx = None])
      BY <1>0, <3>2 DEF SetLocal, Local
    <3>3. CASE x = Pump /\ SetLocal(x, IdleLocal)
      BY <1>0, <3>3 DEF SetLocal, IdleLocal
    <3> QED
      BY <1>31, <3>1, <3>2, <3>3 DEF NextAddress
  <2>2. \A y \in Actor : pc'[y] \in {"callback", "signal"} => y # x /\ pc'[y] = pc[y] /\ loc'[y] = loc[y]
    BY <1>0, <1>31 DEF NextAddress, SetLocal
  <2> QED
    BY <1>31, <2>1, <2>2 DEF NextAddress, ClosingKept
<1>32. ASSUME NEW x \in Actor, RemoveLink(x) PROVE ClosingKept \/ ClosingMoves
  BY <1>32 DEF ClosingMoves, Actor
<1>33. ASSUME NEW x \in Actor, RunCallback(x) PROVE ClosingKept \/ ClosingMoves
  BY <1>33 DEF ClosingMoves, Actor
<1>34. ASSUME NEW x \in Actor, ComputeUpdate(x) PROVE ClosingKept \/ ClosingMoves
  BY <1>0, <1>34 DEF ComputeUpdate, SetLocal, Local, ClosingKept
<1>35. ASSUME NEW x \in Actor, ReportDisconnected(x) PROVE ClosingKept \/ ClosingMoves
  BY <1>35 DEF ClosingMoves, Actor
<1>36. ASSUME NEW x \in Actor, SignalClosed(x) PROVE ClosingKept \/ ClosingMoves
  BY <1>36 DEF ClosingMoves, Actor
<1>37. ASSUME HandleConnect PROVE ClosingKept \/ ClosingMoves
  <2>1. \A y \in Actor : loc'[y].clr = loc[y].clr
    BY <1>0, <1>37 DEF HandleConnect, SetLocal, Local
  <2>2. \A y \in Actor : pc'[y] \in {"callback", "signal"} => pc'[y] = pc[y]
    BY <1>0, <1>37 DEF HandleConnect
  <2> QED
    BY <1>37, <2>1, <2>2 DEF HandleConnect, Take, ClosingKept
<1>38. ASSUME HandleDisconnect PROVE ClosingKept \/ ClosingMoves
  BY <1>0, <1>38 DEF HandleDisconnect, Take, SetLocal, Local, ClosingKept
<1>39. ASSUME HandlePoweredOff PROVE ClosingKept \/ ClosingMoves
  BY <1>0, <1>39 DEF HandlePoweredOff, Take, SetLocal, Local, ClosingKept
<1>40. ASSUME RejectDevice PROVE ClosingKept \/ ClosingMoves
  BY <1>0, <1>40 DEF RejectDevice, SetLocal, IdleLocal, Local, ClosingKept
<1>41. ASSUME UNCHANGED vars PROVE ClosingKept \/ ClosingMoves
  BY <1>41 DEF vars, ClosingKept
<1> QED
  BY <1>1, <1>2, <1>3, <1>4, <1>5, <1>6, <1>7, <1>8, <1>9, <1>10,
     <1>11, <1>12, <1>13, <1>14, <1>15, <1>16, <1>17, <1>18, <1>19,
     <1>20, <1>21, <1>22, <1>23, <1>24, <1>25, <1>26, <1>27, <1>28,
     <1>29, <1>30, <1>31, <1>32, <1>33, <1>34, <1>35, <1>36, <1>37,
     <1>38, <1>39, <1>40, <1>41
  DEF Next, Backend, PumpStep, StartCall, CallerStep, ConnectStep, DisconnectStep, ClearLink, Actor

\* The link a task clears has an id.
LEMMA ClearedIds ==
  ASSUME TypeOK, NEW x \in Actor
  PROVE  loc[x].clr # NoLink => loc[x].clr.id \in Nat
  BY DEF TypeOK, Local, Link

\* No link has no id.
LEMMA NoLinkId == NoLink.id = None /\ None \notin Nat
  BY NoneAssumption DEF NoLink

\* What keeps the links and who clears them keeps what is said of their end.
LEMMA KeptClosing ==
  ASSUME TypeOK, ClosingInv, ClosingKept
  PROVE  ClosingInv'
<1> USE NoneAssumption
<1>1. /\ links' = links /\ nextId' = nextId /\ closed' = closed
      /\ temps' = temps /\ reported' = reported /\ cbLink' = cbLink
      /\ closed \subseteq Nat
  BY DEF ClosingKept, TypeOK
<1>2. ClearedOnce'
  <2>1. \A x \in Actor : loc'[x].clr.id \notin closed
    <3>1. NoLink.id \notin closed
      BY <1>1, NoLinkId
    <3> QED
      BY <3>1 DEF ClosingInv, ClosingKept, ClearedOnce
  <2>2. ASSUME NEW x \in Actor, NEW y \in Actor, loc'[x].clr # NoLink,
               loc'[x].clr.id = loc'[y].clr.id
        PROVE  x = y
    <3>1. loc'[x].clr = loc[x].clr /\ loc'[x].clr.id \in Nat
      BY <2>2, ClearedIds DEF ClosingKept
    <3>2. loc'[y].clr = loc[y].clr
      BY <2>2, <3>1 DEF ClosingKept, NoLink
    <3> QED
      BY <2>2, <3>1, <3>2 DEF ClosingInv, ClearedOnce
  <2> QED
    BY <1>1, <2>1, <2>2 DEF ClearedOnce
<1>3. ClosedIsGone'
  BY <1>1 DEF ClosingInv, ClosedIsGone
<1>4. SignalIsLast'
  BY <1>1 DEF ClosingInv, ClosingKept, SignalIsLast, At, NoLink
<1>5. OwnerKnowsLink'
  BY <1>1 DEF ClosingInv, ClosingKept, OwnerKnowsLink, At
<1> QED
  BY <1>2, <1>3, <1>4, <1>5 DEF ClosingInv

\* A new link is not a closed one.
LEMMA OpenClosing ==
  ASSUME LinkInv, ClosingInv, NEW p \in Caller, OpenLink(p)
  PROVE  ClosingInv'
<1> USE NoneAssumption
<1> DEFINE a == loc[p].addr
<1>0. /\ TypeOK /\ p \in Actor /\ pc \in [Actor -> Pc] /\ loc \in [Actor -> Local]
      /\ links \in [Addr -> Link \cup {NoLink}] /\ nextId \in Nat /\ closed \subseteq Nat
  BY DEF LinkInv, TypeOK, Actor
<1>1. /\ closed' = closed /\ reported' = reported /\ cbLink' = cbLink
      /\ \A x \in Actor : /\ loc'[x].clr = loc[x].clr
                          /\ pc'[x] \in {"callback", "signal"} => pc'[x] = pc[x]
  <2>1. PICK n : SetLocal(p, [loc[p] EXCEPT !.rx = n])
    BY DEF OpenLink
  <2> QED
    BY <1>0, <2>1 DEF OpenLink, SetLocal, Local, Goto, history
<1>2. CASE Present(a)
  <2>1. ClosingKept
    BY <1>1, <1>2 DEF OpenLink, ClosingKept
  <2> QED
    BY <1>0, <2>1, KeptClosing
<1>3. CASE ~Present(a)
  <2>1. /\ nextId' = nextId + 1
        /\ temps' = IF loc[p].op = "discover" THEN temps \cup {nextId} ELSE temps
        /\ links' = [links EXCEPT ![a] = [id |-> nextId, temporary |-> loc[p].op = "discover",
                                          owner |-> None]]
    BY <1>3 DEF OpenLink
  <2>2. \A b \in Addr : \/ links'[b] = links[b]
                        \/ /\ links'[b].id = nextId /\ links'[b].owner = None
                           /\ links'[b].temporary => nextId \in temps'
    BY <1>0, <2>1
  <2>3. ClearedOnce'
    BY <1>1 DEF ClosingInv, ClearedOnce
  <2>4. ClosedIsGone'
    BY <1>0, <1>1, <2>1, <2>2 DEF ClosingInv, ClosedIsGone
  <2>5. SignalIsLast'
    BY <1>1, <2>1, <2>2 DEF ClosingInv, SignalIsLast, At
  <2>6. OwnerKnowsLink'
    BY <1>1, <2>2 DEF ClosingInv, OwnerKnowsLink, At
  <2> QED
    BY <2>3, <2>4, <2>5, <2>6 DEF ClosingInv
<1> QED
  BY <1>2, <1>3

\* A callback is installed on the link it will be with.
LEMMA InstallClosing ==
  ASSUME LinkInv, CallbackInv, ClosingInv, NEW p \in Caller, InstallCallback(p)
  PROVE  ClosingInv'
<1> USE NoneAssumption
<1> DEFINE a == loc[p].addr
           k == loc[p].call
<1>0. /\ TypeOK /\ p \in Actor /\ pc \in [Actor -> Pc] /\ a \in Addr
      /\ links \in [Addr -> Link \cup {NoLink}] /\ cbLink \in [CallId -> Nat \cup {None}]
  BY DEF LinkInv, TypeOK, LocalsSet, Actor, InstallCallback, At
<1>1. /\ closed' = closed /\ reported' = reported /\ temps' = temps /\ nextId' = nextId /\ loc' = loc
      /\ \A x \in Actor : pc'[x] \in {"callback", "signal"} => pc'[x] = pc[x]
  BY <1>0 DEF InstallCallback, Goto
<1>2. CASE ~Present(a)
  <2>1. ClosingKept
    BY <1>1, <1>2 DEF InstallCallback, ClosingKept
  <2> QED
    BY <1>0, <2>1, KeptClosing
<1>3. CASE Present(a)
  <2>1. loc[p].op = "connect" /\ k \in CallId /\ cb[k] = "idle"
    <3>1. loc[p].op = "connect"
      BY DEF LinkInv, LockDiscipline, InstallCallback, At
    <3>2. k \in CallId
      BY <1>0, <3>1, ConnectCall DEF CallbackInv, CallsDiffer
    <3> QED
      BY <3>1, <3>2 DEF CallbackInv, CallProgress, InstallCallback, At
  <2>2. /\ cbLink' = [cbLink EXCEPT ![k] = links[a].id]
        /\ links' = [links EXCEPT ![a].owner = k] /\ links[a] \in Link
    BY <1>0, <1>3, LinkIds DEF InstallCallback
  <2>3. \A b \in Addr :
          /\ links'[b].id = links[b].id /\ links'[b].temporary = links[b].temporary
          /\ links'[b].owner = IF b = a THEN k ELSE links[b].owner
    BY <1>0, <2>2 DEF Link
  <2>4. /\ \A b \in Addr : links[b].owner # k
        /\ \A x \in Actor : pc[x] = "callback" => loc[x].clr.owner # k
    BY <1>0, <2>1 DEF CallbackInv, OwnersAreArmed, CallId
  <2>5. \A c : c # k => cbLink'[c] = cbLink[c]
    BY <1>0, <2>2
  <2>6. cbLink'[k] = links[a].id
    BY <1>0, <2>1, <2>2
  <2>7. ClearedOnce' /\ ClosedIsGone'
    BY <1>1, <2>3 DEF ClosingInv, ClearedOnce, ClosedIsGone
  <2>8. SignalIsLast'
    BY <1>1, <2>3 DEF ClosingInv, SignalIsLast, At
  <2>9. OwnerKnowsLink'
    BY <1>1, <2>3, <2>4, <2>5, <2>6 DEF ClosingInv, OwnerKnowsLink, At
  <2> QED
    BY <2>7, <2>8, <2>9 DEF ClosingInv
<1> QED
  BY <1>2, <1>3

\* Whoever takes a link out of the table is alone with it.
LEMMA RemoveClosing ==
  ASSUME LinkInv, ClosingInv, NEW x \in Actor, RemoveLink(x)
  PROVE  ClosingInv'
<1> USE NoneAssumption, ActorAssumption
<1> DEFINE a == loc[x].addr
<1>0. /\ TypeOK /\ pc \in [Actor -> Pc] /\ a \in Addr /\ loc \in [Actor -> Local]
      /\ links \in [Addr -> Link \cup {NoLink}] /\ closed \subseteq Nat
  BY DEF LinkInv, TypeOK, LocalsSet, RemoveLink, At
<1>1. /\ closed' = closed /\ reported' = reported /\ temps' = temps /\ nextId' = nextId
      /\ cbLink' = cbLink
  BY DEF RemoveLink, history
<1>2. CASE links' = links /\ loc' = loc /\ Goto(x, AfterClear(x))
  <2>1. ClosingKept
    BY <1>0, <1>1, <1>2 DEF AfterClear, AfterDisconnect, ClosingKept, Goto
  <2> QED
    BY <1>0, <2>1, KeptClosing
<1>3. CASE /\ Present(a) /\ links' = [links EXCEPT ![a] = NoLink]
           /\ SetLocal(x, [loc[x] EXCEPT !.clr = links[a]]) /\ Goto(x, "callback")
  <2>1. /\ loc'[x].clr = links[a] /\ pc'[x] = "callback"
        /\ \A y \in Actor \ {x} : loc'[y] = loc[y] /\ pc'[y] = pc[y]
    BY <1>0, <1>3 DEF SetLocal, Goto, Local
  <2>2. \A b \in Addr : links'[b] = IF b = a THEN NoLink ELSE links[b]
    BY <1>0, <1>3
  <2>3. links[a] # NoLink /\ links[a].id \in Nat
    BY <1>0, <1>3, LinkIds DEF Present, NoLink
  <2>4. ClearedOnce'
    <3>1. \A y \in Actor : loc'[y].clr.id \notin closed
      BY <1>0, <2>1 DEF ClosingInv, ClearedOnce, ClosedIsGone
    <3>2. \A y \in Actor \ {x} : loc[y].clr # NoLink => loc[y].clr.id # links[a].id
      BY <1>0 DEF LinkInv, IdsAreUnique
    <3>3. \A y \in Actor \ {x} : loc[y].clr.id # links[a].id
      BY <2>3, <3>2 DEF NoLink
    <3> QED
      BY <1>1, <2>1, <3>1, <3>3 DEF ClosingInv, ClearedOnce
  <2>5. ClosedIsGone'
    BY <1>0, <1>1, <2>2 DEF ClosingInv, ClosedIsGone, NoLink
  <2>6. SignalIsLast'
    BY <1>0, <1>1, <2>1, <2>2 DEF ClosingInv, SignalIsLast, NoLink, At
  <2>7. OwnerKnowsLink'
    BY <1>0, <1>1, <2>1, <2>2 DEF ClosingInv, OwnerKnowsLink, NoLink, At
  <2> QED
    BY <2>4, <2>5, <2>6, <2>7 DEF ClosingInv
<1> QED
  BY <1>2, <1>3 DEF RemoveLink

\* A link of a discovery has nothing to report.
LEMMA RunClosing ==
  ASSUME LinkInv, ClosingInv, NEW x \in Actor, RunCallback(x)
  PROVE  ClosingInv'
<1>0. pc \in [Actor -> Pc]
  BY DEF LinkInv, TypeOK
<1>1. /\ links' = links /\ nextId' = nextId /\ closed' = closed
      /\ temps' = temps /\ reported' = reported /\ cbLink' = cbLink /\ loc' = loc
  BY DEF RunCallback, table
<1>2. /\ pc'[x] # "callback" /\ (pc'[x] = "signal" => loc[x].clr.temporary)
      /\ \A y \in Actor \ {x} : pc'[y] = pc[y]
  BY <1>0 DEF RunCallback, Goto
<1>3. ClearedOnce' /\ ClosedIsGone'
  BY <1>1 DEF ClosingInv, ClearedOnce, ClosedIsGone
<1>4. SignalIsLast'
  BY <1>1, <1>2 DEF ClosingInv, SignalIsLast, At
<1>5. OwnerKnowsLink'
  BY <1>1, <1>2 DEF ClosingInv, OwnerKnowsLink, At
<1> QED
  BY <1>3, <1>4, <1>5 DEF ClosingInv

\* Any other link is reported before its watch is closed.
LEMMA ReportClosing ==
  ASSUME LinkInv, ClosingInv, NEW x \in Actor, ReportDisconnected(x)
  PROVE  ClosingInv'
<1>0. pc \in [Actor -> Pc]
  BY DEF LinkInv, TypeOK
<1>1. /\ links' = links /\ nextId' = nextId /\ closed' = closed
      /\ temps' = temps /\ cbLink' = cbLink /\ loc' = loc
      /\ reported' = reported \cup {loc[x].clr.id}
  BY DEF ReportDisconnected, table
<1>2. pc'[x] = "signal" /\ \A y \in Actor \ {x} : pc'[y] = pc[y]
  BY <1>0 DEF ReportDisconnected, Goto
<1>3. ClearedOnce' /\ ClosedIsGone'
  BY <1>1 DEF ClosingInv, ClearedOnce, ClosedIsGone
<1>4. SignalIsLast'
  BY <1>1, <1>2 DEF ClosingInv, SignalIsLast, At
<1>5. OwnerKnowsLink'
  BY <1>1, <1>2 DEF ClosingInv, OwnerKnowsLink, At
<1> QED
  BY <1>3, <1>4, <1>5 DEF ClosingInv

\* The watch is closed last, by the one task that has the link.
LEMMA SignalClosing ==
  ASSUME LinkInv, ClosingInv, NEW x \in Actor, SignalClosed(x)
  PROVE  ClosingInv'
<1> USE NoneAssumption
<1> DEFINE id == loc[x].clr.id
<1>0. /\ pc \in [Actor -> Pc] /\ loc \in [Actor -> Local] /\ nextId \in Nat /\ closed \subseteq Nat
      /\ loc[x].clr \in Link
  BY DEF LinkInv, TypeOK, LocalsSet, SignalClosed, At
<1>1. id \in Nat /\ loc[x].clr # NoLink
  BY <1>0 DEF Link, NoLink
<1>2. /\ links' = links /\ nextId' = nextId /\ temps' = temps /\ reported' = reported
      /\ cbLink' = cbLink /\ closed' = closed \cup {id}
  BY DEF SignalClosed, history
<1>3. /\ loc'[x].clr = NoLink /\ pc'[x] \notin {"callback", "signal"}
      /\ \A y \in Actor \ {x} : pc'[y] = pc[y] /\ loc'[y] = loc[y]
  BY <1>0 DEF SignalClosed, AfterClear, AfterDisconnect, Goto, SetLocal, Local
<1>4. ClearedOnce'
  <2>1. \A y \in Actor \ {x} : loc[y].clr.id \notin closed \cup {id}
    BY <1>1 DEF ClosingInv, ClearedOnce
  <2>2. loc'[x].clr.id = None /\ None \notin closed \cup {id}
    BY <1>0, <1>1, <1>3, NoLinkId
  <2>3. \A y, z \in Actor \ {x} : loc[y].clr # NoLink /\ loc[y].clr.id = loc[z].clr.id => y = z
    BY DEF ClosingInv, ClearedOnce
  <2>4. \A y \in Actor : loc[y].clr # NoLink => loc[y].clr.id # None
    BY ClearedIds DEF LinkInv
  <2> QED
    BY <1>2, <1>3, <2>1, <2>2, <2>3, <2>4 DEF ClearedOnce
<1>5. ClosedIsGone'
  <2>1. id < nextId /\ \A a \in Addr : links[a].id # id
    BY <1>1 DEF LinkInv, IdsAreUnique
  <2>2. id \in reported \cup temps
    BY DEF ClosingInv, SignalIsLast, SignalClosed
  <2> QED
    BY <1>2, <2>1, <2>2 DEF ClosingInv, ClosedIsGone
<1>6. SignalIsLast'
  BY <1>2, <1>3 DEF ClosingInv, SignalIsLast, At, NoLink
<1>7. OwnerKnowsLink'
  BY <1>2, <1>3 DEF ClosingInv, OwnerKnowsLink, At
<1> QED
  BY <1>4, <1>5, <1>6, <1>7 DEF ClosingInv

\* Every step keeps what is said of the end of a link.
LEMMA ClosingInvStep == LinkInv /\ CallbackInv /\ ClosingInv /\ [Next]_vars => ClosingInv'
<1> SUFFICES ASSUME LinkInv, CallbackInv, ClosingInv, [Next]_vars PROVE ClosingInv'
  OBVIOUS
<1>1. TypeOK
  BY DEF LinkInv
<1>2. CASE ClosingKept
  BY <1>1, <1>2, KeptClosing
<1>3. CASE ClosingMoves
  BY <1>3, OpenClosing, InstallClosing, RemoveClosing, RunClosing, ReportClosing, SignalClosing
  DEF ClosingMoves
<1> QED
  BY <1>1, <1>2, <1>3, ClosingStep

-----------------------------------------------------------------------------
(* Which link a disconnect removes.                                        *)

\* What happens to the table in any step: a link that enters it is new, and one
\* that is not up any more is closed.
TableGrows ==
  /\ nextId <= nextId' /\ closed \subseteq closed' /\ up \subseteq up' \cup closed'
  /\ \A a \in Addr : links'[a].id \in {links[a].id, None, nextId}

\* No step takes back a number, a closed watch or a report.
LEMMA TableStep == TypeOK /\ [Next]_vars => TableGrows
<1> SUFFICES ASSUME TypeOK, [Next]_vars PROVE TableGrows
  OBVIOUS
<1> USE DEF table, history
<1>0. nextId \in Nat /\ links \in [Addr -> Link \cup {NoLink}]
  BY DEF TypeOK
<1>1. ASSUME PowerOff PROVE TableGrows
  BY <1>0, <1>1 DEF PowerOff, BackendOnly, TableGrows
<1>2. ASSUME NEW a \in Addr, Establish(a) PROVE TableGrows
  BY <1>0, <1>2 DEF Establish, BackendOnly, TableGrows
<1>3. ASSUME NEW a \in Addr, FailConnect(a) PROVE TableGrows
  BY <1>0, <1>3 DEF FailConnect, BackendOnly, TableGrows
<1>4. ASSUME NEW a \in Addr, DropLink(a) PROVE TableGrows
  BY <1>0, <1>4 DEF DropLink, BackendOnly, TableGrows
<1>5. ASSUME NEW p \in Caller, NEW a \in Addr, CallConnect(p, a) PROVE TableGrows
  BY <1>0, <1>5 DEF CallConnect, Call, TableGrows
<1>6. ASSUME NEW p \in Caller, NEW a \in Addr, CallDiscover(p, a) PROVE TableGrows
  BY <1>0, <1>6 DEF CallDiscover, Call, TableGrows
<1>7. ASSUME NEW p \in Caller, NEW S \in SUBSET Addr, CallDisconnect(p, S) PROVE TableGrows
  BY <1>0, <1>7 DEF CallDisconnect, Call, TableGrows
<1>8. ASSUME NEW p \in Caller, Return(p) PROVE TableGrows
  BY <1>0, <1>8 DEF Return, TableGrows
<1>9. ASSUME NEW p \in Caller, AcquireConnectLock(p) PROVE TableGrows
  BY <1>0, <1>9 DEF AcquireConnectLock, TableGrows
<1>10. ASSUME NEW p \in Caller, ProbeDevice(p) PROVE TableGrows
  BY <1>0, <1>10 DEF ProbeDevice, TableGrows
<1>11. ASSUME NEW p \in Caller, ReadServices(p) PROVE TableGrows
  BY <1>0, <1>11 DEF ReadServices, TableGrows
<1>12. ASSUME NEW p \in Caller, OpenLink(p) PROVE TableGrows
  BY <1>0, <1>12 DEF OpenLink, TableGrows
<1>13. ASSUME NEW p \in Caller, CheckConnected(p) PROVE TableGrows
  BY <1>0, <1>13 DEF CheckConnected, TableGrows
<1>14. ASSUME NEW p \in Caller, ConnectReturns(p) PROVE TableGrows
  BY <1>0, <1>14 DEF ConnectReturns, TableGrows
<1>15. ASSUME NEW p \in Caller, AwaitConnected(p) PROVE TableGrows
  BY <1>0, <1>15 DEF AwaitConnected, TableGrows
<1>16. ASSUME NEW p \in Caller, CancelAttempt(p) PROVE TableGrows
  BY <1>0, <1>16 DEF CancelAttempt, TableGrows
<1>17. ASSUME NEW p \in Caller, AttemptFailed(p) PROVE TableGrows
  BY <1>0, <1>17 DEF AttemptFailed, TableGrows
<1>18. ASSUME NEW p \in Caller, GiveUp(p) PROVE TableGrows
  BY <1>0, <1>18 DEF GiveUp, TableGrows
<1>19. ASSUME NEW p \in Caller, FindServices(p) PROVE TableGrows
  BY <1>0, <1>19 DEF FindServices, TableGrows
<1>20. ASSUME NEW p \in Caller, DiscoverServices(p) PROVE TableGrows
  BY <1>0, <1>20 DEF DiscoverServices, TableGrows
<1>21. ASSUME NEW p \in Caller, InstallCallback(p) PROVE TableGrows
  <2>1. nextId' = nextId /\ closed' = closed /\ up' = up
    BY <1>21 DEF InstallCallback
  <2>2. CASE links' = links
    BY <1>0, <2>1, <2>2 DEF TableGrows
  <2>3. CASE links' = [links EXCEPT ![loc[p].addr].owner = loc[p].call] /\ Present(loc[p].addr)
    <3>1. \A a \in Addr : Present(a) => links[a] \in Link
      BY LinkIds
    <3>2. \A a \in Addr : links'[a].id = links[a].id
      BY <1>0, <2>3, <3>1 DEF Link
    <3> QED
      BY <1>0, <2>1, <3>2 DEF TableGrows
  <2> QED
    BY <1>21, <2>2, <2>3 DEF InstallCallback
<1>22. ASSUME NEW p \in Caller, ReportConnected(p) PROVE TableGrows
  BY <1>0, <1>22 DEF ReportConnected, TableGrows
<1>23. ASSUME NEW p \in Caller, OpenedForDiscovery(p) PROVE TableGrows
  BY <1>0, <1>23 DEF OpenedForDiscovery, TableGrows
<1>24. ASSUME NEW p \in Caller, ReadAndRelease(p) PROVE TableGrows
  BY <1>0, <1>24 DEF ReadAndRelease, TableGrows
<1>25. ASSUME NEW p \in Caller, ReleaseDevice(p) PROVE TableGrows
  BY <1>0, <1>25 DEF ReleaseDevice, TableGrows
<1>26. ASSUME NEW p \in Caller, WaitReleased(p) PROVE TableGrows
  BY <1>0, <1>26 DEF WaitReleased, TableGrows
<1>27. ASSUME NEW p \in Caller, LookupLink(p) PROVE TableGrows
  BY <1>0, <1>27 DEF LookupLink, TableGrows
<1>28. ASSUME NEW p \in Caller, QueryConnected(p) PROVE TableGrows
  BY <1>0, <1>28 DEF QueryConnected, TableGrows
<1>29. ASSUME NEW p \in Caller, DropDevice(p) PROVE TableGrows
  BY <1>0, <1>29 DEF DropDevice, TableGrows
<1>30. ASSUME NEW p \in Caller, WaitDisconnected(p) PROVE TableGrows
  BY <1>0, <1>30 DEF WaitDisconnected, TableGrows
<1>31. ASSUME NEW x \in Actor, NextAddress(x) PROVE TableGrows
  <2>1. nextId' = nextId /\ closed' = closed /\ up' = up /\ links' = links
    BY <1>31 DEF NextAddress
  <2> QED
    BY <1>0, <2>1 DEF TableGrows
<1>32. ASSUME NEW x \in Actor, RemoveLink(x) PROVE TableGrows
  <2>1. NoLink.id = None
    BY DEF NoLink
  <2> QED
    BY <1>0, <1>32, <2>1 DEF RemoveLink, TableGrows
<1>33. ASSUME NEW x \in Actor, RunCallback(x) PROVE TableGrows
  BY <1>0, <1>33 DEF RunCallback, TableGrows
<1>34. ASSUME NEW x \in Actor, ComputeUpdate(x) PROVE TableGrows
  BY <1>0, <1>34 DEF ComputeUpdate, TableGrows
<1>35. ASSUME NEW x \in Actor, ReportDisconnected(x) PROVE TableGrows
  BY <1>0, <1>35 DEF ReportDisconnected, TableGrows
<1>36. ASSUME NEW x \in Actor, SignalClosed(x) PROVE TableGrows
  BY <1>0, <1>36 DEF SignalClosed, TableGrows
<1>37. ASSUME HandleConnect PROVE TableGrows
  BY <1>0, <1>37 DEF HandleConnect, Take, TableGrows
<1>38. ASSUME HandleDisconnect PROVE TableGrows
  BY <1>0, <1>38 DEF HandleDisconnect, Take, TableGrows
<1>39. ASSUME HandlePoweredOff PROVE TableGrows
  BY <1>0, <1>39 DEF HandlePoweredOff, Take, TableGrows
<1>40. ASSUME RejectDevice PROVE TableGrows
  BY <1>0, <1>40 DEF RejectDevice, TableGrows
<1>41. ASSUME UNCHANGED vars PROVE TableGrows
  BY <1>0, <1>41 DEF vars, TableGrows
<1> QED
  BY <1>1, <1>2, <1>3, <1>4, <1>5, <1>6, <1>7, <1>8, <1>9, <1>10,
     <1>11, <1>12, <1>13, <1>14, <1>15, <1>16, <1>17, <1>18, <1>19,
     <1>20, <1>21, <1>22, <1>23, <1>24, <1>25, <1>26, <1>27, <1>28,
     <1>29, <1>30, <1>31, <1>32, <1>33, <1>34, <1>35, <1>36, <1>37,
     <1>38, <1>39, <1>40, <1>41
  DEF Next, Backend, PumpStep, StartCall, CallerStep, ConnectStep, DisconnectStep, ClearLink, Actor

\* What a step is for a caller: another's, a connect's or discovery's, or one
\* that a disconnect can make.
Stays(d) == loc'[d] = loc[d] /\ pc'[d] = pc[d]
Connects(d) == loc[d].op # "disconnect" /\ loc'[d].op # "disconnect" /\ pc'[d] # "idle"
Disconnects(d) ==
  \/ \E a \in Addr : CallConnect(d, a) \/ CallDiscover(d, a)
  \/ \E S \in SUBSET Addr : CallDisconnect(d, S)
  \/ DisconnectStep(d) \/ ClearLink(d) \/ Return(d)

\* A step leaves a call where it is, or is one of those of its connect or disconnect.
LEMMA CallerSteps ==
  ASSUME TypeOK, LockDiscipline, [Next]_vars, NEW d \in Caller
  PROVE  Stays(d) \/ Connects(d) \/ Disconnects(d)
<1> USE ActorAssumption DEF At, Goto, history
<1>0. /\ pc \in [Actor -> Pc] /\ loc \in [Actor -> Local] /\ Caller \subseteq Actor
      /\ Pump \in Actor /\ Pump # d
      /\ \A q \in Caller : pc[q] \in ConnectPc \cup DiscoverPc => loc[q].op # "disconnect"
  BY DEF TypeOK, Actor, LockDiscipline
<1>1. ASSUME PowerOff PROVE Stays(d) \/ Connects(d) \/ Disconnects(d)
  BY <1>0, <1>1 DEF PowerOff, BackendOnly, Stays, Stays
<1>2. ASSUME NEW a \in Addr, Establish(a) PROVE Stays(d) \/ Connects(d) \/ Disconnects(d)
  BY <1>0, <1>2 DEF Establish, BackendOnly, Stays, Stays
<1>3. ASSUME NEW a \in Addr, FailConnect(a) PROVE Stays(d) \/ Connects(d) \/ Disconnects(d)
  BY <1>0, <1>3 DEF FailConnect, BackendOnly, Stays, Stays
<1>4. ASSUME NEW a \in Addr, DropLink(a) PROVE Stays(d) \/ Connects(d) \/ Disconnects(d)
  BY <1>0, <1>4 DEF DropLink, BackendOnly, Stays, Stays
<1>5. ASSUME NEW p \in Caller, NEW a \in Addr, CallConnect(p, a) PROVE Stays(d) \/ Connects(d) \/ Disconnects(d)
  <2>1. CASE p = d
    BY <1>5, <2>1 DEF Disconnects
  <2>2. CASE p # d
    BY <1>0, <1>5, <2>2 DEF CallConnect, Call, SetLocal, Stays
  <2> QED
    BY <2>1, <2>2
<1>6. ASSUME NEW p \in Caller, NEW a \in Addr, CallDiscover(p, a) PROVE Stays(d) \/ Connects(d) \/ Disconnects(d)
  <2>1. CASE p = d
    BY <1>6, <2>1 DEF Disconnects
  <2>2. CASE p # d
    BY <1>0, <1>6, <2>2 DEF CallDiscover, Call, SetLocal, Stays
  <2> QED
    BY <2>1, <2>2
<1>7. ASSUME NEW p \in Caller, NEW S \in SUBSET Addr, CallDisconnect(p, S) PROVE Stays(d) \/ Connects(d) \/ Disconnects(d)
  <2>1. CASE p = d
    BY <1>7, <2>1 DEF Disconnects
  <2>2. CASE p # d
    BY <1>0, <1>7, <2>2 DEF CallDisconnect, Call, SetLocal, Stays
  <2> QED
    BY <2>1, <2>2
<1>8. ASSUME NEW p \in Caller, Return(p) PROVE Stays(d) \/ Connects(d) \/ Disconnects(d)
  <2>1. CASE p = d
    BY <1>8, <2>1 DEF Disconnects
  <2>2. CASE p # d
    BY <1>0, <1>8, <2>2 DEF Return, SetLocal, Stays
  <2> QED
    BY <2>1, <2>2
<1>9. ASSUME NEW p \in Caller, AcquireConnectLock(p) PROVE Stays(d) \/ Connects(d) \/ Disconnects(d)
  BY <1>0, <1>9 DEF AcquireConnectLock, Stays, Connects, ConnectPc, DiscoverPc, Stays
<1>10. ASSUME NEW p \in Caller, ProbeDevice(p) PROVE Stays(d) \/ Connects(d) \/ Disconnects(d)
  BY <1>0, <1>10 DEF ProbeDevice, Stays, Connects, ConnectPc, DiscoverPc, Stays
<1>11. ASSUME NEW p \in Caller, ReadServices(p) PROVE Stays(d) \/ Connects(d) \/ Disconnects(d)
  BY <1>0, <1>11 DEF ReadServices, Stays, Connects, ConnectPc, DiscoverPc, Stays
<1>12. ASSUME NEW p \in Caller, OpenLink(p) PROVE Stays(d) \/ Connects(d) \/ Disconnects(d)
  BY <1>0, <1>12 DEF OpenLink, SetLocal, Local, Stays, Connects, ConnectPc, DiscoverPc, Stays
<1>13. ASSUME NEW p \in Caller, CheckConnected(p) PROVE Stays(d) \/ Connects(d) \/ Disconnects(d)
  BY <1>0, <1>13 DEF CheckConnected, Opened, Stays, Connects, ConnectPc, DiscoverPc, Stays
<1>14. ASSUME NEW p \in Caller, ConnectReturns(p) PROVE Stays(d) \/ Connects(d) \/ Disconnects(d)
  BY <1>0, <1>14 DEF ConnectReturns, Opened, Stays, Connects, ConnectPc, DiscoverPc, Stays
<1>15. ASSUME NEW p \in Caller, AwaitConnected(p) PROVE Stays(d) \/ Connects(d) \/ Disconnects(d)
  BY <1>0, <1>15 DEF AwaitConnected, Opened, Stays, Connects, ConnectPc, DiscoverPc, Stays
<1>16. ASSUME NEW p \in Caller, CancelAttempt(p) PROVE Stays(d) \/ Connects(d) \/ Disconnects(d)
  BY <1>0, <1>16 DEF CancelAttempt, Stays, Connects, ConnectPc, DiscoverPc, Stays
<1>17. ASSUME NEW p \in Caller, AttemptFailed(p) PROVE Stays(d) \/ Connects(d) \/ Disconnects(d)
  BY <1>0, <1>17 DEF AttemptFailed, SetLocal, Local, Stays, Connects, ConnectPc, DiscoverPc, Stays
<1>18. ASSUME NEW p \in Caller, GiveUp(p) PROVE Stays(d) \/ Connects(d) \/ Disconnects(d)
  BY <1>0, <1>18 DEF GiveUp, SetLocal, Local, Stays, Connects, ConnectPc, DiscoverPc, Stays
<1>19. ASSUME NEW p \in Caller, FindServices(p) PROVE Stays(d) \/ Connects(d) \/ Disconnects(d)
  BY <1>0, <1>19 DEF FindServices, Stays, Connects, ConnectPc, DiscoverPc, Stays
<1>20. ASSUME NEW p \in Caller, DiscoverServices(p) PROVE Stays(d) \/ Connects(d) \/ Disconnects(d)
  BY <1>0, <1>20 DEF DiscoverServices, Stays, Connects, ConnectPc, DiscoverPc, Stays
<1>21. ASSUME NEW p \in Caller, InstallCallback(p) PROVE Stays(d) \/ Connects(d) \/ Disconnects(d)
  BY <1>0, <1>21 DEF InstallCallback, Stays, Connects, ConnectPc, DiscoverPc, Stays
<1>22. ASSUME NEW p \in Caller, ReportConnected(p) PROVE Stays(d) \/ Connects(d) \/ Disconnects(d)
  BY <1>0, <1>22 DEF ReportConnected, Stays, Connects, ConnectPc, DiscoverPc, Stays
<1>23. ASSUME NEW p \in Caller, OpenedForDiscovery(p) PROVE Stays(d) \/ Connects(d) \/ Disconnects(d)
  BY <1>0, <1>23 DEF OpenedForDiscovery, SetLocal, Local, Stays, Connects, ConnectPc, DiscoverPc, Stays
<1>24. ASSUME NEW p \in Caller, ReadAndRelease(p) PROVE Stays(d) \/ Connects(d) \/ Disconnects(d)
  BY <1>0, <1>24 DEF ReadAndRelease, SetLocal, Local, Stays, Connects, ConnectPc, DiscoverPc, Stays
<1>25. ASSUME NEW p \in Caller, ReleaseDevice(p) PROVE Stays(d) \/ Connects(d) \/ Disconnects(d)
  BY <1>0, <1>25 DEF ReleaseDevice, Stays, Connects, ConnectPc, DiscoverPc, Stays
<1>26. ASSUME NEW p \in Caller, WaitReleased(p) PROVE Stays(d) \/ Connects(d) \/ Disconnects(d)
  BY <1>0, <1>26 DEF WaitReleased, Stays, Connects, ConnectPc, DiscoverPc, Stays
<1>27. ASSUME NEW p \in Caller, LookupLink(p) PROVE Stays(d) \/ Connects(d) \/ Disconnects(d)
  <2>1. CASE p = d
    BY <1>27, <2>1 DEF Disconnects, DisconnectStep
  <2>2. CASE p # d
    BY <1>0, <1>27, <2>2 DEF LookupLink, SetLocal, Stays
  <2> QED
    BY <2>1, <2>2
<1>28. ASSUME NEW p \in Caller, QueryConnected(p) PROVE Stays(d) \/ Connects(d) \/ Disconnects(d)
  <2>1. CASE p = d
    BY <1>28, <2>1 DEF Disconnects, DisconnectStep
  <2>2. CASE p # d
    BY <1>0, <1>28, <2>2 DEF QueryConnected, SetLocal, Stays
  <2> QED
    BY <2>1, <2>2
<1>29. ASSUME NEW p \in Caller, DropDevice(p) PROVE Stays(d) \/ Connects(d) \/ Disconnects(d)
  <2>1. CASE p = d
    BY <1>29, <2>1 DEF Disconnects, DisconnectStep
  <2>2. CASE p # d
    BY <1>0, <1>29, <2>2 DEF DropDevice, Stays
  <2> QED
    BY <2>1, <2>2
<1>30. ASSUME NEW p \in Caller, WaitDisconnected(p) PROVE Stays(d) \/ Connects(d) \/ Disconnects(d)
  <2>1. CASE p = d
    BY <1>30, <2>1 DEF Disconnects, DisconnectStep
  <2>2. CASE p # d
    BY <1>0, <1>30, <2>2 DEF WaitDisconnected, Stays
  <2> QED
    BY <2>1, <2>2
<1>31. ASSUME NEW x \in Actor, NextAddress(x) PROVE Stays(d) \/ Connects(d) \/ Disconnects(d)
  <2>1. CASE x = d
    BY <1>31, <2>1 DEF Disconnects, DisconnectStep
  <2>2. CASE x # d
    BY <1>0, <1>31, <2>2 DEF NextAddress, SetLocal, Stays
  <2> QED
    BY <2>1, <2>2
<1>32. ASSUME NEW x \in Actor, RemoveLink(x) PROVE Stays(d) \/ Connects(d) \/ Disconnects(d)
  <2>1. CASE x = d
    BY <1>32, <2>1 DEF Disconnects, ClearLink
  <2>2. CASE x # d
    BY <1>0, <1>32, <2>2 DEF RemoveLink, SetLocal, Stays
  <2> QED
    BY <2>1, <2>2
<1>33. ASSUME NEW x \in Actor, RunCallback(x) PROVE Stays(d) \/ Connects(d) \/ Disconnects(d)
  <2>1. CASE x = d
    BY <1>33, <2>1 DEF Disconnects, ClearLink
  <2>2. CASE x # d
    BY <1>0, <1>33, <2>2 DEF RunCallback, Stays
  <2> QED
    BY <2>1, <2>2
<1>34. ASSUME NEW x \in Actor, ComputeUpdate(x) PROVE Stays(d) \/ Connects(d) \/ Disconnects(d)
  <2>1. CASE x = d
    BY <1>34, <2>1 DEF Disconnects, ClearLink
  <2>2. CASE x # d
    BY <1>0, <1>34, <2>2 DEF ComputeUpdate, SetLocal, Stays
  <2> QED
    BY <2>1, <2>2
<1>35. ASSUME NEW x \in Actor, ReportDisconnected(x) PROVE Stays(d) \/ Connects(d) \/ Disconnects(d)
  <2>1. CASE x = d
    BY <1>35, <2>1 DEF Disconnects, ClearLink
  <2>2. CASE x # d
    BY <1>0, <1>35, <2>2 DEF ReportDisconnected, Stays
  <2> QED
    BY <2>1, <2>2
<1>36. ASSUME NEW x \in Actor, SignalClosed(x) PROVE Stays(d) \/ Connects(d) \/ Disconnects(d)
  <2>1. CASE x = d
    BY <1>36, <2>1 DEF Disconnects, ClearLink
  <2>2. CASE x # d
    BY <1>0, <1>36, <2>2 DEF SignalClosed, SetLocal, Stays
  <2> QED
    BY <2>1, <2>2
<1>37. ASSUME HandleConnect PROVE Stays(d) \/ Connects(d) \/ Disconnects(d)
  BY <1>0, <1>37 DEF HandleConnect, Take, SetLocal, Stays, Stays
<1>38. ASSUME HandleDisconnect PROVE Stays(d) \/ Connects(d) \/ Disconnects(d)
  BY <1>0, <1>38 DEF HandleDisconnect, Take, SetLocal, Stays, Stays
<1>39. ASSUME HandlePoweredOff PROVE Stays(d) \/ Connects(d) \/ Disconnects(d)
  BY <1>0, <1>39 DEF HandlePoweredOff, Take, SetLocal, Stays, Stays
<1>40. ASSUME RejectDevice PROVE Stays(d) \/ Connects(d) \/ Disconnects(d)
  BY <1>0, <1>40 DEF RejectDevice, SetLocal, Stays, Stays
<1>41. ASSUME UNCHANGED vars PROVE Stays(d) \/ Connects(d) \/ Disconnects(d)
  BY <1>41 DEF vars, Stays
<1> QED
  BY <1>1, <1>2, <1>3, <1>4, <1>5, <1>6, <1>7, <1>8, <1>9, <1>10,
     <1>11, <1>12, <1>13, <1>14, <1>15, <1>16, <1>17, <1>18, <1>19,
     <1>20, <1>21, <1>22, <1>23, <1>24, <1>25, <1>26, <1>27, <1>28,
     <1>29, <1>30, <1>31, <1>32, <1>33, <1>34, <1>35, <1>36, <1>37,
     <1>38, <1>39, <1>40, <1>41
  DEF Next, Backend, PumpStep, StartCall, CallerStep, ConnectStep, DisconnectStep, ClearLink, Actor

\* The link that was found stays the one that was found.
LEMMA FoundStays ==
  ASSUME TypeOK, TableGrows, TypeOK', NEW d \in Caller, FoundLinkIsOld(d),
         loc'[d].rx = loc[d].rx, loc'[d].only = loc[d].only, loc'[d].born = loc[d].born,
         loc'[d].addr = loc[d].addr
  PROVE  FoundLinkIsOld(d)'
<1> USE NoneAssumption
<1>1. d \in Actor /\ loc \in [Actor -> Local] /\ nextId \in Nat /\ nextId' \in Nat
  BY DEF TypeOK, Actor
<1>2. loc[d].born \in Nat /\ loc[d].rx \in Nat
  BY <1>1 DEF Local, FoundLinkIsOld
<1>3. \A a \in Addr : links'[a].id = loc[d].rx => links[a].id = loc[d].rx
  BY <1>1, <1>2 DEF TableGrows, FoundLinkIsOld
<1> QED
  BY <1>1, <1>2, <1>3 DEF TableGrows, FoundLinkIsOld

\* Nothing another task does takes from a disconnect what it knows.
LEMMA StaysKnowing ==
  ASSUME TypeOK, TypeOK', TableGrows, NEW d \in Caller, KnowsLink(d), Stays(d)
  PROVE  KnowsLink(d)'
<1>1. pc[d] \in {"query", "drop", "waitdown", "clear"} /\ loc[d].op = "disconnect"
        => FoundLinkIsOld(d)'
  BY FoundStays DEF KnowsLink, Stays
<1>2. loc[d].rx \in up \cup closed => loc[d].rx \in up' \cup closed'
  BY DEF TableGrows
<1> QED
  BY <1>1, <1>2 DEF KnowsLink, Stays, At

\* A disconnect keeps what it knows until it has used it.
LEMMA DisconnectsKnowing ==
  ASSUME LinkInv, TypeOK', TableGrows, NEW d \in Caller, KnowsLink(d), Disconnects(d)
  PROVE  KnowsLink(d)'
<1> USE ActorAssumption, NoneAssumption
<1> DEFINE Found == FoundLinkIsOld(d)
<1>0. /\ TypeOK /\ pc \in [Actor -> Pc] /\ loc \in [Actor -> Local] /\ d \in Actor /\ d # Pump
      /\ nextId \in Nat /\ nextId' \in Nat
  BY DEF LinkInv, TypeOK, Actor
<1>1. ASSUME NEW a \in Addr, CallConnect(d, a) \/ CallDiscover(d, a) PROVE KnowsLink(d)'
  <2>1. loc'[d].op \in {"connect", "discover"} /\ pc'[d] # "idle"
    BY <1>0, <1>1 DEF CallConnect, CallDiscover, SetLocal, Goto, IdleLocal
  <2> QED
    BY <2>1 DEF KnowsLink, At
<1>2. ASSUME NEW S \in SUBSET Addr, CallDisconnect(d, S) PROVE KnowsLink(d)'
  <2>1. pc'[d] = "next"
    BY <1>0, <1>2 DEF CallDisconnect, Goto
  <2> QED
    BY <2>1 DEF KnowsLink, At
<1>3. CASE Return(d)
  <2>1. loc'[d].op = "none"
    BY <1>0, <1>3 DEF Return, SetLocal, IdleLocal
  <2> QED
    BY <2>1 DEF KnowsLink
<1>4. CASE NextAddress(d)
  <2>1. pc'[d] = "done" \/ (pc'[d] = "lookup" /\ loc'[d].rx = None)
    <3>1. CASE Goto(d, "done")
      BY <1>0, <3>1 DEF Goto
    <3>2. CASE \E a : /\ SetLocal(d, [loc[d] EXCEPT !.todo = loc[d].todo \ {a}, !.addr = a,
                                                   !.only = None, !.rx = None])
                      /\ Goto(d, "lookup")
      BY <1>0, <3>2 DEF Goto, SetLocal, Local
    <3> QED
      BY <1>0, <1>4, <3>1, <3>2 DEF NextAddress
  <2> QED
    BY <2>1 DEF KnowsLink, At
<1>5. CASE LookupLink(d)
  <2>1. CASE Goto(d, AfterDisconnect(d))
    BY <1>0, <2>1 DEF Goto, AfterDisconnect, KnowsLink, At
  <2>2. CASE ~Goto(d, AfterDisconnect(d))
    <3> DEFINE a == loc[d].addr
    <3>1. a \in Addr
      BY <1>5 DEF LinkInv, LocalsSet, LookupLink, At, Actor
    <3>2. Visible(a) /\ links[a].id \in Nat
      BY <1>0, <1>5, <2>2, <3>1, LinkIds DEF LookupLink, Visible
    <3>3. (links[a].id \in up) \in BOOLEAN
      OBVIOUS
    <3>4. PICK b \in BOOLEAN :
            /\ b <=> links[a].id \in up
            /\ loc' = [loc EXCEPT ![d] = [loc[d] EXCEPT !.rx = links[a].id, !.only = links[a].id,
                                                        !.was = b, !.born = nextId]]
      BY <1>5, <3>2, <3>3 DEF LookupLink, SetLocal
    <3>5. /\ loc'[d].rx = links[a].id /\ loc'[d].only = links[a].id /\ loc'[d].born = nextId
          /\ loc'[d].was = b /\ loc'[d].addr = a
      BY <1>0, <3>4 DEF Local
    <3>6. pc'[d] = "query" /\ links' = links /\ nextId' = nextId /\ up' = up
      BY <1>0, <1>5, <3>2 DEF LookupLink, Goto, table
    <3>7. links[a].id < nextId /\ \A c \in Addr : links[c].id = links[a].id => c = a
      BY <3>1, <3>2 DEF LinkInv, IdsAreUnique, Visible, Present
    <3>8. FoundLinkIsOld(d)'
      BY <1>0, <3>2, <3>5, <3>6, <3>7 DEF FoundLinkIsOld
    <3> QED
      BY <3>4, <3>5, <3>6, <3>8 DEF KnowsLink, At
  <2> QED
    BY <2>1, <2>2
<1>6. CASE QueryConnected(d)
  <2>1. PICK b \in BOOLEAN : (b => loc[d].was) /\ SetLocal(d, [loc[d] EXCEPT !.was = b])
    <3>1. loc[d].was \in BOOLEAN /\ (dev[loc[d].addr] = "up") \in BOOLEAN
      BY <1>0 DEF Local
    <3> QED
      BY <1>6, <3>1 DEF QueryConnected
  <2>2. /\ loc'[d].rx = loc[d].rx /\ loc'[d].only = loc[d].only /\ loc'[d].born = loc[d].born
        /\ loc'[d].addr = loc[d].addr /\ loc'[d].op = loc[d].op /\ loc'[d].was = b
    BY <1>0, <2>1 DEF SetLocal, Local
  <2>3. pc[d] = "query" /\ pc'[d] = "drop" /\ up' = up /\ closed' = closed
    BY <1>0, <1>6 DEF QueryConnected, Goto, At, table
  <2>4. loc[d].op = "disconnect" => FoundLinkIsOld(d)'
    BY <1>0, <2>2, <2>3, FoundStays DEF KnowsLink
  <2> QED
    BY <2>1, <2>2, <2>3, <2>4 DEF KnowsLink, At
<1>7. CASE DropDevice(d)
  <2>1. /\ loc' = loc /\ up' = up /\ closed' = closed /\ pc[d] = "drop"
        /\ pc'[d] = IF loc[d].was THEN "waitdown" ELSE "clear"
    BY <1>0, <1>7 DEF DropDevice, Goto, At, table
  <2>2. loc[d].op = "disconnect" => FoundLinkIsOld(d)'
    BY <1>0, <2>1, FoundStays DEF KnowsLink
  <2> QED
    BY <2>1, <2>2 DEF KnowsLink, At
<1>8. CASE WaitDisconnected(d)
  <2>1. loc' = loc /\ pc[d] = "waitdown" /\ pc'[d] \in {"clear", "next", "done"}
    BY <1>0, <1>8 DEF WaitDisconnected, AfterDisconnect, Goto, At
  <2>2. loc[d].op = "disconnect" => FoundLinkIsOld(d)'
    BY <1>0, <2>1, FoundStays DEF KnowsLink
  <2> QED
    BY <2>1, <2>2 DEF KnowsLink, At
<1>9. CASE RemoveLink(d)
  <2> DEFINE a == loc[d].addr
  <2>1. CASE Goto(d, AfterClear(d))
    BY <1>0, <2>1 DEF AfterClear, AfterDisconnect, Goto, KnowsLink, At
  <2>2. CASE /\ Goto(d, "callback") /\ SetLocal(d, [loc[d] EXCEPT !.clr = links[a]])
             /\ ~(loc[d].only # None /\ links[a].id # loc[d].only)
    <3>1. /\ pc'[d] = "callback" /\ loc'[d].clr = links[a] /\ loc'[d].op = loc[d].op
          /\ loc'[d].rx = loc[d].rx
      BY <1>0, <2>2 DEF Goto, SetLocal, Local
    <3>2. loc[d].op = "disconnect" => links[a].id = loc[d].rx
      BY <1>9, <2>2 DEF RemoveLink, KnowsLink, FoundLinkIsOld, At
    <3> QED
      BY <3>1, <3>2 DEF KnowsLink, At
  <2> QED
    BY <1>9, <2>1, <2>2 DEF RemoveLink
<1>10. CASE RunCallback(d) \/ ReportDisconnected(d)
  <2>1. loc' = loc /\ pc[d] \in {"callback", "send"} /\ pc'[d] \in {"compute", "signal"}
    BY <1>0, <1>10 DEF RunCallback, ReportDisconnected, Goto, At
  <2> QED
    BY <2>1 DEF KnowsLink, At
<1>11. CASE ComputeUpdate(d)
  <2>1. /\ loc'[d].clr = loc[d].clr /\ loc'[d].rx = loc[d].rx /\ loc'[d].op = loc[d].op
        /\ pc[d] = "compute" /\ pc'[d] = "send"
    BY <1>0, <1>11 DEF ComputeUpdate, SetLocal, Local, Goto, At
  <2> QED
    BY <2>1 DEF KnowsLink, At
<1>12. CASE SignalClosed(d)
  <2>1. pc'[d] \in {"next", "done"}
    BY <1>0, <1>12 DEF SignalClosed, AfterClear, AfterDisconnect, Goto
  <2> QED
    BY <2>1 DEF KnowsLink, At
<1> QED
  BY <1>1, <1>2, <1>3, <1>4, <1>5, <1>6, <1>7, <1>8, <1>9, <1>10, <1>11, <1>12
  DEF Disconnects, DisconnectStep, ClearLink

\* Every step keeps what a disconnect knows of the link it found.
LEMMA DisconnectInvStep ==
  LinkInv /\ LinkInv' /\ DisconnectKnowsLink /\ [Next]_vars => DisconnectKnowsLink'
<1> SUFFICES ASSUME LinkInv, LinkInv', DisconnectKnowsLink, [Next]_vars, NEW d \in Caller
             PROVE  KnowsLink(d)'
  BY DEF DisconnectKnowsLink
<1>1. TypeOK /\ TypeOK' /\ LockDiscipline /\ KnowsLink(d)
  BY DEF LinkInv, DisconnectKnowsLink
<1>2. TableGrows
  BY <1>1, TableStep
<1>3. CASE Connects(d)
  BY <1>3 DEF Connects, KnowsLink, At
<1> QED
  BY <1>1, <1>2, <1>3, CallerSteps, StaysKnowing, DisconnectsKnowing

-----------------------------------------------------------------------------
(* The theorems.                                                           *)

Ending == LinkInv /\ CallbackInv /\ ClosingInv /\ DisconnectKnowsLink

\* At the start no link is closed and no call runs.
LEMMA InitEnding == Init => Ending
<1> SUFFICES ASSUME Init PROVE Ending
  OBVIOUS
<1>1. /\ \A a \in Addr : links[a] = NoLink
      /\ \A x \in Actor : pc[x] = "idle" /\ loc[x].op = "none" /\ loc[x].clr = NoLink
      /\ closed = {}
  BY DEF Init, IdleLocal
<1>2. ~NoLink.temporary /\ NoLink.owner = None
  BY DEF NoLink
<1>3. ClearedOnce /\ ClosedIsGone
  BY <1>1 DEF ClearedOnce, ClosedIsGone
<1>4. SignalIsLast /\ OwnerKnowsLink
  BY <1>1, <1>2 DEF SignalIsLast, OwnerKnowsLink, At
<1>5. DisconnectKnowsLink
  BY <1>1 DEF DisconnectKnowsLink, KnowsLink, At, Actor
<1> QED
  BY <1>3, <1>4, <1>5, InitInv, InitCallbackInv DEF Ending, ClosingInv

\* What is proved of each step holds always.
LEMMA EndingInvariance == Spec => []Ending
<1>1. Ending /\ [Next]_vars => Ending'
  <2> SUFFICES ASSUME Ending, [Next]_vars PROVE Ending'
    OBVIOUS
  <2>1. LinkInv' /\ CallbackInv'
    BY NextInv, CallbackStep DEF Ending
  <2>2. ClosingInv' /\ DisconnectKnowsLink'
    BY <2>1, ClosingInvStep, DisconnectInvStep DEF Ending
  <2> QED
    BY <2>1, <2>2 DEF Ending
<1> QED
  BY <1>1, InitEnding, PTL DEF Spec

\* Whoever sees the watch of a link closed finds everything done: the link is out
\* of the table, its callback does not wait any more, its loss is reported
\* (handler.rs, clear_link).
THEOREM ClosedCorrect == Spec => []ClosedLinkIsDone
<1>1. Ending => ClosedLinkIsDone
  <2> SUFFICES ASSUME Ending, NEW id \in closed
               PROVE  /\ \A a \in Addr : links[a].id # id
                      /\ \A c \in CallId : cbLink[c] = id => cb[c] # "armed"
                      /\ id \in reported \cup temps
    BY DEF ClosedLinkIsDone
  <2>1. (\A a \in Addr : links[a].id # id) /\ id \in reported \cup temps
    BY DEF Ending, ClosingInv, ClosedIsGone
  <2>2. ASSUME NEW c \in CallId, cbLink[c] = id, cb[c] = "armed" PROVE FALSE
    <3>1. c # None
      BY NoneAssumption DEF CallId
    <3>2. \/ \E a \in Addr : links[a].owner = c
          \/ \E x \in Actor : loc[x].clr.owner = c /\ At(x, "callback")
      BY <2>2 DEF Ending, CallbackInv, NoCallbackIsLost
    <3>3. ASSUME NEW a \in Addr, links[a].owner = c PROVE FALSE
      BY <2>1, <2>2, <3>1, <3>3 DEF Ending, ClosingInv, OwnerKnowsLink
    <3>4. ASSUME NEW x \in Actor, loc[x].clr.owner = c, At(x, "callback") PROVE FALSE
      BY <2>2, <3>1, <3>4 DEF Ending, ClosingInv, OwnerKnowsLink, ClearedOnce
    <3> QED
      BY <3>2, <3>3, <3>4
  <2> QED
    BY <2>1, <2>2
<1> QED
  BY <1>1, EndingInvariance, PTL

\* What a disconnect takes out of the table is the link it found.
LEMMA RemovalIsExact ==
  ASSUME Ending, NEW p \in Caller, Stays(p) \/ Connects(p) \/ Disconnects(p)
  PROVE  SlowDisconnectSparesNewLink(p)
<1> SUFFICES ASSUME loc[p].op = "disconnect", At(p, "clear"), pc'[p] = "callback"
             PROVE  links[loc[p].addr].id < loc[p].born
  BY DEF SlowDisconnectSparesNewLink
<1> USE ActorAssumption, NoneAssumption
<1>0. pc \in [Actor -> Pc] /\ p \in Actor /\ p # Pump
  BY DEF Ending, LinkInv, TypeOK, Actor
<1>1. Disconnects(p)
  BY DEF Stays, Connects, At
<1>2. RemoveLink(p)
  BY <1>0, <1>1 DEF Disconnects, DisconnectStep, ClearLink, At, CallConnect, CallDiscover,
     CallDisconnect, Call, Return, NextAddress, LookupLink, QueryConnected, DropDevice,
     WaitDisconnected, RunCallback, ComputeUpdate, ReportDisconnected, SignalClosed
<1>3. FoundLinkIsOld(p)
  BY DEF Ending, DisconnectKnowsLink, KnowsLink, At
<1>4. ~Goto(p, AfterClear(p))
  BY <1>0 DEF Goto, AfterClear, AfterDisconnect
<1> QED
  BY <1>2, <1>3, <1>4 DEF RemoveLink, FoundLinkIsOld

\* When a disconnect is through with a device, the link it found is not there.
LEMMA ReturnIsExact ==
  ASSUME Ending, NEW p \in Caller, Stays(p) \/ Connects(p) \/ Disconnects(p)
  PROVE  DisconnectedMeansGone(p)
<1> SUFFICES ASSUME loc[p].op = "disconnect", ~At(p, "next"), pc'[p] = "next", loc[p].rx # None,
                    NEW a \in Addr
             PROVE  links'[a].id # loc[p].rx
  BY DEF DisconnectedMeansGone
<1> USE ActorAssumption, NoneAssumption
<1>0. pc \in [Actor -> Pc] /\ p \in Actor /\ p # Pump
  BY DEF Ending, LinkInv, TypeOK, Actor
<1>1. Disconnects(p) /\ ~At(p, "idle")
  BY DEF Stays, Connects, At, Ending, DisconnectKnowsLink, KnowsLink
<1>2. WaitDisconnected(p) \/ RemoveLink(p) \/ SignalClosed(p)
  <2>1. ~LookupLink(p)
    BY DEF LookupLink, Ending, DisconnectKnowsLink, KnowsLink
  <2>2. ~NextAddress(p)
    BY DEF NextAddress
  <2>3. ~Return(p) /\ ~QueryConnected(p) /\ ~DropDevice(p)
    BY <1>0 DEF Return, QueryConnected, DropDevice, Goto
  <2>4. ~RunCallback(p) /\ ~ComputeUpdate(p) /\ ~ReportDisconnected(p)
    BY <1>0 DEF RunCallback, ComputeUpdate, ReportDisconnected, Goto
  <2> QED
    BY <1>1, <2>1, <2>2, <2>3, <2>4 DEF Disconnects, DisconnectStep, ClearLink,
       CallConnect, CallDiscover, CallDisconnect, Call
<1>3. CASE WaitDisconnected(p)
  <2>1. At(p, "waitdown") /\ links' = links /\ loc[p].rx \notin up
    BY <1>0, <1>3 DEF WaitDisconnected, Goto, table
  <2>2. loc[p].rx \in closed
    BY <2>1 DEF Ending, DisconnectKnowsLink, KnowsLink, At
  <2> QED
    BY <2>1, <2>2 DEF Ending, ClosingInv, ClosedIsGone
<1>4. CASE RemoveLink(p)
  <2>1. FoundLinkIsOld(p)
    BY <1>4 DEF RemoveLink, Ending, DisconnectKnowsLink, KnowsLink, At
  <2>2. links' = links /\ (Present(loc[p].addr) => links[loc[p].addr].id # loc[p].rx)
    BY <1>0, <1>4, <2>1 DEF RemoveLink, FoundLinkIsOld, Goto
  <2> QED
    BY <2>1, <2>2 DEF FoundLinkIsOld, Present
<1>5. CASE SignalClosed(p)
  <2>1. loc[p].clr.id = loc[p].rx /\ loc[p].clr # NoLink
    <3>1. loc[p].clr.id = loc[p].rx
      BY <1>5 DEF SignalClosed, Ending, DisconnectKnowsLink, KnowsLink, At
    <3> QED
      BY <3>1, NoLinkId
  <2>2. links' = links
    BY <1>5 DEF SignalClosed
  <2> QED
    BY <1>0, <2>1, <2>2 DEF Ending, LinkInv, IdsAreUnique
<1> QED
  BY <1>2, <1>3, <1>4, <1>5

\* A disconnect removes the link it found and no other, however long it waits,
\* and when it returns that link is gone, whoever removed it (handler.rs,
\* disconnect_device).
THEOREM DisconnectCorrect == Spec => DisconnectIsExact
<1>1. Ending /\ [Next]_vars
        => [\A p \in Caller : SlowDisconnectSparesNewLink(p) /\ DisconnectedMeansGone(p)]_vars
  <2> SUFFICES ASSUME Ending, [Next]_vars, NEW p \in Caller
               PROVE  SlowDisconnectSparesNewLink(p) /\ DisconnectedMeansGone(p)
    OBVIOUS
  <2>1. Stays(p) \/ Connects(p) \/ Disconnects(p)
    BY CallerSteps DEF Ending, LinkInv
  <2> QED
    BY <2>1, RemovalIsExact, ReturnIsExact
<1> QED
  BY <1>1, EndingInvariance, PTL DEF Spec, DisconnectIsExact

-----------------------------------------------------------------------------
(* What the adapter reports, and what the pump makes of it.                *)

\* The adapter may break links, retry, report twice and refuse, but no device goes
\* down without an event.
Reports == "silent" \notin Faults

\* A power-off is about every device.
About(e, a) == e.addr \in {a, None}

\* The pump has events about a device still to take; the last of them says what
\* the adapter says.
Untaken(a) == \E k \in DOMAIN queue : About(queue[k], a)
Told(a) ==
  \E k \in DOMAIN queue :
    /\ About(queue[k], a)
    /\ queue[k].kind = "connected" <=> dev[a] = "up"
    /\ \A m \in DOMAIN queue : m > k => ~About(queue[m], a)
EventsTell == \A a \in Addr : Untaken(a) => Told(a)

\* The pump is about to clear the link of a device, or to close its connection.
PumpClears(a) == (At(Pump, "clear") /\ loc[Pump].addr = a) \/ a \in loc[Pump].todo
PumpRejects(a) == At(Pump, "reject") /\ loc[Pump].addr = a

\* Whatever the callers do, a device that the table calls connected is up, or its
\* loss is an event that the pump has not taken, or the pump is about to clear its
\* link: is_connected is never wrong for longer than the pump is behind.
LossIsHandled == \A a \in Addr : Connected(a) /\ dev[a] # "up" => Untaken(a) \/ PumpClears(a)

\* A device that is up is in the table, unless the pump has not taken all that it
\* heard of it, or is about to close the connection.
Known(a) ==
  dev[a] = "up" => Untaken(a) \/ (Connected(a) /\ ~PumpClears(a)) \/ PumpRejects(a)

\* The pump clears whatever link there is, and has nothing to clear when it is idle.
PumpFits ==
  /\ loc[Pump].only = None
  /\ pc[Pump] \in {"idle", "reject"} => loc[Pump].todo = {}

\* A watch that says up is one of a link that was made.
UpIsOld == \A id \in up : id < nextId

\* The parts together.
LossInv == EventsTell /\ LossIsHandled /\ PumpFits /\ UpIsOld

\* What a step does that takes no event, leaves the adapter alone and changes
\* no connection.
TaskMoves(x) ==
  /\ dev' = dev /\ queue' = queue
  /\ \A id \in up' : id < nextId'
  /\ \A a \in Addr : Connected(a)' <=> Connected(a)
  /\ \A y \in Actor \ {x} : pc'[y] = pc[y] /\ loc'[y] = loc[y]
  /\ x = Pump => /\ \A a \in Addr : PumpClears(a)' <=> PumpClears(a)
                 /\ pc[Pump] # "reject" /\ pc'[Pump] # "reject"
                 /\ PumpFits'
                 /\ links' = links

\* What a step does of which the adapter tells all that it changes.
Tells ==
  \A a \in Addr :
    \/ Untaken(a)' /\ Told(a)'
    \/ /\ Untaken(a)' <=> Untaken(a)
       /\ Told(a) => Told(a)'
       /\ dev'[a] = "up" <=> dev[a] = "up"

\* What a step of the adapter does, or a disconnect request of a call.
AdapterMoves ==
  /\ links' = links /\ up' = up /\ nextId' = nextId
  /\ pc'[Pump] = pc[Pump] /\ loc'[Pump] = loc[Pump]
  /\ Tells

\* An event about a device that is appended is the last about it ...
LEMMA AppendTells ==
  ASSUME TypeOK, NEW e \in Event, NEW a \in Addr, About(e, a),
         e.kind = "connected" <=> dev'[a] = "up",
         \/ queue' = Append(queue, e)
         \/ queue' = queue \o <<e, e>>
  PROVE  Untaken(a)' /\ Told(a)'
<1>1. queue \in Seq(Event)
  BY DEF TypeOK
<1>2. CASE queue' = Append(queue, e)
  <2>1. /\ Len(queue') = Len(queue) + 1 /\ queue'[Len(queue')] = e
        /\ DOMAIN queue' = 1 .. Len(queue') /\ Len(queue) \in Nat
    BY <1>1, <1>2
  <2>2. Len(queue') \in DOMAIN queue' /\ \A m \in DOMAIN queue' : ~(m > Len(queue'))
    BY <2>1
  <2> QED
    BY <2>1, <2>2 DEF Untaken, Told
<1>3. CASE queue' = queue \o <<e, e>>
  <2>1. /\ Len(queue') = Len(queue) + 2 /\ queue'[Len(queue')] = e
        /\ DOMAIN queue' = 1 .. Len(queue') /\ Len(queue) \in Nat
    BY <1>1, <1>3
  <2>2. Len(queue') \in DOMAIN queue' /\ \A m \in DOMAIN queue' : ~(m > Len(queue'))
    BY <2>1
  <2> QED
    BY <2>1, <2>2 DEF Untaken, Told
<1> QED
  BY <1>2, <1>3

\* ... and changes nothing for another.
LEMMA AppendElsewhere ==
  ASSUME TypeOK, NEW e \in Event, NEW a \in Addr, ~About(e, a),
         dev'[a] = "up" <=> dev[a] = "up",
         \/ queue' = Append(queue, e)
         \/ queue' = queue \o <<e, e>>
  PROVE  (Untaken(a)' <=> Untaken(a)) /\ (Told(a) => Told(a)')
<1>1. queue \in Seq(Event)
  BY DEF TypeOK
<1>2. /\ DOMAIN queue \subseteq DOMAIN queue'
      /\ \A k \in DOMAIN queue : queue'[k] = queue[k]
      /\ \A k \in DOMAIN queue' \ DOMAIN queue : queue'[k] = e
  <2>1. CASE queue' = Append(queue, e)
    BY <1>1, <2>1
  <2>2. CASE queue' = queue \o <<e, e>>
    BY <1>1, <2>2
  <2> QED
    BY <2>1, <2>2
<1>3. Untaken(a)' <=> Untaken(a)
  BY <1>2 DEF Untaken
<1>4. ASSUME Told(a) PROVE Told(a)'
  <2>1. PICK k \in DOMAIN queue :
          /\ About(queue[k], a)
          /\ queue[k].kind = "connected" <=> dev[a] = "up"
          /\ \A m \in DOMAIN queue : m > k => ~About(queue[m], a)
    BY <1>4 DEF Told
  <2>2. /\ k \in DOMAIN queue' /\ About(queue'[k], a)
        /\ queue'[k].kind = "connected" <=> dev'[a] = "up"
    BY <1>2, <2>1
  <2>3. \A m \in DOMAIN queue' : m > k => ~About(queue'[m], a)
    BY <1>2, <2>1
  <2> QED
    BY <2>2, <2>3 DEF Told
<1> QED
  BY <1>3, <1>4

\* The event that is taken was the last about a device, or is not missed.
LEMMA TakeTells ==
  ASSUME TypeOK, NEW a \in Addr, queue # <<>>, queue' = Tail(queue), dev' = dev,
         Untaken(a) => Told(a)
  PROVE  /\ Untaken(a)' => Untaken(a) /\ Told(a)'
         /\ Untaken(a) => \/ Untaken(a)'
                          \/ /\ About(Head(queue), a)
                             /\ Head(queue).kind = "connected" <=> dev[a] = "up"
         /\ About(Head(queue), a) => Untaken(a)
<1>1. queue \in Seq(Event) /\ Len(queue) \in Nat \ {0} /\ DOMAIN queue = 1 .. Len(queue)
  BY DEF TypeOK
<1>2. /\ DOMAIN queue' = 1 .. (Len(queue) - 1)
      /\ \A k \in DOMAIN queue' : queue'[k] = queue[k + 1]
      /\ Head(queue) = queue[1]
  BY <1>1
<1>3. ASSUME NEW k \in DOMAIN queue
      PROVE  k = 1 \/ (k - 1 \in DOMAIN queue' /\ queue'[k - 1] = queue[k])
  BY <1>1, <1>2
<1>4. Untaken(a)' => Untaken(a)
  <2>1. ASSUME NEW k \in DOMAIN queue', About(queue'[k], a) PROVE Untaken(a)
    <3>1. k + 1 \in DOMAIN queue
      BY <1>1, <1>2
    <3> QED
      BY <1>2, <2>1, <3>1 DEF Untaken
  <2> QED
    BY <2>1 DEF Untaken
<1>5. ASSUME Untaken(a)' PROVE Told(a)'
  <2>1. PICK k \in DOMAIN queue :
          /\ About(queue[k], a)
          /\ queue[k].kind = "connected" <=> dev[a] = "up"
          /\ \A m \in DOMAIN queue : m > k => ~About(queue[m], a)
    BY <1>4, <1>5 DEF Told
  <2>2. PICK n \in DOMAIN queue' : About(queue'[n], a)
    BY <1>5 DEF Untaken
  <2>3. n + 1 \in DOMAIN queue /\ About(queue[n + 1], a) /\ n \in Nat /\ n > 0
    BY <1>1, <1>2, <2>2
  <2>4. k # 1 /\ k \in Nat
    BY <1>1, <2>1, <2>3
  <2>5. k - 1 \in DOMAIN queue' /\ queue'[k - 1] = queue[k]
    BY <1>3, <2>4
  <2>6. ASSUME NEW m \in DOMAIN queue', m > k - 1 PROVE ~About(queue'[m], a)
    <3>1. m + 1 \in DOMAIN queue /\ m + 1 > k
      BY <1>1, <1>2, <2>4, <2>6
    <3> QED
      BY <1>2, <2>1, <3>1
  <2> QED
    BY <2>1, <2>5, <2>6 DEF Told
<1>6. ASSUME Untaken(a), ~Untaken(a)'
      PROVE  About(Head(queue), a) /\ (Head(queue).kind = "connected" <=> dev[a] = "up")
  <2>1. PICK k \in DOMAIN queue :
          About(queue[k], a) /\ (queue[k].kind = "connected" <=> dev[a] = "up")
    BY <1>6 DEF Told
  <2>2. k = 1
    BY <1>3, <1>6, <2>1 DEF Untaken
  <2> QED
    BY <1>2, <2>1, <2>2
<1>7. 1 \in DOMAIN queue
  BY <1>1
<1> QED
  BY <1>2, <1>4, <1>5, <1>6, <1>7 DEF Untaken

\* The adapter reports what a disconnect request takes down.
LEMMA DisconnectTells ==
  ASSUME Reports, TypeOK, NEW a \in Addr, Disconnect(a)
  PROVE  Tells
<1>1. dev \in [Addr -> DevState] /\ DisconnectedEvent(a) \in Event
  BY DEF TypeOK, DisconnectedEvent, Event
<1>2. \A b \in Addr : b # a => dev'[b] = dev[b]
  BY <1>1 DEF Disconnect
<1>3. ASSUME NEW b \in Addr
      PROVE  \/ Untaken(b)' /\ Told(b)'
             \/ /\ Untaken(b)' <=> Untaken(b)
                /\ Told(b) => Told(b)'
                /\ dev'[b] = "up" <=> dev[b] = "up"
  <2> DEFINE e == DisconnectedEvent(a)
  <2>1. e.addr = a /\ e.kind = "disconnected" /\ a # None
    BY NoneAssumption DEF DisconnectedEvent
  <2>2. CASE UNCHANGED queue /\ (dev[a] # "up" \/ UNCHANGED dev)
    <3>1. dev'[b] = "up" <=> dev[b] = "up"
      BY <1>1, <1>2, <2>2 DEF Disconnect
    <3> QED
      BY <2>2, <3>1 DEF Untaken, Told
  <2>3. CASE /\ dev' = [dev EXCEPT ![a] = "down"]
             /\ \/ queue' = Append(queue, e)
                \/ queue' = queue \o <<e, e>>
    <3>1. CASE b = a
      <4>1. About(e, b) /\ (e.kind = "connected" <=> dev'[b] = "up")
        BY <1>1, <2>1, <2>3, <3>1 DEF About
      <4> QED
        BY <1>1, <2>3, <4>1, AppendTells
    <3>2. CASE b # a
      <4>1. ~About(e, b) /\ (dev'[b] = "up" <=> dev[b] = "up")
        BY <1>2, <2>1, <3>2 DEF About
      <4> QED
        BY <1>1, <2>3, <4>1, AppendElsewhere
    <3> QED
      BY <3>1, <3>2
  <2> QED
    BY <2>2, <2>3 DEF Disconnect, Reports
<1> QED
  BY <1>3 DEF Tells

\* What the adapter does itself, it tells.
LEMMA BackendTells ==
  ASSUME Reports, TypeOK, Backend
  PROVE  AdapterMoves /\ \A a \in Addr : dev[a] = "down" => dev'[a] = "down"
<1>0. dev \in [Addr -> DevState]
  BY DEF TypeOK
<1>1. CASE PowerOff
  <2>1. \A a \in Addr : dev'[a] = "down"
    BY <1>1 DEF PowerOff
  <2>2. PoweredOffEvent \in Event /\ queue' = Append(queue, PoweredOffEvent)
    BY <1>1 DEF Event, PowerOff
  <2>3. \A a \in Addr : About(PoweredOffEvent, a) /\ PoweredOffEvent.kind # "connected"
    BY DEF About, PoweredOffEvent
  <2>4. \A a \in Addr : Untaken(a)' /\ Told(a)'
    BY <2>1, <2>2, <2>3, AppendTells
  <2> QED
    BY <1>1, <2>1, <2>4 DEF PowerOff, BackendOnly, table, AdapterMoves, Tells
<1>2. ASSUME NEW a \in Addr, Establish(a) \/ FailConnect(a) \/ DropLink(a)
      PROVE  AdapterMoves /\ \A b \in Addr : dev[b] = "down" => dev'[b] = "down"
  <2>1. PICK e \in {ConnectedEvent(a), DisconnectedEvent(a)} :
          queue' = Append(queue, e) /\ (e.kind = "connected" <=> dev'[a] = "up")
    <3>1. CASE Establish(a)
      BY <1>0, <3>1 DEF Establish, ConnectedEvent
    <3>2. CASE FailConnect(a)
      BY <1>0, <3>2 DEF FailConnect, DisconnectedEvent
    <3>3. CASE DropLink(a)
      BY <1>0, <3>3 DEF DropLink, DisconnectedEvent, Reports
    <3> QED
      BY <1>2, <3>1, <3>2, <3>3
  <2>2. e \in Event /\ e.addr = a /\ a # None
    BY NoneAssumption DEF ConnectedEvent, DisconnectedEvent, Event
  <2>3. \A b \in Addr : b # a => dev'[b] = dev[b]
    BY <1>0, <1>2 DEF Establish, FailConnect, DropLink
  <2>4. dev[a] # "down" /\ BackendOnly
    BY <1>2 DEF Establish, FailConnect, DropLink
  <2>5. About(e, a) /\ \A b \in Addr : b # a => ~About(e, b)
    BY <2>2 DEF About
  <2>6. Untaken(a)' /\ Told(a)'
    BY <2>1, <2>2, <2>5, AppendTells
  <2>7. ASSUME NEW b \in Addr, b # a
        PROVE  /\ Untaken(b)' <=> Untaken(b)
               /\ Told(b) => Told(b)'
               /\ dev'[b] = "up" <=> dev[b] = "up"
    BY <2>1, <2>2, <2>3, <2>5, <2>7, AppendElsewhere
  <2> QED
    BY <2>3, <2>4, <2>6, <2>7 DEF BackendOnly, table, AdapterMoves, Tells
<1> QED
  BY <1>1, <1>2 DEF Backend

\* The events under way keep telling what the adapter says.
LEMMA TellsKeep ==
  ASSUME EventsTell, Tells
  PROVE  EventsTell'
  BY DEF EventsTell, Tells

\* A step that moves no connection keeps what is known of losses.
LEMMA TaskKeeps ==
  ASSUME LossInv, NEW x \in Actor, TaskMoves(x)
  PROVE  /\ LossInv'
         /\ \A a \in Addr : Known(a) => Known(a)'
<1> USE DEF Actor
<1>1. EventsTell' /\ \A a \in Addr : Untaken(a)' <=> Untaken(a)
  BY DEF LossInv, EventsTell, TaskMoves, Untaken, Told
<1>2. \A a \in Addr : /\ PumpClears(a)' <=> PumpClears(a)
                      /\ PumpRejects(a)' <=> PumpRejects(a)
  BY DEF TaskMoves, PumpClears, PumpRejects, At
<1>3. LossIsHandled'
  BY <1>1, <1>2 DEF LossInv, LossIsHandled, TaskMoves
<1>4. PumpFits' /\ UpIsOld'
  BY DEF LossInv, PumpFits, UpIsOld, TaskMoves
<1>5. \A a \in Addr : Known(a) => Known(a)'
  BY <1>1, <1>2 DEF Known, TaskMoves
<1> QED
  BY <1>1, <1>3, <1>4, <1>5 DEF LossInv

\* So does a step of the adapter, for what it tells.
LEMMA AdapterKeeps ==
  ASSUME LossInv, AdapterMoves
  PROVE  /\ LossInv'
         /\ \A a \in Addr : Known(a) => Known(a)'
<1>1. EventsTell'
  BY TellsKeep DEF LossInv, AdapterMoves
<1>2. \A a \in Addr : /\ Connected(a)' <=> Connected(a)
                      /\ PumpClears(a)' <=> PumpClears(a)
                      /\ PumpRejects(a)' <=> PumpRejects(a)
  BY DEF AdapterMoves, Connected, Visible, Present, PumpClears, PumpRejects, At
<1>3. LossIsHandled'
  BY <1>2 DEF LossInv, LossIsHandled, AdapterMoves, Tells
<1>4. PumpFits' /\ UpIsOld'
  BY DEF LossInv, PumpFits, UpIsOld, AdapterMoves
<1>5. \A a \in Addr : Known(a) => Known(a)'
  BY <1>2 DEF Known, AdapterMoves, Tells
<1> QED
  BY <1>1, <1>3, <1>4, <1>5 DEF LossInv

\* A link is present with a number, and no other link has it.
LEMMA OwnNumber ==
  ASSUME LinkInv, NEW a \in Addr, Present(a)
  PROVE  /\ links[a].id \in Nat /\ links[a].id < nextId
         /\ \A b \in Addr : Present(b) /\ links[b].id = links[a].id => b = a
  BY LinkIds DEF LinkInv, IdsAreUnique

\* The link that a task is clearing is not in the table any more.
LEMMA ClearedNumber ==
  ASSUME LinkInv, NEW x \in Actor, At(x, "signal"), NEW a \in Addr
  PROVE  links[a].id # loc[x].clr.id
<1>1. loc[x].clr \in Link
  BY DEF LinkInv, LocalsSet, At
<1>2. loc[x].clr # NoLink
  BY <1>1, NoneAssumption DEF Link, NoLink
<1> QED
  BY <1>2 DEF LinkInv, IdsAreUnique

\* The requests of the calls.
LEMMA RequestTells ==
  ASSUME Reports, LinkInv, NEW p \in Caller,
         DropDevice(p) \/ CancelAttempt(p) \/ GiveUp(p) \/ ReleaseDevice(p)
  PROVE  AdapterMoves
<1> USE ActorAssumption
<1>1. /\ loc[p].addr \in Addr /\ p # Pump /\ p \in Actor /\ Pump \in Actor /\ TypeOK
      /\ pc \in [Actor -> Pc] /\ loc \in [Actor -> Local]
  BY DEF LinkInv, TypeOK, LocalsSet, DropDevice, CancelAttempt, GiveUp, ReleaseDevice, At, Actor
<1>2. table' = table /\ pc'[Pump] = pc[Pump] /\ loc'[Pump] = loc[Pump]
  BY <1>1 DEF DropDevice, CancelAttempt, GiveUp, ReleaseDevice, Goto, SetLocal
<1>3. CASE Disconnect(loc[p].addr)
  BY <1>1, <1>2, <1>3, DisconnectTells DEF AdapterMoves, table
<1>4. CASE UNCHANGED backend
  BY <1>2, <1>4 DEF AdapterMoves, Tells, table, backend, Untaken, Told
<1> QED
  BY <1>3, <1>4 DEF DropDevice, CancelAttempt, GiveUp, ReleaseDevice

\* A device found connected is adopted; another one is asked to connect.
LEMMA CheckLoss ==
  ASSUME LinkInv, LossInv, NEW p \in Caller, CheckConnected(p)
  PROVE  /\ LossInv'
         /\ \A b \in Addr : Known(b) => Known(b)'
<1> USE ActorAssumption, NoneAssumption
<1> DEFINE a == loc[p].addr
<1>1. a \in Addr /\ p \in Actor /\ Pump \in Actor /\ p # Pump /\ pc \in [Actor -> Pc]
      /\ dev \in [Addr -> DevState] /\ links \in [Addr -> Link \cup {NoLink}]
  BY DEF LinkInv, TypeOK, LocalsSet, CheckConnected, At, Actor
<1>2. /\ pc'[Pump] = pc[Pump] /\ loc' = loc /\ links' = links /\ nextId' = nextId
      /\ queue' = queue
      /\ \A b \in Addr : dev'[b] = "up" <=> dev[b] = "up"
  BY <1>1 DEF CheckConnected, Goto, Opened, backend
<1>3. \A b \in Addr : (Untaken(b)' <=> Untaken(b)) /\ (Told(b)' <=> Told(b))
  BY <1>2 DEF Untaken, Told
<1>4. \A b \in Addr : /\ PumpClears(b)' <=> PumpClears(b)
                      /\ PumpRejects(b)' <=> PumpRejects(b)
  BY <1>2 DEF PumpClears, PumpRejects, At
<1>5. EventsTell' /\ PumpFits'
  BY <1>2, <1>3 DEF LossInv, EventsTell, PumpFits
<1>6. /\ UpIsOld'
      /\ \A b \in Addr : Connected(b) => Connected(b)'
      /\ \A b \in Addr : Connected(b)' => Connected(b) \/ (b = a /\ dev[a] = "up")
  <2>1. CASE dev[a] = "up" /\ Present(a) /\ up' = up \cup {links[a].id}
    <3>1. UpIsOld'
      BY <1>1, <1>2, <2>1, OwnNumber DEF LossInv, UpIsOld
    <3>2. \A b \in Addr : b # a /\ Present(b) => links[b].id # links[a].id
      BY <1>1, <2>1, OwnNumber
    <3> QED
      BY <1>2, <2>1, <3>1, <3>2 DEF Connected, Visible, Present
  <2>2. CASE up' = up
    BY <1>2, <2>2 DEF LossInv, UpIsOld, Connected, Visible, Present
  <2> QED
    BY <2>1, <2>2 DEF CheckConnected
<1>7. LossIsHandled'
  BY <1>2, <1>3, <1>4, <1>6 DEF LossInv, LossIsHandled
<1>8. \A b \in Addr : Known(b) => Known(b)'
  BY <1>2, <1>3, <1>4, <1>6 DEF Known
<1> QED
  BY <1>5, <1>6, <1>7, <1>8 DEF LossInv

\* What is removed is not connected any more; what the pump was to clear it cleared.
LEMMA RemoveLoss ==
  ASSUME LinkInv, LossInv, NEW x \in Actor, RemoveLink(x)
  PROVE  /\ LossInv'
         /\ (x # Pump => ~Present(loc[x].addr) \/ dev[loc[x].addr] = "down")
              => \A b \in Addr : Known(b) => Known(b)'
<1> USE ActorAssumption, NoneAssumption
<1>0. loc[x].addr \in Addr
  BY DEF LinkInv, LocalsSet, RemoveLink, At
<1> PICK a \in Addr : a = loc[x].addr
  BY <1>0
<1>1. /\ pc[x] = "clear" /\ x \in Actor /\ Pump \in Actor /\ loc[x] \in Local
      /\ pc \in [Actor -> Pc] /\ loc \in [Actor -> Local]
      /\ links \in [Addr -> Link \cup {NoLink}]
  BY DEF LinkInv, TypeOK, RemoveLink, At, Actor
<1>2. /\ nextId' = nextId /\ up' = up /\ dev' = dev /\ queue' = queue
      /\ \A y \in Actor \ {x} : pc'[y] = pc[y] /\ loc'[y] = loc[y]
      /\ pc'[x] \in {"callback", "next", "done"}
      /\ x = Pump => pc'[x] \in {"callback", "next"}
      /\ links' = links \/ links' = [links EXCEPT ![a] = NoLink]
      /\ loc'[x].todo = loc[x].todo /\ loc'[x].op = loc[x].op /\ loc'[x].only = loc[x].only
  BY <1>1 DEF RemoveLink, Goto, SetLocal, Local, AfterClear, AfterDisconnect, backend
<1>3. EventsTell' /\ \A b \in Addr : Untaken(b)' <=> Untaken(b)
  BY <1>2 DEF Untaken, Told, LossInv, EventsTell
<1>4. PumpFits' /\ UpIsOld'
  BY <1>1, <1>2 DEF LossInv, PumpFits, UpIsOld
<1>5. /\ \A b \in Addr : Present(b)' => Present(b)
      /\ \A b \in Addr : Connected(b)' => Connected(b)
      /\ \A b \in Addr : b # a \/ links' = links => (Connected(b) => Connected(b)')
  BY <1>1, <1>2 DEF Connected, Visible, Present, NoLink
<1>6. \A b \in Addr : /\ PumpClears(b)' => PumpClears(b)
                      /\ PumpRejects(b)' <=> PumpRejects(b)
                      /\ b # a \/ x # Pump => (PumpClears(b) => PumpClears(b)')
  BY <1>1, <1>2 DEF PumpClears, PumpRejects, At
<1>7. x = Pump => ~Connected(a)'
  BY <1>1 DEF RemoveLink, Connected, Visible, Present, NoLink, LossInv, PumpFits
<1>8. LossIsHandled'
  BY <1>2, <1>3, <1>5, <1>6, <1>7 DEF LossInv, LossIsHandled
<1>9. ASSUME x # Pump => ~Present(a) \/ dev[a] = "down", NEW b \in Addr, Known(b)
      PROVE  Known(b)'
  <2>1. CASE b # a \/ links' = links \/ dev[a] = "down"
    BY <1>2, <1>3, <1>5, <1>6, <1>9, <2>1 DEF Known
  <2>2. CASE b = a /\ x = Pump
    <3>1. PumpClears(a) /\ ~PumpRejects(a)
      BY <1>1, <2>2 DEF PumpClears, PumpRejects, At
    <3> QED
      BY <1>2, <1>3, <1>9, <2>2, <3>1 DEF Known
  <2>3. links' # links => Present(a)
    BY <1>1 DEF RemoveLink
  <2> QED
    BY <1>9, <2>1, <2>2, <2>3
<1> QED
  BY <1>3, <1>4, <1>8, <1>9 DEF LossInv

\* The pump takes an event; what is left tells as before, unless the event was the last
\* about a device, and that one told.
LEMMA TakeKeeps ==
  ASSUME LinkInv, LossInv, NEW k, Take(k)
  PROVE  /\ EventsTell'
         /\ At(Pump, "idle") /\ dev' = dev /\ links' = links /\ nextId' = nextId
         /\ queue # <<>> /\ Head(queue).kind = k
         /\ \A a \in Addr :
              Untaken(a) => \/ Untaken(a)'
                            \/ /\ About(Head(queue), a)
                               /\ Head(queue).kind = "connected" <=> dev[a] = "up"
         /\ \A a \in Addr : About(Head(queue), a) => Untaken(a)
         /\ \A a \in Addr : ~PumpClears(a) /\ ~PumpRejects(a)
<1>1. /\ At(Pump, "idle") /\ dev' = dev /\ links' = links /\ nextId' = nextId
      /\ queue # <<>> /\ queue' = Tail(queue) /\ Head(queue).kind = k /\ TypeOK
  BY DEF Take, LinkInv
<1>2. \A a \in Addr : Untaken(a) => Told(a)
  BY DEF LossInv, EventsTell
<1>3. \A a \in Addr : ~PumpClears(a) /\ ~PumpRejects(a)
  BY <1>1 DEF LossInv, PumpFits, PumpClears, PumpRejects, At
<1>4. \A a \in Addr : Untaken(a)' => Told(a)'
  BY <1>1, <1>2, TakeTells
<1>5. \A a \in Addr :
        /\ Untaken(a) => \/ Untaken(a)'
                         \/ /\ About(Head(queue), a)
                            /\ Head(queue).kind = "connected" <=> dev[a] = "up"
        /\ About(Head(queue), a) => Untaken(a)
  BY <1>1, <1>2, TakeTells
<1> QED
  BY <1>1, <1>3, <1>4, <1>5 DEF EventsTell

\* A device that the pump hears of is marked up, or will be closed; a temporary link is
\* not marked for all to see.
LEMMA ConnectKeeps ==
  ASSUME LinkInv, LossInv, HandleConnect
  PROVE  /\ LossInv'
         /\ (\A a \in Addr : ~links[a].temporary) => \A a \in Addr : Known(a) => Known(a)'
<1> USE ActorAssumption, NoneAssumption
<1>1. /\ TypeOK /\ links \in [Addr -> Link \cup {NoLink}]
      /\ pc \in [Actor -> Pc] /\ loc \in [Actor -> Local] /\ Pump \in Actor
      /\ Take("connected")
  BY DEF LinkInv, TypeOK, Actor, HandleConnect
<1> PICK a \in Addr : a = Head(queue).addr
  BY <1>1, HeadType
<1>2. About(Head(queue), a) /\ \A b \in Addr : About(Head(queue), b) => b = a
  BY DEF About
<1>3. /\ EventsTell' /\ dev' = dev /\ links' = links /\ nextId' = nextId
      /\ pc[Pump] = "idle" /\ Head(queue).kind = "connected"
      /\ \A b \in Addr :
           /\ Untaken(b) => Untaken(b)' \/ (b = a /\ dev[b] = "up")
           /\ ~PumpClears(b) /\ ~PumpRejects(b)
  BY <1>1, <1>2, TakeKeeps DEF At
<1>4. CASE Present(a)
  <2>1. up' = up \cup {links[a].id} /\ pc' = pc /\ loc' = loc
    BY <1>4 DEF HandleConnect
  <2>2. PumpFits' /\ UpIsOld'
    BY <1>3, <1>4, <2>1, OwnNumber DEF LossInv, PumpFits, UpIsOld
  <2>3. \A b \in Addr : ~PumpClears(b)' /\ ~PumpRejects(b)'
    BY <1>3, <2>1 DEF PumpClears, PumpRejects, At
  <2>4. \A b \in Addr : b # a /\ Present(b) => links[b].id # links[a].id
    BY <1>4, OwnNumber
  <2>5. /\ \A b \in Addr : b # a => (Connected(b)' <=> Connected(b))
        /\ \A b \in Addr : Connected(b) => Connected(b)'
        /\ ~links[a].temporary => Connected(a)'
    BY <1>3, <1>4, <2>1, <2>4 DEF Connected, Visible, Present
  <2>6. LossIsHandled'
    <3>1. ASSUME NEW b \in Addr, Connected(b)', dev'[b] # "up" PROVE Untaken(b)'
      <4>1. CASE b # a
        BY <1>3, <2>5, <3>1, <4>1 DEF LossInv, LossIsHandled
      <4>2. CASE b = a
        <5>1. Untaken(a)
          BY <1>1, <1>2, TakeKeeps
        <5> QED
          BY <1>3, <3>1, <4>2, <5>1
      <4> QED
        BY <4>1, <4>2
    <3> QED
      BY <3>1 DEF LossIsHandled
  <2>7. ~links[a].temporary => \A b \in Addr : Known(b) => Known(b)'
    BY <1>3, <2>3, <2>5 DEF Known
  <2> QED
    BY <1>3, <2>2, <2>6, <2>7 DEF LossInv
<1>5. CASE ~Present(a)
  <2>1. up' = up /\ SetLocal(Pump, [loc[Pump] EXCEPT !.addr = a]) /\ Goto(Pump, "reject")
    BY <1>5 DEF HandleConnect
  <2>2. /\ pc'[Pump] = "reject" /\ loc'[Pump].addr = a
        /\ loc'[Pump].todo = loc[Pump].todo /\ loc'[Pump].only = loc[Pump].only
    BY <1>1, <2>1 DEF SetLocal, Goto, Local
  <2>3. PumpFits' /\ UpIsOld'
    BY <1>3, <2>1, <2>2 DEF LossInv, PumpFits, UpIsOld
  <2>4. \A b \in Addr : ~PumpClears(b)'
    BY <1>3, <2>2 DEF LossInv, PumpFits, PumpClears, At
  <2>5. PumpRejects(a)'
    BY <2>2 DEF PumpRejects, At
  <2>6. \A b \in Addr : Connected(b)' <=> Connected(b)
    BY <1>3, <2>1 DEF Connected, Visible, Present
  <2>7. LossIsHandled' /\ \A b \in Addr : Known(b) => Known(b)'
    <3>1. ~Connected(a)
      BY <1>5 DEF Connected, Visible
    <3> QED
      BY <1>3, <2>4, <2>5, <2>6, <3>1 DEF LossInv, LossIsHandled, Known
  <2> QED
    BY <1>3, <2>3, <2>7 DEF LossInv
<1> QED
  BY <1>4, <1>5

\* A device that the pump hears is gone has no link, or it is cleared.
LEMMA LostKeeps ==
  ASSUME LinkInv, LossInv, HandleDisconnect \/ HandlePoweredOff
  PROVE  LossInv' /\ \A b \in Addr : Known(b) => Known(b)'
<1> USE ActorAssumption, NoneAssumption
<1> PICK k \in {"disconnected", "poweredoff"} :
      /\ Take(k)
      /\ k = "disconnected" => HandleDisconnect
      /\ k = "poweredoff" => HandlePoweredOff
  BY DEF HandleDisconnect, HandlePoweredOff
<1>1. /\ TypeOK /\ loc[Pump] \in Local
      /\ pc \in [Actor -> Pc] /\ loc \in [Actor -> Local] /\ Pump \in Actor
  BY DEF LinkInv, TypeOK, Actor
<1>2. /\ EventsTell' /\ dev' = dev /\ links' = links /\ nextId' = nextId
      /\ pc[Pump] = "idle" /\ Head(queue).kind = k
      /\ \A b \in Addr :
           /\ Untaken(b) => Untaken(b)' \/ (About(Head(queue), b) /\ dev[b] # "up")
           /\ ~PumpClears(b) /\ ~PumpRejects(b)
           /\ About(Head(queue), b) => Untaken(b)
  BY <1>1, TakeKeeps DEF At
<1>3. /\ up' = up /\ loc'[Pump].only = loc[Pump].only
      /\ pc'[Pump] \in {"idle", "clear", "next"}
      /\ pc'[Pump] = "idle" => loc'[Pump].todo = loc[Pump].todo
  <2>1. CASE k = "disconnected"
    BY <1>1, <1>2, <2>1 DEF HandleDisconnect, SetLocal, Goto, Local
  <2>2. CASE k = "poweredoff"
    BY <1>1, <1>2, <2>2 DEF HandlePoweredOff, SetLocal, Goto, Local
  <2> QED
    BY <2>1, <2>2
<1>4. PumpFits' /\ UpIsOld'
  BY <1>2, <1>3 DEF LossInv, PumpFits, UpIsOld
<1>5. \A b \in Addr : Connected(b)' <=> Connected(b)
  BY <1>2, <1>3 DEF Connected, Visible, Present
<1>6. ASSUME NEW b \in Addr, About(Head(queue), b), Present(b) PROVE PumpClears(b)'
  <2>1. CASE k = "disconnected"
    <3>1. Head(queue).addr = b
      BY <1>1, <1>6, <2>1, HeadType DEF About
    <3> QED
      BY <1>1, <1>6, <2>1, <3>1 DEF HandleDisconnect, SetLocal, Goto, Local, PumpClears, At
  <2>2. CASE k = "poweredoff"
    BY <1>1, <1>6, <2>2 DEF HandlePoweredOff, SetLocal, Goto, Local, PumpClears, At
  <2> QED
    BY <2>1, <2>2
<1>7. ASSUME NEW b \in Addr, ~About(Head(queue), b) PROVE ~PumpClears(b)'
  <2>1. CASE k = "disconnected"
    <3>1. Head(queue).addr # b
      BY <1>7 DEF About
    <3>2. loc'[Pump].todo = loc[Pump].todo /\ (pc'[Pump] = "clear" => loc'[Pump].addr # b)
      BY <1>1, <1>2, <2>1, <3>1 DEF HandleDisconnect, SetLocal, Goto, Local
    <3> QED
      BY <1>2, <3>2 DEF PumpClears, At
  <2>2. CASE k = "poweredoff"
    <3>1. Head(queue) \in Event
      BY <1>1 DEF TypeOK, Take
    <3> QED
      BY <1>2, <1>7, <2>2, <3>1 DEF Event, PoweredOffEvent, About
  <2> QED
    BY <2>1, <2>2
<1>8. \A b \in Addr : Connected(b) => Present(b)
  BY DEF Connected, Visible
<1>9. LossIsHandled' /\ \A b \in Addr : Known(b) => Known(b)'
  BY <1>2, <1>5, <1>6, <1>7, <1>8 DEF LossInv, LossIsHandled, Known
<1> QED
  BY <1>2, <1>4, <1>9 DEF LossInv

\* A connection nobody asked for is closed, which the adapter reports, unless it
\* refuses.
LEMMA RejectKeeps ==
  ASSUME Reports, LinkInv, LossInv, RejectDevice
  PROVE  /\ LossInv'
         /\ "refuse" \notin Faults => \A b \in Addr : Known(b) => Known(b)'
<1> USE ActorAssumption, NoneAssumption
<1>1. /\ TypeOK /\ loc[Pump].addr \in Addr /\ pc[Pump] = "reject"
      /\ pc \in [Actor -> Pc] /\ loc \in [Actor -> Local] /\ Pump \in Actor
      /\ dev \in [Addr -> DevState]
  BY DEF LinkInv, TypeOK, LocalsSet, Actor, RejectDevice, At
<1> PICK a \in Addr : a = loc[Pump].addr
  BY <1>1
<1>2. /\ pc'[Pump] = "idle" /\ loc'[Pump] = IdleLocal /\ Disconnect(a)
      /\ links' = links /\ up' = up /\ nextId' = nextId
  BY <1>1 DEF RejectDevice, Goto, SetLocal, table
<1>3. Tells
  BY <1>1, <1>2, DisconnectTells
<1>4. "refuse" \notin Faults => dev'[a] = "down"
  BY <1>1, <1>2 DEF Disconnect
<1>5. PumpFits' /\ UpIsOld'
  BY <1>2 DEF LossInv, PumpFits, UpIsOld, IdleLocal
<1>6. \A b \in Addr : /\ ~PumpClears(b) /\ ~PumpClears(b)'
                      /\ b # a => ~PumpRejects(b)
                      /\ Connected(b)' <=> Connected(b)
  BY <1>1, <1>2
  DEF LossInv, PumpFits, PumpClears, PumpRejects, At, IdleLocal, Connected, Visible, Present
<1>7. LossIsHandled'
  BY <1>3, <1>6 DEF LossInv, LossIsHandled, Tells
<1>8. "refuse" \notin Faults => \A b \in Addr : Known(b) => Known(b)'
  BY <1>3, <1>4, <1>6 DEF Known, Tells
<1> QED
  BY <1>3, <1>5, <1>7, <1>8, TellsKeep DEF LossInv

\* Most steps of a call move no connection.
LEMMA CallsAreTaskMoves ==
  ASSUME LinkInv, LossInv, NEW p \in Caller, StartCall(p) \/ CallerStep(p)
  PROVE  \/ TaskMoves(p)
         \/ CheckConnected(p) \/ RemoveLink(p)
         \/ DropDevice(p) \/ CancelAttempt(p) \/ GiveUp(p) \/ ReleaseDevice(p)
<1> USE ActorAssumption, NoneAssumption
<1> USE DEF At, Goto, table, backend
<1>0. /\ p \in Actor /\ p # Pump /\ TypeOK /\ LocalsSet /\ IdsAreUnique
      /\ pc \in [Actor -> Pc] /\ loc \in [Actor -> Local] /\ loc[p] \in Local
      /\ links \in [Addr -> Link \cup {NoLink}] /\ nextId \in Nat
  BY DEF LinkInv, TypeOK, Actor
<1>q. \A id \in up : id < nextId
  BY DEF LossInv, UpIsOld
<1>1. ASSUME NEW a \in Addr, CallConnect(p, a) PROVE TaskMoves(p)
  BY <1>0, <1>q, <1>1
  DEF CallConnect, Call, SetLocal, IdleLocal, Connected, Visible, Present, TaskMoves
<1>2. ASSUME NEW a \in Addr, CallDiscover(p, a) PROVE TaskMoves(p)
  BY <1>0, <1>q, <1>2
  DEF CallDiscover, Call, SetLocal, IdleLocal, Connected, Visible, Present, TaskMoves
<1>3. ASSUME NEW S \in SUBSET Addr, CallDisconnect(p, S) PROVE TaskMoves(p)
  BY <1>0, <1>q, <1>3
  DEF CallDisconnect, Call, SetLocal, IdleLocal, Connected, Visible, Present, TaskMoves
<1>4. ASSUME Return(p) PROVE TaskMoves(p)
  BY <1>0, <1>q, <1>4
  DEF Return, SetLocal, IdleLocal, Connected, Visible, Present, TaskMoves
<1>5. ASSUME AcquireConnectLock(p) PROVE TaskMoves(p)
  BY <1>0, <1>q, <1>5
  DEF AcquireConnectLock, Connected, Visible, Present, TaskMoves
<1>6. ASSUME ProbeDevice(p) PROVE TaskMoves(p)
  BY <1>0, <1>q, <1>6
  DEF ProbeDevice, Connected, Visible, Present, TaskMoves
<1>7. ASSUME ReadServices(p) PROVE TaskMoves(p)
  BY <1>0, <1>q, <1>7
  DEF ReadServices, Connected, Visible, Present, TaskMoves
<1>8. ASSUME OpenLink(p) PROVE TaskMoves(p)
  <2> DEFINE a == loc[p].addr
  <2>1. a \in Addr /\ up' = up
        /\ dev' = dev /\ queue' = queue /\ nextId' >= nextId
        /\ \A y \in Actor \ {p} : pc'[y] = pc[y] /\ loc'[y] = loc[y]
    BY <1>0, <1>8 DEF OpenLink, LocalsSet, SetLocal
  <2>2. ASSUME NEW b \in Addr PROVE Connected(b)' <=> Connected(b)
    <3>1. CASE links' = links
      BY <2>1, <3>1 DEF Connected, Visible, Present
    <3>2. CASE links' # links
      <4>1. ~Present(a) /\ nextId \notin up
        BY <1>0, <1>q, <1>8, <3>2 DEF OpenLink
      <4>2. links'[a].id = nextId /\ (b # a => links'[b] = links[b])
        BY <1>0, <1>8, <2>1, <3>2 DEF OpenLink
      <4> QED
        BY <2>1, <4>1, <4>2 DEF Connected, Visible, Present
    <3> QED
      BY <3>1, <3>2
  <2>3. \A id \in up' : id < nextId'
    BY <1>0, <1>q, <1>8 DEF OpenLink, TypeOK
  <2> QED
    BY <1>0, <2>1, <2>2, <2>3 DEF TaskMoves
<1>9. ASSUME ConnectReturns(p) PROVE TaskMoves(p)
  BY <1>0, <1>q, <1>9
  DEF ConnectReturns, Opened, Connected, Visible, Present, TaskMoves
<1>10. ASSUME AwaitConnected(p) PROVE TaskMoves(p)
  BY <1>0, <1>q, <1>10
  DEF AwaitConnected, Opened, Connected, Visible, Present, TaskMoves
<1>11. ASSUME AttemptFailed(p) PROVE TaskMoves(p)
  BY <1>0, <1>q, <1>11
  DEF AttemptFailed, SetLocal, Local, Connected, Visible, Present, TaskMoves
<1>12. ASSUME FindServices(p) PROVE TaskMoves(p)
  BY <1>0, <1>q, <1>12
  DEF FindServices, Connected, Visible, Present, TaskMoves
<1>13. ASSUME DiscoverServices(p) PROVE TaskMoves(p)
  BY <1>0, <1>q, <1>13
  DEF DiscoverServices, Connected, Visible, Present, TaskMoves
<1>14. ASSUME InstallCallback(p) PROVE TaskMoves(p)
  <2>1. /\ loc' = loc /\ up' = up /\ nextId' = nextId /\ dev' = dev /\ queue' = queue
        /\ \A y \in Actor \ {p} : pc'[y] = pc[y]
    BY <1>0, <1>14 DEF InstallCallback
  <2>2. loc[p].addr \in Addr
    BY <1>0, <1>14 DEF InstallCallback, LocalsSet
  <2>3. \A b \in Addr : links'[b].id = links[b].id /\ links'[b].temporary = links[b].temporary
    <3>1. CASE links' = links
      BY <3>1
    <3>2. CASE Present(loc[p].addr) /\ links' = [links EXCEPT ![loc[p].addr].owner = loc[p].call]
      <4>1. links[loc[p].addr] \in Link
        BY <1>0, <2>2, <3>2, LinkIds
      <4> QED
        BY <1>0, <2>2, <3>2, <4>1 DEF Link
    <3> QED
      BY <1>14, <3>1, <3>2 DEF InstallCallback
  <2> QED
    BY <1>0, <1>q, <2>1, <2>3 DEF TaskMoves, Connected, Visible, Present
<1>15. ASSUME ReportConnected(p) PROVE TaskMoves(p)
  BY <1>0, <1>q, <1>15
  DEF ReportConnected, Connected, Visible, Present, TaskMoves
<1>16. ASSUME OpenedForDiscovery(p) PROVE TaskMoves(p)
  <2>1. /\ table' = table /\ dev' = dev /\ queue' = queue
        /\ \A y \in Actor \ {p} : pc'[y] = pc[y] /\ loc'[y] = loc[y]
    BY <1>0, <1>16 DEF OpenedForDiscovery, SetLocal
  <2> QED
    BY <1>0, <1>q, <2>1 DEF TaskMoves, Connected, Visible, Present
<1>17. ASSUME ReadAndRelease(p) PROVE TaskMoves(p)
  BY <1>0, <1>q, <1>17
  DEF ReadAndRelease, SetLocal, Local, Connected, Visible, Present, TaskMoves
<1>18. ASSUME WaitReleased(p) PROVE TaskMoves(p)
  BY <1>0, <1>q, <1>18
  DEF WaitReleased, Connected, Visible, Present, TaskMoves
<1>19. ASSUME NextAddress(p) PROVE TaskMoves(p)
  <2>1. /\ table' = table /\ dev' = dev /\ queue' = queue
        /\ \A y \in Actor \ {p} : pc'[y] = pc[y]
    BY <1>0, <1>19 DEF NextAddress
  <2>2. \A y \in Actor \ {p} : loc'[y] = loc[y]
    BY <1>0, <1>19 DEF NextAddress, SetLocal
  <2> QED
    BY <1>0, <1>q, <2>1, <2>2 DEF TaskMoves, Connected, Visible, Present
<1>20. ASSUME LookupLink(p) PROVE TaskMoves(p)
  <2>1. /\ table' = table /\ dev' = dev /\ queue' = queue
        /\ \A y \in Actor \ {p} : pc'[y] = pc[y]
    BY <1>0, <1>20 DEF LookupLink, AfterDisconnect
  <2>2. \A y \in Actor \ {p} : loc'[y] = loc[y]
    BY <1>0, <1>20 DEF LookupLink, SetLocal
  <2> QED
    BY <1>0, <1>q, <2>1, <2>2 DEF TaskMoves, Connected, Visible, Present
<1>21. ASSUME QueryConnected(p) PROVE TaskMoves(p)
  <2>1. /\ table' = table /\ dev' = dev /\ queue' = queue
        /\ \A y \in Actor \ {p} : pc'[y] = pc[y]
    BY <1>0, <1>21 DEF QueryConnected
  <2>2. \A y \in Actor \ {p} : loc'[y] = loc[y]
    BY <1>0, <1>21 DEF QueryConnected, SetLocal
  <2> QED
    BY <1>0, <1>q, <2>1, <2>2 DEF TaskMoves, Connected, Visible, Present
<1>22. ASSUME WaitDisconnected(p) PROVE TaskMoves(p)
  BY <1>0, <1>q, <1>22
  DEF WaitDisconnected, AfterDisconnect, Connected, Visible, Present, TaskMoves
<1>23. ASSUME RunCallback(p) PROVE TaskMoves(p)
  BY <1>0, <1>q, <1>23
  DEF RunCallback, Connected, Visible, Present, TaskMoves
<1>24. ASSUME ComputeUpdate(p) PROVE TaskMoves(p)
  BY <1>0, <1>q, <1>24
  DEF ComputeUpdate, SetLocal, Local, Connected, Visible, Present, TaskMoves
<1>25. ASSUME ReportDisconnected(p) PROVE TaskMoves(p)
  BY <1>0, <1>q, <1>25
  DEF ReportDisconnected, Connected, Visible, Present, TaskMoves
<1>26. ASSUME SignalClosed(p) PROVE TaskMoves(p)
  <2>1. /\ links' = links /\ nextId' = nextId /\ dev' = dev /\ queue' = queue
        /\ up' = up \ {loc[p].clr.id}
        /\ \A y \in Actor \ {p} : pc'[y] = pc[y] /\ loc'[y] = loc[y]
    BY <1>0, <1>26 DEF SignalClosed, SetLocal
  <2>2. \A b \in Addr : Connected(b)' <=> Connected(b)
    BY <1>0, <1>26, <2>1, ClearedNumber DEF SignalClosed, Connected, Visible, Present
  <2> QED
    BY <1>0, <1>q, <2>1, <2>2 DEF TaskMoves
<1> QED
  BY <1>1, <1>2, <1>3, <1>4, <1>5, <1>6, <1>7, <1>8, <1>9, <1>10, <1>11, <1>12, <1>13,
     <1>14, <1>15, <1>16, <1>17, <1>18, <1>19, <1>20, <1>21, <1>22, <1>23, <1>24, <1>25,
     <1>26
  DEF StartCall, CallerStep, ConnectStep, DisconnectStep, ClearLink

\* So do the steps of the pump that report the removal of a link.
LEMMA PumpTaskMoves ==
  ASSUME LinkInv, LossInv,
         \/ NextAddress(Pump) \/ RunCallback(Pump) \/ ComputeUpdate(Pump)
         \/ ReportDisconnected(Pump) \/ SignalClosed(Pump)
  PROVE  TaskMoves(Pump)
<1> USE DEF At, Goto, table, backend
<1>0. /\ Pump \in Actor /\ TypeOK
      /\ pc \in [Actor -> Pc] /\ loc \in [Actor -> Local] /\ loc[Pump] \in Local
      /\ \A id \in up : id < nextId
      /\ loc[Pump].only = None
  BY DEF LinkInv, TypeOK, Actor, LossInv, UpIsOld, PumpFits
<1>1. CASE NextAddress(Pump)
  <2>1. CASE loc[Pump].todo = {}
    BY <1>0, <1>1, <2>1
    DEF NextAddress, SetLocal, IdleLocal, TaskMoves, Connected, Visible, Present,
        PumpClears, PumpFits
  <2>2. CASE loc[Pump].todo # {}
    <3>1. PICK a \in loc[Pump].todo :
            /\ SetLocal(Pump, [loc[Pump] EXCEPT !.todo = loc[Pump].todo \ {a}, !.addr = a,
                                                !.only = None, !.rx = None])
            /\ pc' = [pc EXCEPT ![Pump] = "clear"]
      BY <1>1, <2>2 DEF NextAddress
    <3>2. /\ loc'[Pump].todo = loc[Pump].todo \ {a} /\ loc'[Pump].addr = a
          /\ loc'[Pump].only = None
          /\ \A y \in Actor \ {Pump} : loc'[y] = loc[y]
      BY <1>0, <3>1 DEF SetLocal, Local
    <3>3. pc'[Pump] = "clear" /\ pc[Pump] = "next" /\ \A y \in Actor \ {Pump} : pc'[y] = pc[y]
      BY <1>0, <1>1, <3>1 DEF NextAddress
    <3>4. \A b \in Addr : PumpClears(b)' <=> PumpClears(b)
      BY <3>2, <3>3 DEF PumpClears
    <3>5. PumpFits'
      BY <3>2, <3>3 DEF PumpFits
    <3> QED
      BY <1>0, <1>1, <3>2, <3>3, <3>4, <3>5
      DEF NextAddress, TaskMoves, Connected, Visible, Present
  <2> QED
    BY <2>1, <2>2
<1>2. CASE RunCallback(Pump) \/ ReportDisconnected(Pump)
  <2>1. /\ loc' = loc /\ table' = table /\ dev' = dev /\ queue' = queue
        /\ pc[Pump] \in {"callback", "send"} /\ pc'[Pump] \in {"compute", "signal"}
        /\ \A y \in Actor \ {Pump} : pc'[y] = pc[y]
    BY <1>0, <1>2 DEF RunCallback, ReportDisconnected
  <2> QED
    BY <1>0, <2>1 DEF TaskMoves, Connected, Visible, Present, PumpClears, PumpFits
<1>3. CASE ComputeUpdate(Pump) \/ SignalClosed(Pump)
  <2>1. /\ links' = links /\ nextId' = nextId /\ dev' = dev /\ queue' = queue
        /\ pc[Pump] \in {"compute", "signal"} /\ pc'[Pump] \in {"send", "next"}
        /\ \A y \in Actor \ {Pump} : pc'[y] = pc[y] /\ loc'[y] = loc[y]
        /\ loc'[Pump].todo = loc[Pump].todo /\ loc'[Pump].only = loc[Pump].only
    <3>1. CASE SignalClosed(Pump)
      BY <1>0, <3>1 DEF SignalClosed, AfterClear, SetLocal, Local
    <3>2. CASE ComputeUpdate(Pump)
      <4>1. (\E a \in Addr : Connected(a)) \in BOOLEAN
        OBVIOUS
      <4>2. PICK b \in BOOLEAN : SetLocal(Pump, [loc[Pump] EXCEPT !.any = b])
        BY <3>2, <4>1 DEF ComputeUpdate
      <4> QED
        BY <1>0, <3>2, <4>2 DEF ComputeUpdate, SetLocal, Local
    <3> QED
      BY <1>3, <3>1, <3>2
  <2>2. up' \subseteq up /\ \A b \in Addr : Connected(b)' <=> Connected(b)
    BY <1>0, <1>3, <2>1, ClearedNumber
    DEF ComputeUpdate, SignalClosed, Connected, Visible, Present
  <2> QED
    BY <1>0, <2>1, <2>2 DEF TaskMoves, PumpClears, PumpFits
<1> QED
  BY <1>1, <1>2, <1>3

\* Every step keeps what is known of losses, and what is known of devices that are up
\* unless it is one of four: a temporary link that comes up, a connection that the
\* adapter refuses to close, and a link that a call removes while its device is up.
LEMMA LossStep ==
  ASSUME Reports, LinkInv, LossInv, [Next]_vars
  PROVE  /\ LossInv'
         /\ \/ \A a \in Addr : Known(a) => Known(a)'
            \/ \E a \in Addr : links[a].temporary
            \/ "refuse" \in Faults
            \/ \E p \in Caller : /\ RemoveLink(p) /\ Present(loc[p].addr)
                                 /\ dev[loc[p].addr] # "down"
<1>0. TypeOK /\ Pump \in Actor /\ Caller \subseteq Actor /\ Pump \notin Caller
  BY ActorAssumption DEF LinkInv, Actor
<1>1. CASE Backend
  BY <1>0, <1>1, BackendTells, AdapterKeeps
<1>2. CASE PumpStep
  BY <1>0, <1>2, ConnectKeeps, LostKeeps, RejectKeeps, PumpTaskMoves, TaskKeeps, RemoveLoss
  DEF PumpStep, ClearLink
<1>3. ASSUME NEW p \in Caller, StartCall(p) \/ CallerStep(p)
      PROVE  /\ LossInv'
             /\ \/ \A a \in Addr : Known(a) => Known(a)'
                \/ RemoveLink(p) /\ Present(loc[p].addr) /\ dev[loc[p].addr] # "down"
  BY <1>0, <1>3, CallsAreTaskMoves, TaskKeeps, CheckLoss, RemoveLoss, RequestTells, AdapterKeeps
<1>4. CASE UNCHANGED vars
  BY <1>4
  DEF vars, table, backend, LossInv, EventsTell, LossIsHandled, PumpFits, UpIsOld, Known,
      Untaken, Told, Connected, Visible, Present, PumpClears, PumpRejects, At
<1> QED
  BY <1>1, <1>2, <1>3, <1>4 DEF Next

\* At the start nothing is connected and nothing reported.
LEMMA InitLoss == Init => LossInv
BY ActorAssumption
DEF Init, LossInv, EventsTell, LossIsHandled, PumpFits, UpIsOld, Untaken, Told,
    Connected, Visible, Present, NoLink, IdleLocal, At, Actor

\* A loss that the adapter reports is never missed, whatever the callers do meanwhile:
\* what is_connected says of a device that is gone is about to be put right.
THEOREM LossesHandled == Reports => (Spec => []LossIsHandled)
<1> SUFFICES ASSUME Reports PROVE Spec => []LossIsHandled
  OBVIOUS
<1>1. Init => LossInv
  BY InitLoss
<1>2. LinkInv /\ LossInv /\ [Next]_vars => LossInv'
  BY LossStep
<1>3. LossInv => LossIsHandled
  BY DEF LossInv
<1> QED
  BY <1>1, <1>2, <1>3, Invariance, PTL DEF Spec

-----------------------------------------------------------------------------
(* Table and adapter agree when everything is quiet.                       *)

\* One task makes the calls, it discovers nothing, and the adapter neither
\* loses an event nor refuses a disconnect request.
Sequential ==
  /\ \A p, q \in Caller : p = q
  /\ "discover" \notin Ops
  /\ Reports /\ "refuse" \notin Faults

\* A call waits for a device that is down; it clears the link of one only.
CallFits(p) ==
  /\ loc[p].op # "discover"
  /\ At(p, "waitdown") => dev[loc[p].addr] = "down"
  /\ At(p, "clear") => dev[loc[p].addr] = "down" \/ ~Present(loc[p].addr)

\* What is known of losses, of devices that are up, and of the one call.
AgreeInv ==
  /\ LossInv
  /\ \A a \in Addr : Known(a)
  /\ \A p \in Caller : CallFits(p)

\* Without discovery no link is temporary.
LEMMA NothingTemporary ==
  ASSUME LinkInv, \A p \in Caller : CallFits(p), NEW a \in Addr
  PROVE  ~links[a].temporary
BY DEF LinkInv, TemporaryLinkIsReleased, CallFits

\* A call that goes on to wait for a device, or to clear its link, has told it to
\* disconnect; the adapter does.
LEMMA CallsFit ==
  ASSUME Sequential, LinkInv, NEW p \in Caller, \A q \in Caller : CallFits(q),
         StartCall(p) \/ CallerStep(p)
  PROVE  CallFits(p)'
<1> USE ActorAssumption, NoneAssumption
<1> USE DEF At, Goto
<1>0. /\ p \in Actor /\ pc \in [Actor -> Pc] /\ loc \in [Actor -> Local] /\ loc[p] \in Local
      /\ dev \in [Addr -> DevState] /\ CallFits(p)
  BY DEF LinkInv, TypeOK, Actor
<1>1. loc[p].op # "discover" /\ pc[p] \notin DiscoverPc
  BY <1>0 DEF CallFits, LinkInv, LockDiscipline
<1>2. CASE DropDevice(p)
  <2>1. /\ loc' = loc /\ loc[p].addr \in Addr /\ Disconnect(loc[p].addr)
    BY <1>0, <1>2 DEF DropDevice, LinkInv, LocalsSet
  <2>2. dev'[loc[p].addr] = "down"
    BY <1>0, <2>1 DEF Disconnect, DevState, Sequential
  <2> QED
    BY <1>1, <2>1, <2>2 DEF CallFits
<1>3. CASE GiveUp(p)
  <2>1. /\ links' = links /\ loc[p].addr \in Addr /\ pc'[p] = "clear"
        /\ loc'[p].addr = loc[p].addr /\ loc'[p].op = loc[p].op
        /\ IF Visible(loc[p].addr) THEN Disconnect(loc[p].addr) ELSE UNCHANGED backend
    BY <1>0, <1>3 DEF GiveUp, LinkInv, LocalsSet, table, SetLocal, Local
  <2>2. Visible(loc[p].addr) => dev'[loc[p].addr] = "down"
    BY <1>0, <2>1 DEF Disconnect, DevState, Sequential
  <2>3. ~Visible(loc[p].addr) => ~Present(loc[p].addr)'
    BY <2>1, NothingTemporary DEF Visible, Present
  <2> QED
    BY <1>1, <2>1, <2>2, <2>3 DEF CallFits
<1>4. CASE WaitDisconnected(p)
  <2>1. loc' = loc /\ dev' = dev /\ pc[p] = "waitdown" /\ pc'[p] # "waitdown"
    BY <1>0, <1>4 DEF WaitDisconnected, backend, AfterDisconnect
  <2> QED
    BY <1>0, <2>1 DEF CallFits
<1>5. CASE StartCall(p)
  <2>1. \/ \E a \in Addr : CallConnect(p, a)
        \/ \E S \in SUBSET Addr : CallDisconnect(p, S)
    BY <1>5 DEF StartCall, CallDiscover, Call, Sequential
  <2>2. pc'[p] \in {"lock", "next"} /\ loc'[p].op \in {"connect", "disconnect"}
    BY <1>0, <2>1 DEF CallConnect, CallDisconnect, SetLocal, IdleLocal
  <2> QED
    BY <2>2 DEF CallFits
<1>6. CASE \/ AcquireConnectLock(p) \/ OpenLink(p) \/ CheckConnected(p) \/ ConnectReturns(p)
           \/ AwaitConnected(p) \/ CancelAttempt(p) \/ AttemptFailed(p)
  <2>1. pc'[p] \notin {"waitdown", "clear"}
    BY <1>0, <1>1, <1>6
    DEF AcquireConnectLock, OpenLink, CheckConnected, ConnectReturns, AwaitConnected,
        CancelAttempt, AttemptFailed, Opened
  <2>2. loc'[p].op = loc[p].op
    <3>1. CASE OpenLink(p)
      <4>1. PICK r : SetLocal(p, [loc[p] EXCEPT !.rx = r])
        BY <3>1 DEF OpenLink
      <4> QED
        BY <1>0, <4>1 DEF SetLocal, Local
    <3>2. CASE AttemptFailed(p)
      BY <1>0, <3>2 DEF AttemptFailed, SetLocal, Local
    <3> QED
      BY <1>6, <3>1, <3>2
      DEF AcquireConnectLock, CheckConnected, ConnectReturns, AwaitConnected, CancelAttempt
  <2> QED
    BY <1>1, <2>1, <2>2 DEF CallFits
<1>7. CASE \/ FindServices(p) \/ DiscoverServices(p) \/ InstallCallback(p) \/ ReportConnected(p)
  BY <1>0, <1>1, <1>7
  DEF FindServices, DiscoverServices, InstallCallback, ReportConnected, CallFits
<1>8. ~(\/ ProbeDevice(p) \/ ReadServices(p) \/ OpenedForDiscovery(p) \/ ReadAndRelease(p)
        \/ ReleaseDevice(p) \/ WaitReleased(p))
  BY <1>1
  DEF ProbeDevice, ReadServices, OpenedForDiscovery, ReadAndRelease, ReleaseDevice, WaitReleased,
      DiscoverPc
<1>9. CASE NextAddress(p) \/ LookupLink(p) \/ QueryConnected(p)
  <2>1. pc'[p] \notin {"waitdown", "clear"}
    BY <1>0, <1>9 DEF NextAddress, LookupLink, QueryConnected, AfterDisconnect
  <2>2. loc'[p].op = loc[p].op
    <3>1. CASE NextAddress(p)
      <4>1. \/ loc' = loc
            \/ \E T, a : SetLocal(p, [loc[p] EXCEPT !.todo = T, !.addr = a,
                                                     !.only = None, !.rx = None])
        BY <1>0, <3>1 DEF NextAddress
      <4>2. ASSUME NEW T, NEW a,
                   SetLocal(p, [loc[p] EXCEPT !.todo = T, !.addr = a,
                                              !.only = None, !.rx = None])
            PROVE  loc'[p].op = loc[p].op
        BY <1>0, <4>2 DEF SetLocal, Local
      <4> QED
        BY <4>1, <4>2
    <3>2. CASE LookupLink(p)
      <4>1. \/ loc' = loc
            \/ \E r, b, n : SetLocal(p, [loc[p] EXCEPT !.rx = r, !.only = r,
                                                        !.was = b, !.born = n])
        BY <3>2 DEF LookupLink
      <4>2. ASSUME NEW r, NEW b, NEW n,
                   SetLocal(p, [loc[p] EXCEPT !.rx = r, !.only = r, !.was = b, !.born = n])
            PROVE  loc'[p].op = loc[p].op
        BY <1>0, <4>2 DEF SetLocal, Local
      <4> QED
        BY <4>1, <4>2
    <3>3. CASE QueryConnected(p)
      <4>1. \E b : SetLocal(p, [loc[p] EXCEPT !.was = b])
        BY <3>3 DEF QueryConnected
      <4> QED
        BY <1>0, <4>1 DEF SetLocal, Local
    <3> QED
      BY <1>9, <3>1, <3>2, <3>3
  <2> QED
    BY <1>1, <2>1, <2>2 DEF CallFits
<1>10. CASE ClearLink(p)
  <2>1. pc'[p] \notin {"waitdown", "clear"}
    BY <1>0, <1>10
    DEF ClearLink, RemoveLink, RunCallback, ComputeUpdate, ReportDisconnected, SignalClosed,
        AfterClear, AfterDisconnect
  <2>2. loc'[p].op = loc[p].op
    <3>1. CASE RemoveLink(p)
      <4>1. loc' = loc \/ \E c : SetLocal(p, [loc[p] EXCEPT !.clr = c])
        BY <3>1 DEF RemoveLink
      <4> QED
        BY <1>0, <4>1 DEF SetLocal, Local
    <3>2. CASE ComputeUpdate(p)
      <4>1. \E b : SetLocal(p, [loc[p] EXCEPT !.any = b])
        BY <3>2 DEF ComputeUpdate
      <4> QED
        BY <1>0, <4>1 DEF SetLocal, Local
    <3>3. CASE SignalClosed(p)
      BY <1>0, <3>3 DEF SignalClosed, SetLocal, Local
    <3> QED
      BY <1>10, <3>1, <3>2, <3>3 DEF ClearLink, RunCallback, ReportDisconnected
  <2> QED
    BY <1>1, <2>1, <2>2 DEF CallFits
<1>11. CASE Return(p)
  BY <1>0, <1>11 DEF Return, SetLocal, IdleLocal, CallFits
<1> QED
  BY <1>2, <1>3, <1>4, <1>5, <1>6, <1>7, <1>8, <1>9, <1>10, <1>11
  DEF CallerStep, ConnectStep, DisconnectStep

\* What the adapter and the pump do brings no device up that is down, and no link back.
LEMMA OthersFit ==
  ASSUME Sequential, LinkInv, NEW p \in Caller, CallFits(p), Backend \/ PumpStep
  PROVE  CallFits(p)'
<1> USE ActorAssumption, NoneAssumption
<1>0. /\ TypeOK /\ p \in Actor /\ Pump \in Actor /\ p # Pump
      /\ pc \in [Actor -> Pc] /\ loc \in [Actor -> Local] /\ dev \in [Addr -> DevState]
      /\ links \in [Addr -> Link \cup {NoLink}]
  BY DEF LinkInv, TypeOK, Actor
<1>1. pc[p] \in {"waitdown", "clear"} => loc[p].addr \in Addr
  BY <1>0 DEF LinkInv, LocalsSet
<1>2. CASE Backend
  <2>1. \A a \in Addr : dev[a] = "down" => dev'[a] = "down"
    BY <1>0, <1>2 DEF Backend, PowerOff, Establish, FailConnect, DropLink
  <2>2. links' = links /\ pc' = pc /\ loc' = loc
    BY <1>2 DEF Backend, PowerOff, Establish, FailConnect, DropLink, BackendOnly, table
  <2> QED
    BY <1>1, <2>1, <2>2 DEF CallFits, At, Present
<1>3. CASE PumpStep
  <2>1. pc'[p] = pc[p] /\ loc'[p] = loc[p]
    BY <1>0, <1>3
    DEF PumpStep, HandleConnect, HandleDisconnect, HandlePoweredOff, RejectDevice, NextAddress,
        ClearLink, RemoveLink, RunCallback, ComputeUpdate, ReportDisconnected, SignalClosed,
        Goto, SetLocal
  <2>2. \A a \in Addr : dev[a] = "down" => dev'[a] = "down"
    BY <1>0, <1>3
    DEF PumpStep, HandleConnect, HandleDisconnect, HandlePoweredOff, Take, RejectDevice,
        Disconnect, NextAddress, ClearLink, RemoveLink, RunCallback, ComputeUpdate,
        ReportDisconnected, SignalClosed, backend
  <2>3. \A a \in Addr : Present(a)' => Present(a)
    <3>1. links' = links \/ \E a \in Addr : links' = [links EXCEPT ![a] = NoLink]
      BY <1>0, <1>3
      DEF PumpStep, HandleConnect, HandleDisconnect, HandlePoweredOff, Take, RejectDevice,
          NextAddress, ClearLink, RemoveLink, RunCallback, ComputeUpdate, ReportDisconnected,
          SignalClosed, table, LinkInv, LocalsSet, At
    <3> QED
      BY <1>0, <3>1 DEF Present, NoLink
  <2> QED
    BY <1>1, <2>1, <2>2, <2>3 DEF CallFits, At
<1> QED
  BY <1>2, <1>3

\* Every step keeps the agreement ...
LEMMA AgreeStep ==
  ASSUME Sequential, LinkInv, AgreeInv, [Next]_vars
  PROVE  AgreeInv'
<1>1. LossInv'
  BY LossStep DEF Sequential, AgreeInv
<1>2. \A a \in Addr : Known(a)'
  <2>1. \A a \in Addr : ~links[a].temporary
    BY NothingTemporary DEF AgreeInv
  <2>2. ASSUME NEW p \in Caller, RemoveLink(p)
        PROVE  ~Present(loc[p].addr) \/ dev[loc[p].addr] = "down"
    BY <2>2 DEF AgreeInv, CallFits, RemoveLink
  <2> QED
    BY <2>1, <2>2, LossStep DEF Sequential, AgreeInv
<1>3. ASSUME NEW p \in Caller PROVE CallFits(p)'
  <2>1. CASE UNCHANGED vars
    BY <2>1 DEF AgreeInv, CallFits, vars, table, backend, At, Present
  <2>2. CASE \E q \in Caller : StartCall(q) \/ CallerStep(q)
    BY <2>2, CallsFit DEF Sequential, AgreeInv
  <2> QED
    BY <2>1, <2>2, OthersFit DEF AgreeInv, Next
<1> QED
  BY <1>1, <1>2, <1>3 DEF AgreeInv

\* ... so with nothing left to do, the table and the adapter agree, for the
\* calls of one task and an adapter that reports what it does.
THEOREM AgreeCorrect == Sequential => (Spec => []AgreeWhenQuiet)
<1> SUFFICES ASSUME Sequential PROVE Spec => []AgreeWhenQuiet
  OBVIOUS
<1>1. Init => AgreeInv
  BY InitLoss DEF Init, AgreeInv, Known, CallFits, IdleLocal, At, Actor
<1>2. LinkInv /\ AgreeInv /\ [Next]_vars => AgreeInv'
  BY AgreeStep
<1>3. AgreeInv => AgreeWhenQuiet
  <2> SUFFICES ASSUME AgreeInv, Quiet, queue = <<>>, NEW a \in Addr
               PROVE  Connected(a) <=> dev[a] = "up"
    BY DEF AgreeWhenQuiet
  <2>1. Known(a) /\ (Connected(a) /\ dev[a] # "up" => PumpClears(a)) /\ ~Untaken(a)
    BY DEF AgreeInv, LossInv, LossIsHandled, Untaken
  <2>2. ~PumpClears(a) /\ ~PumpRejects(a)
    BY DEF AgreeInv, LossInv, PumpFits, Quiet, PumpClears, PumpRejects, At, Actor
  <2> QED
    BY <2>1, <2>2 DEF Known
<1> QED
  BY <1>1, <1>2, <1>3, Invariance, PTL DEF Spec

=============================================================================
