--------------------------- MODULE GattOpsProofs ---------------------------
(***************************************************************************)
(* Proofs about GattOps, for any tasks, characteristics and links, and     *)
(* whatever the callbacks of notifications do.                             *)
(***************************************************************************)
EXTENDS GattOps, TLAPS

-----------------------------------------------------------------------------
(* The inductive invariant. *)

\* The device has the link in the table or none.
LinksOK ==
  /\ conn \in {0, link} /\ link <= count
  /\ link = 0 => listeners = {}

\* An operation is on links that were made, and has left what it did not do yet.
OpsOK ==
  \A t \in Actor : pc[t] # "idle" =>
    /\ op[t].lock \in 1 .. count /\ op[t].target \in 1 .. count
    /\ op[t].left \subseteq op[t].of
    /\ pc[t] = "locking" => op[t].left = op[t].of
    /\ IF pc[t] = "listening" THEN op[t].left = {}
       ELSE op[t].left = {} <=> op[t].kind \in {"access", "discover"}

Holds(t) == pc[t] \in {"busy", "listening"}

LockHeld == \A t \in Actor : Holds(t) => gattLock[op[t].lock] = t

\* Neither a listener nor a callback is left of what was unsubscribed.
QuietIsSilent ==
  /\ \A l \in listeners \cup calling : l.charac \notin quiet
  /\ NoCallbackAfterUnsubscribe

Timely(t, k) == Holds(t) /\ op[t].kind = k /\ ~Overtaken(t) /\ op[t].target = link

\* What a subscribe switched on stays on until its listener is added.
SubscribedHears ==
  conn = link =>
    \A t \in Actor : Timely(t, "subscribe") => op[t].of \ op[t].left \subseteq notifying \cup deaf

\* A listener the device was told to leave is about to be removed.
ListenersHear ==
  conn = link /\ link # 0 =>
    \A l \in listeners : l.on = link =>
      \/ l.charac \in notifying \cup deaf
      \/ \E u \in Actor : Timely(u, "unsubscribe") /\ l.charac \in op[u].of \ op[u].left

GattInv ==
  /\ TypeOK /\ LinksOK /\ OpsOK /\ LockHeld
  /\ QuietIsSilent /\ SubscribedHears /\ ListenersHear

-----------------------------------------------------------------------------
(* What the three longest actions do. *)

\* A task that gets the lock has the link of now, except for a discovery.
LEMMA LockFrame ==
  ASSUME TypeOK, NEW t \in Actor, Lock(t)
  PROVE  /\ pc[t] = "locking"
         /\ UNCHANGED <<links, notifying, listeners, notes, quiet, deaf>>
         /\ \/ Finish(t)
            \/ /\ pc'[t] = "busy"
               /\ gattLock[op[t].lock] = None /\ gattLock' = [gattLock EXCEPT ![op[t].lock] = t]
               /\ op'[t].kind = op[t].kind /\ op'[t].lock = op[t].lock
               /\ op'[t].of = op[t].of /\ op'[t].left = op[t].left
               /\ \/ op'[t].target = op[t].target /\ op[t].kind = "discover"
                  \/ op'[t].target = link /\ link # 0
               /\ \A u \in Actor : u # t => pc'[u] = pc[u] /\ op'[u] = op[u]
<1>1. CASE op[t].kind # "discover" /\ link = 0
  BY <1>1 DEF Lock
<1>2. CASE ~(op[t].kind # "discover" /\ link = 0)
  <2>1. /\ pc' = [pc EXCEPT ![t] = "busy"]
        /\ op' = [op EXCEPT ![t].target = IF op[t].kind = "discover" THEN @ ELSE link]
        /\ gattLock[op[t].lock] = None /\ gattLock' = [gattLock EXCEPT ![op[t].lock] = t]
    BY <1>2 DEF Lock, Goto
  <2>2. \A u \in Actor : u # t => pc'[u] = pc[u] /\ op'[u] = op[u]
    BY <2>1 DEF TypeOK
  <2>3. /\ op'[t].kind = op[t].kind /\ op'[t].lock = op[t].lock
        /\ op'[t].of = op[t].of /\ op'[t].left = op[t].left
        /\ op'[t].target = IF op[t].kind = "discover" THEN op[t].target ELSE link
    BY <2>1 DEF TypeOK, Op
  <2> QED
    BY <1>2, <2>1, <2>2, <2>3 DEF Lock, TypeOK
<1> QED
  BY <1>1, <1>2

\* A device that answers has the link of the operation, which is in the table;
\* so the third look-up finds the same link.
LEMMA SwitchFrame ==
  ASSUME TypeOK, LinksOK, OpsOK, NEW t \in Actor, Switch(t)
  PROVE  \E c \in op[t].left :
           /\ notifying' = Switched(op[t].kind, c)
           /\ deaf' = CASE op[t].kind = "subscribe" -> deaf \ {c}
                        [] op[t].kind = "unsubscribe" /\ Overtaken(t) -> deaf \cup {c}
                        [] OTHER -> deaf
           /\ pc[t] = "busy" /\ pc'[t] = IF op[t].left = {c} THEN "listening" ELSE "busy"
           /\ conn = op[t].target /\ link = op[t].target
           /\ op'[t].kind = op[t].kind /\ op'[t].lock = op[t].lock
           /\ op'[t].target = op[t].target
           /\ op'[t].of = op[t].of /\ op'[t].left = op[t].left \ {c}
           /\ \A u \in Actor : u # t => pc'[u] = pc[u] /\ op'[u] = op[u]
           /\ UNCHANGED <<links, gattLock, listeners, notes, quiet>>
<1>1. /\ pc[t] = "busy" /\ conn = op[t].target /\ link = conn /\ link # 0
  BY DEF Switch, OpsOK, LinksOK
<1>2. PICK c \in op[t].left :
        /\ notifying' = Switched(op[t].kind, c)
        /\ deaf' = CASE op[t].kind = "subscribe" -> deaf \ {c}
                     [] op[t].kind = "unsubscribe" /\ Overtaken(t) -> deaf \cup {c}
                     [] OTHER -> deaf
        /\ \/ /\ op[t].left # {c} /\ pc' = pc
              /\ op' = [op EXCEPT ![t].left = @ \ {c}]
           \/ /\ op[t].left = {c} /\ pc' = [pc EXCEPT ![t] = "listening"]
              /\ op' = [op EXCEPT ![t].left = {}, ![t].target = link]
        /\ UNCHANGED gattLock
  BY <1>1 DEF Switch, Goto
<1>3. UNCHANGED <<links, listeners, notes, quiet>>
  BY DEF Switch
<1>4. \A u \in Actor : u # t => pc'[u] = pc[u] /\ op'[u] = op[u]
  BY <1>2 DEF TypeOK
<1>5. /\ op'[t].kind = op[t].kind /\ op'[t].lock = op[t].lock
      /\ op'[t].target = op[t].target
      /\ op'[t].of = op[t].of /\ op'[t].left = op[t].left \ {c}
  BY <1>1, <1>2 DEF TypeOK, Op
<1>6. pc'[t] = IF op[t].left = {c} THEN "listening" ELSE "busy"
  BY <1>1, <1>2 DEF TypeOK
<1> QED
  BY <1>1, <1>2, <1>3, <1>4, <1>5, <1>6

\* An operation begins on the link in the table, with all of its work to do.
LEMMA BeginFrame ==
  ASSUME TypeOK, NEW t \in Actor, NEW k \in Kind, Begin(t, k)
  PROVE  \E cs \in SUBSET Charac :
           /\ cs = {} <=> k \in {"access", "discover"}
           /\ pc[t] = "idle" /\ link # 0 /\ pc' = [pc EXCEPT ![t] = "locking"]
           /\ op' = [op EXCEPT ![t] = [kind |-> k, lock |-> link, target |-> link,
                                      of |-> cs, left |-> cs]]
<1>1. CASE k \in {"access", "discover"}
  BY <1>1 DEF Begin, Goto
<1>2. CASE k \notin {"access", "discover"}
  <2>1. PICK cs \in (SUBSET Charac) \ {{}} :
          op' = [op EXCEPT ![t] = [kind |-> k, lock |-> link, target |-> link,
                                  of |-> cs, left |-> cs]]
    BY <1>2 DEF Begin
  <2> QED
    BY <1>2, <2>1 DEF Begin, Goto
<1> QED
  BY <1>1, <1>2

-----------------------------------------------------------------------------
(* Every step keeps each part. *)

\* The table and the device agree on the link.
LEMMA LinksStep ==
  TypeOK /\ LinksOK /\ [Next]_vars => LinksOK'
<1> SUFFICES ASSUME TypeOK, LinksOK, [Next]_vars
             PROVE  LinksOK'
  OBVIOUS
<1>1. ASSUME Connect PROVE LinksOK'
  BY <1>1, MaxLinksAssumption DEF Connect, TypeOK, LinksOK, links, notes
<1>2. ASSUME Lose PROVE LinksOK'
  BY <1>2, MaxLinksAssumption DEF Lose, TypeOK, LinksOK, links, notes
<1>3. ASSUME Clear PROVE LinksOK'
  BY <1>3, MaxLinksAssumption DEF Clear, Finish, TypeOK, LinksOK, links, notes
<1>3a. ASSUME Reuse PROVE LinksOK'
  BY <1>3a, MaxLinksAssumption DEF Reuse, Finish, TypeOK, LinksOK, links, notes
<1>4. ASSUME TakeNote PROVE LinksOK'
  BY <1>4, MaxLinksAssumption DEF TakeNote, TypeOK, LinksOK, links, notes
<1>5. ASSUME StartCallback PROVE LinksOK'
  BY <1>5, MaxLinksAssumption DEF StartCallback, Begin, Goto, TypeOK, LinksOK, links, notes
<1>6. ASSUME EndCallback PROVE LinksOK'
  BY <1>6, MaxLinksAssumption DEF EndCallback, TypeOK, LinksOK, links, notes
<1>7. ASSUME NEW c \in Charac, Notify(c) PROVE LinksOK'
  BY <1>7, MaxLinksAssumption DEF Notify, TypeOK, LinksOK, links, notes
<1>8. ASSUME NEW t \in Task, StartOp(t) PROVE LinksOK'
  BY <1>8, MaxLinksAssumption DEF StartOp, Begin, Goto, TypeOK, LinksOK, links, notes
<1>9. ASSUME NEW t \in Actor, Lock(t) PROVE LinksOK'
  BY <1>9, MaxLinksAssumption DEF Lock, Finish, Goto, TypeOK, LinksOK, links, notes
<1>10. ASSUME NEW t \in Actor, Access(t) PROVE LinksOK'
  BY <1>10, MaxLinksAssumption DEF Access, Finish, TypeOK, LinksOK, links, notes
<1>11. ASSUME NEW t \in Actor, Switch(t) PROVE LinksOK'
  BY <1>11, MaxLinksAssumption DEF Switch, Switched, Finish, Goto, TypeOK, LinksOK, links,
     notes
<1>12. ASSUME NEW t \in Actor, Fail(t) PROVE LinksOK'
  BY <1>12, MaxLinksAssumption DEF Fail, Switched, Finish, TypeOK, LinksOK, links, notes
<1>13. ASSUME NEW t \in Actor, Listen(t) PROVE LinksOK'
  BY <1>13, MaxLinksAssumption DEF Listen, Finish, TypeOK, LinksOK, links, notes
<1>14. ASSUME NEW t \in Actor, StopListening(t) PROVE LinksOK'
  BY <1>14, MaxLinksAssumption DEF StopListening, Finish, TypeOK, LinksOK, links, notes
<1>15. CASE UNCHANGED vars
  BY <1>15 DEF vars, TypeOK, LinksOK, links, notes
<1> QED
  BY <1>1, <1>2, <1>3, <1>3a, <1>4, <1>5, <1>6, <1>7, <1>8, <1>9, <1>10, <1>11, <1>12, <1>13,
     <1>14, <1>15
     DEF Next, RunCallbacks, Proceed, AnswerOp

\* An operation keeps to links that were made.
LEMMA OpsStep ==
  TypeOK /\ LinksOK /\ OpsOK /\ [Next]_vars => OpsOK'
<1> SUFFICES ASSUME TypeOK, LinksOK, OpsOK, [Next]_vars
             PROVE  OpsOK'
  OBVIOUS
<1>1. ASSUME Connect PROVE OpsOK'
  BY <1>1, MaxLinksAssumption DEF Connect, TypeOK, LinksOK, OpsOK, links, notes, NoOp, Actor
<1>2. ASSUME Lose PROVE OpsOK'
  BY <1>2, MaxLinksAssumption DEF Lose, TypeOK, LinksOK, OpsOK, links, notes, NoOp, Actor
<1>3. ASSUME Clear PROVE OpsOK'
  BY <1>3, MaxLinksAssumption DEF Clear, Finish, TypeOK, LinksOK, OpsOK, links, notes,
     NoOp, Actor
<1>3a. ASSUME Reuse PROVE OpsOK'
  BY <1>3a, MaxLinksAssumption DEF Reuse, Finish, TypeOK, LinksOK, OpsOK, links, notes,
     NoOp, Actor
<1>4. ASSUME TakeNote PROVE OpsOK'
  BY <1>4, MaxLinksAssumption DEF TakeNote, TypeOK, LinksOK, OpsOK, links, notes, NoOp,
     Actor
<1>5. ASSUME StartCallback PROVE OpsOK'
  <2>1. CASE UNCHANGED <<pc, op, count>>
    BY <2>1 DEF OpsOK
  <2>2. CASE UNCHANGED count /\ \E k \in Kind : Begin(Callback, k)
    <3>1. PICK k \in Kind : Begin(Callback, k)
      BY <2>2
    <3>2. PICK cs \in SUBSET Charac :
            /\ cs = {} <=> k \in {"access", "discover"}
            /\ pc[Callback] = "idle" /\ link # 0 /\ pc' = [pc EXCEPT ![Callback] = "locking"]
            /\ op' = [op EXCEPT ![Callback] = [kind |-> k, lock |-> link, target |-> link,
                                       of |-> cs, left |-> cs]]
      BY <3>1, BeginFrame DEF Actor
    <3>3. link \in 1 .. count
      BY <3>2 DEF TypeOK, LinksOK
    <3> QED
      BY <2>2, <3>2, <3>3 DEF TypeOK, OpsOK
  <2> QED
    BY <1>5, <2>1, <2>2, KindAssumption DEF StartCallback, links
<1>6. ASSUME EndCallback PROVE OpsOK'
  BY <1>6, MaxLinksAssumption DEF EndCallback, TypeOK, LinksOK, OpsOK, links, notes, NoOp,
     Actor
<1>7. ASSUME NEW c \in Charac, Notify(c) PROVE OpsOK'
  BY <1>7, MaxLinksAssumption DEF Notify, TypeOK, LinksOK, OpsOK, links, notes, NoOp, Actor
<1>8. ASSUME NEW t \in Task, StartOp(t) PROVE OpsOK'
  <2>1. CASE UNCHANGED <<pc, op, count>>
    BY <2>1 DEF OpsOK
  <2>2. CASE UNCHANGED count /\ \E k \in Kind : Begin(t, k)
    <3>1. PICK k \in Kind : Begin(t, k)
      BY <2>2
    <3>2. PICK cs \in SUBSET Charac :
            /\ cs = {} <=> k \in {"access", "discover"}
            /\ pc[t] = "idle" /\ link # 0 /\ pc' = [pc EXCEPT ![t] = "locking"]
            /\ op' = [op EXCEPT ![t] = [kind |-> k, lock |-> link, target |-> link,
                                       of |-> cs, left |-> cs]]
      BY <3>1, BeginFrame DEF Actor
    <3>3. link \in 1 .. count
      BY <3>2 DEF TypeOK, LinksOK
    <3> QED
      BY <2>2, <3>2, <3>3 DEF TypeOK, OpsOK
  <2> QED
    BY <1>8, <2>1, <2>2, KindAssumption DEF StartOp, links
<1>9. ASSUME NEW t \in Actor, Lock(t) PROVE OpsOK'
  BY <1>9, LockFrame, MaxLinksAssumption, ActorAssumption DEF Finish, TypeOK, LinksOK,
     OpsOK, links, notes, NoOp
<1>10. ASSUME NEW t \in Actor, Access(t) PROVE OpsOK'
  BY <1>10, MaxLinksAssumption DEF Access, Finish, TypeOK, LinksOK, OpsOK, links, notes,
     NoOp, Actor
<1>11. ASSUME NEW t \in Actor, Switch(t) PROVE OpsOK'
  BY <1>11, SwitchFrame, MaxLinksAssumption DEF TypeOK, LinksOK, OpsOK, links, notes, NoOp
<1>12. ASSUME NEW t \in Actor, Fail(t) PROVE OpsOK'
  BY <1>12, MaxLinksAssumption DEF Fail, Switched, Finish, TypeOK, LinksOK, OpsOK, links,
     notes, NoOp, Actor
<1>13. ASSUME NEW t \in Actor, Listen(t) PROVE OpsOK'
  BY <1>13, MaxLinksAssumption DEF Listen, Finish, TypeOK, LinksOK, OpsOK, links, notes,
     NoOp, Actor
<1>14. ASSUME NEW t \in Actor, StopListening(t) PROVE OpsOK'
  BY <1>14, MaxLinksAssumption DEF StopListening, Finish, TypeOK, LinksOK, OpsOK, links,
     notes, NoOp, Actor
<1>15. CASE UNCHANGED vars
  BY <1>15 DEF vars, TypeOK, LinksOK, OpsOK, links, notes, NoOp, Actor
<1> QED
  BY <1>1, <1>2, <1>3, <1>3a, <1>4, <1>5, <1>6, <1>7, <1>8, <1>9, <1>10, <1>11, <1>12, <1>13,
     <1>14, <1>15
     DEF Next, RunCallbacks, Proceed, AnswerOp

\* The holder of a gatt_lock keeps it to the end of its operation.
LEMMA LockStep ==
  TypeOK /\ LinksOK /\ OpsOK /\ LockHeld /\ [Next]_vars => LockHeld'
<1> SUFFICES ASSUME TypeOK, LinksOK, OpsOK, LockHeld, [Next]_vars
             PROVE  LockHeld'
  OBVIOUS
<1>1. ASSUME Connect PROVE LockHeld'
  BY <1>1, MaxLinksAssumption DEF Connect, TypeOK, LinksOK, OpsOK, LockHeld, Holds, links,
     notes, NoOp, Actor, LinkId
<1>2. ASSUME Lose PROVE LockHeld'
  BY <1>2, MaxLinksAssumption DEF Lose, TypeOK, LinksOK, OpsOK, LockHeld, Holds, links,
     notes, NoOp, Actor, LinkId
<1>3. ASSUME Clear PROVE LockHeld'
  BY <1>3, MaxLinksAssumption DEF Clear, Finish, TypeOK, LinksOK, OpsOK, LockHeld, Holds,
     links, notes, NoOp, Actor, LinkId
<1>3a. ASSUME Reuse PROVE LockHeld'
  BY <1>3a, MaxLinksAssumption DEF Reuse, Finish, TypeOK, LinksOK, OpsOK, LockHeld, Holds,
     links, notes, NoOp, Actor, LinkId
<1>4. ASSUME TakeNote PROVE LockHeld'
  BY <1>4, MaxLinksAssumption DEF TakeNote, TypeOK, LinksOK, OpsOK, LockHeld, Holds,
     links, notes, NoOp, Actor, LinkId
<1>5. ASSUME StartCallback PROVE LockHeld'
  BY <1>5, MaxLinksAssumption DEF StartCallback, Begin, Goto, TypeOK, LinksOK, OpsOK,
     LockHeld, Holds, links, notes, NoOp, Actor, LinkId
<1>6. ASSUME EndCallback PROVE LockHeld'
  BY <1>6, MaxLinksAssumption DEF EndCallback, TypeOK, LinksOK, OpsOK, LockHeld, Holds,
     links, notes, NoOp, Actor, LinkId
<1>7. ASSUME NEW c \in Charac, Notify(c) PROVE LockHeld'
  BY <1>7, MaxLinksAssumption DEF Notify, TypeOK, LinksOK, OpsOK, LockHeld, Holds, links,
     notes, NoOp, Actor, LinkId
<1>8. ASSUME NEW t \in Task, StartOp(t) PROVE LockHeld'
  BY <1>8, MaxLinksAssumption DEF StartOp, Begin, Goto, TypeOK, LinksOK, OpsOK, LockHeld,
     Holds, links, notes, NoOp, Actor, LinkId
<1>9. ASSUME NEW t \in Actor, Lock(t) PROVE LockHeld'
  BY <1>9, LockFrame, MaxLinksAssumption, ActorAssumption DEF Finish, TypeOK, LinksOK,
     OpsOK, LockHeld, Holds, links, notes, NoOp, LinkId
<1>10. ASSUME NEW t \in Actor, Access(t) PROVE LockHeld'
  BY <1>10, MaxLinksAssumption DEF Access, Finish, TypeOK, LinksOK, OpsOK, LockHeld,
     Holds, links, notes, NoOp, Actor, LinkId
<1>11. ASSUME NEW t \in Actor, Switch(t) PROVE LockHeld'
  BY <1>11, SwitchFrame, MaxLinksAssumption DEF TypeOK, LinksOK, OpsOK, LockHeld, Holds,
     links, notes, NoOp, LinkId
<1>12. ASSUME NEW t \in Actor, Fail(t) PROVE LockHeld'
  BY <1>12, MaxLinksAssumption DEF Fail, Switched, Finish, TypeOK, LinksOK, OpsOK,
     LockHeld, Holds, links, notes, NoOp, Actor, LinkId
<1>13. ASSUME NEW t \in Actor, Listen(t) PROVE LockHeld'
  BY <1>13, MaxLinksAssumption DEF Listen, Finish, TypeOK, LinksOK, OpsOK, LockHeld,
     Holds, links, notes, NoOp, Actor, LinkId
<1>14. ASSUME NEW t \in Actor, StopListening(t) PROVE LockHeld'
  BY <1>14, MaxLinksAssumption DEF StopListening, Finish, TypeOK, LinksOK, OpsOK,
     LockHeld, Holds, links, notes, NoOp, Actor, LinkId
<1>15. CASE UNCHANGED vars
  BY <1>15 DEF vars, TypeOK, LinksOK, OpsOK, LockHeld, Holds, links, notes, NoOp, Actor,
     LinkId
<1> QED
  BY <1>1, <1>2, <1>3, <1>3a, <1>4, <1>5, <1>6, <1>7, <1>8, <1>9, <1>10, <1>11, <1>12, <1>13,
     <1>14, <1>15
     DEF Next, RunCallbacks, Proceed, AnswerOp

\* Who unsubscribes waits for the listeners to be free.
LEMMA QuietStep ==
  TypeOK /\ QuietIsSilent /\ [Next]_vars => QuietIsSilent'
<1> SUFFICES ASSUME TypeOK, QuietIsSilent, [Next]_vars
             PROVE  QuietIsSilent'
  OBVIOUS
<1>1. ASSUME Connect PROVE QuietIsSilent'
  BY <1>1 DEF Connect, TypeOK, QuietIsSilent, NoCallbackAfterUnsubscribe, ListenersFree,
     links, notes
<1>2. ASSUME Lose PROVE QuietIsSilent'
  BY <1>2 DEF Lose, TypeOK, QuietIsSilent, NoCallbackAfterUnsubscribe, ListenersFree,
     links, notes
<1>3. ASSUME Clear PROVE QuietIsSilent'
  BY <1>3 DEF Clear, Finish, TypeOK, QuietIsSilent, NoCallbackAfterUnsubscribe,
     ListenersFree, links, notes
<1>3a. ASSUME Reuse PROVE QuietIsSilent'
  BY <1>3a DEF Reuse, Finish, TypeOK, QuietIsSilent, NoCallbackAfterUnsubscribe,
     ListenersFree, links, notes
<1>4. ASSUME TakeNote PROVE QuietIsSilent'
  BY <1>4 DEF TakeNote, TypeOK, QuietIsSilent, NoCallbackAfterUnsubscribe, ListenersFree,
     links, notes
<1>5. ASSUME StartCallback PROVE QuietIsSilent'
  BY <1>5 DEF StartCallback, Begin, Goto, TypeOK, QuietIsSilent,
     NoCallbackAfterUnsubscribe, ListenersFree, links, notes
<1>6. ASSUME EndCallback PROVE QuietIsSilent'
  BY <1>6 DEF EndCallback, TypeOK, QuietIsSilent, NoCallbackAfterUnsubscribe,
     ListenersFree, links, notes
<1>7. ASSUME NEW c \in Charac, Notify(c) PROVE QuietIsSilent'
  BY <1>7 DEF Notify, TypeOK, QuietIsSilent, NoCallbackAfterUnsubscribe, ListenersFree,
     links, notes
<1>8. ASSUME NEW t \in Task, StartOp(t) PROVE QuietIsSilent'
  BY <1>8 DEF StartOp, Begin, Goto, TypeOK, QuietIsSilent, NoCallbackAfterUnsubscribe,
     ListenersFree, links, notes
<1>9. ASSUME NEW t \in Actor, Lock(t) PROVE QuietIsSilent'
  BY <1>9 DEF Lock, Finish, Goto, TypeOK, QuietIsSilent, NoCallbackAfterUnsubscribe,
     ListenersFree, links, notes
<1>10. ASSUME NEW t \in Actor, Access(t) PROVE QuietIsSilent'
  BY <1>10 DEF Access, Finish, TypeOK, QuietIsSilent, NoCallbackAfterUnsubscribe,
     ListenersFree, links, notes
<1>11. ASSUME NEW t \in Actor, Switch(t) PROVE QuietIsSilent'
  BY <1>11 DEF Switch, Switched, Finish, Goto, TypeOK, QuietIsSilent,
     NoCallbackAfterUnsubscribe, ListenersFree, links, notes
<1>12. ASSUME NEW t \in Actor, Fail(t) PROVE QuietIsSilent'
  BY <1>12 DEF Fail, Switched, Finish, TypeOK, QuietIsSilent, NoCallbackAfterUnsubscribe,
     ListenersFree, links, notes
<1>13. ASSUME NEW t \in Actor, Listen(t) PROVE QuietIsSilent'
  BY <1>13 DEF Listen, Finish, TypeOK, QuietIsSilent, NoCallbackAfterUnsubscribe,
     ListenersFree, links, notes
<1>14. ASSUME NEW t \in Actor, StopListening(t) PROVE QuietIsSilent'
  BY <1>14 DEF StopListening, Finish, TypeOK, QuietIsSilent, NoCallbackAfterUnsubscribe,
     ListenersFree, links, notes
<1>15. CASE UNCHANGED vars
  BY <1>15 DEF vars, TypeOK, QuietIsSilent, NoCallbackAfterUnsubscribe, ListenersFree,
     links, notes
<1> QED
  BY <1>1, <1>2, <1>3, <1>3a, <1>4, <1>5, <1>6, <1>7, <1>8, <1>9, <1>10, <1>11, <1>12, <1>13,
     <1>14, <1>15
     DEF Next, RunCallbacks, Proceed, AnswerOp

\* No other operation on the link switches off what a subscribe switched on.
LEMMA SubscribedStep ==
  TypeOK /\ LinksOK /\ OpsOK /\ LockHeld /\ SubscribedHears /\ [Next]_vars => SubscribedHears'
<1> SUFFICES ASSUME TypeOK, LinksOK, OpsOK, LockHeld, SubscribedHears, [Next]_vars
             PROVE  SubscribedHears'
  OBVIOUS
<1>1. ASSUME Connect PROVE SubscribedHears'
  BY <1>1, MaxLinksAssumption DEF Connect, TypeOK, LinksOK, OpsOK, LockHeld, Holds,
     Timely, Overtaken, SubscribedHears, links, notes, NoOp, LinkId
<1>2. ASSUME Lose PROVE SubscribedHears'
  BY <1>2, MaxLinksAssumption DEF Lose, TypeOK, LinksOK, OpsOK, LockHeld, Holds, Timely,
     Overtaken, SubscribedHears, links, notes, NoOp, LinkId
<1>3. ASSUME Clear PROVE SubscribedHears'
  BY <1>3, MaxLinksAssumption DEF Clear, Finish, TypeOK, LinksOK, OpsOK, LockHeld, Holds,
     Timely, Overtaken, SubscribedHears, links, notes, NoOp, LinkId
<1>3a. ASSUME Reuse PROVE SubscribedHears'
  BY <1>3a, MaxLinksAssumption DEF Reuse, Finish, TypeOK, LinksOK, OpsOK, LockHeld, Holds,
     Timely, Overtaken, SubscribedHears, links, notes, NoOp, LinkId
<1>4. ASSUME TakeNote PROVE SubscribedHears'
  BY <1>4, MaxLinksAssumption DEF TakeNote, TypeOK, LinksOK, OpsOK, LockHeld, Holds,
     Timely, Overtaken, SubscribedHears, links, notes, NoOp, LinkId
<1>5. ASSUME StartCallback PROVE SubscribedHears'
  BY <1>5, MaxLinksAssumption DEF StartCallback, Begin, Goto, TypeOK, LinksOK, OpsOK,
     LockHeld, Holds, Timely, Overtaken, SubscribedHears, links, notes, NoOp, LinkId
<1>6. ASSUME EndCallback PROVE SubscribedHears'
  BY <1>6, MaxLinksAssumption DEF EndCallback, TypeOK, LinksOK, OpsOK, LockHeld, Holds,
     Timely, Overtaken, SubscribedHears, links, notes, NoOp, LinkId
<1>7. ASSUME NEW c \in Charac, Notify(c) PROVE SubscribedHears'
  BY <1>7, MaxLinksAssumption DEF Notify, TypeOK, LinksOK, OpsOK, LockHeld, Holds, Timely,
     Overtaken, SubscribedHears, links, notes, NoOp, LinkId
<1>8. ASSUME NEW t \in Task, StartOp(t) PROVE SubscribedHears'
  BY <1>8, MaxLinksAssumption DEF StartOp, Begin, Goto, TypeOK, LinksOK, OpsOK, LockHeld,
     Holds, Timely, Overtaken, SubscribedHears, links, notes, NoOp, LinkId
<1>9. ASSUME NEW t \in Actor, Lock(t) PROVE SubscribedHears'
  BY <1>9, LockFrame, MaxLinksAssumption, ActorAssumption DEF Finish, TypeOK, LinksOK,
     OpsOK, LockHeld, Holds, Timely, Overtaken, SubscribedHears, links, notes, NoOp,
     LinkId
<1>10. ASSUME NEW t \in Actor, Access(t) PROVE SubscribedHears'
  BY <1>10, MaxLinksAssumption DEF Access, Finish, TypeOK, LinksOK, OpsOK, LockHeld,
     Holds, Timely, Overtaken, SubscribedHears, links, notes, NoOp, LinkId
<1>11. ASSUME NEW t \in Actor, Switch(t) PROVE SubscribedHears'
  <2>1. PICK c \in op[t].left :
          /\ notifying' = Switched(op[t].kind, c)
          /\ deaf' = CASE op[t].kind = "subscribe" -> deaf \ {c}
                       [] op[t].kind = "unsubscribe" /\ Overtaken(t) -> deaf \cup {c}
                       [] OTHER -> deaf
          /\ pc[t] = "busy"
          /\ conn = op[t].target /\ link = op[t].target
          /\ op'[t].kind = op[t].kind /\ op'[t].lock = op[t].lock
          /\ op'[t].target = op[t].target
          /\ op'[t].of = op[t].of /\ op'[t].left = op[t].left \ {c}
          /\ \A u \in Actor : u # t => pc'[u] = pc[u] /\ op'[u] = op[u]
          /\ link' = link /\ conn' = conn
    BY <1>11, SwitchFrame DEF links
  <2>2. op[t].kind \in {"subscribe", "unsubscribe"}
    BY <2>1 DEF OpsOK, TypeOK, Op, Kind
  <2> SUFFICES ASSUME NEW u \in Actor, Timely(u, "subscribe")'
               PROVE  op'[u].of \ op'[u].left \subseteq notifying' \cup deaf'
    BY DEF SubscribedHears
  <2>3. CASE u = t
    <3>1. Timely(t, "subscribe")
      BY <2>1, <2>3 DEF Timely, Holds, Overtaken
    <3>2. op[t].of \ op[t].left \subseteq notifying \cup deaf
      BY <2>1, <3>1 DEF SubscribedHears
    <3> QED
      BY <2>1, <2>3, <3>1, <3>2 DEF Timely, Switched
  <2>4. CASE u # t
    <3>1. Timely(u, "subscribe")
      BY <2>1, <2>4 DEF Timely, Holds, Overtaken
    <3>2. op[u].of \ op[u].left \subseteq notifying \cup deaf
      BY <2>1, <3>1 DEF SubscribedHears
    <3>3. Overtaken(t)
      BY <2>1, <2>4, <3>1 DEF Timely, Holds, Overtaken, LockHeld
    <3> QED
      BY <2>1, <2>2, <2>4, <3>2, <3>3 DEF Switched
  <2> QED
    BY <2>3, <2>4
<1>12. ASSUME NEW t \in Actor, Fail(t) PROVE SubscribedHears'
  <2>1. /\ \/ UNCHANGED notifying
           \/ conn = op[t].target /\ \E c \in op[t].left : notifying' = Switched(op[t].kind, c)
        /\ deaf' = IF op[t].kind = "unsubscribe" /\ op[t].target = link THEN deaf \cup op[t].of ELSE deaf
        /\ pc[t] = "busy" /\ pc'[t] = "idle"
        /\ \A u \in Actor : u # t => pc'[u] = pc[u] /\ op'[u] = op[u]
        /\ UNCHANGED <<link, conn, listeners>>
    BY <1>12 DEF Fail, Finish, TypeOK, links
  <2>2. op[t].left \subseteq op[t].of /\ (op[t].left # {} => op[t].kind \in {"subscribe", "unsubscribe"})
    BY <2>1 DEF OpsOK, TypeOK, Op, Kind
  <2>3. conn = link => notifying \cup deaf \subseteq notifying' \cup deaf'
    BY <2>1, <2>2 DEF Switched
  <2> SUFFICES ASSUME conn' = link', NEW u \in Actor, Timely(u, "subscribe")'
               PROVE  op'[u].of \ op'[u].left \subseteq notifying' \cup deaf'
    BY DEF SubscribedHears
  <2>4. u # t /\ Timely(u, "subscribe")
    BY <2>1 DEF Timely, Holds, Overtaken
  <2> QED
    BY <2>1, <2>3, <2>4 DEF SubscribedHears
<1>13. ASSUME NEW t \in Actor, Listen(t) PROVE SubscribedHears'
  BY <1>13, MaxLinksAssumption DEF Listen, Finish, TypeOK, LinksOK, OpsOK, LockHeld,
     Holds, Timely, Overtaken, SubscribedHears, links, notes, NoOp, LinkId
<1>14. ASSUME NEW t \in Actor, StopListening(t) PROVE SubscribedHears'
  BY <1>14, MaxLinksAssumption DEF StopListening, Finish, TypeOK, LinksOK, OpsOK,
     LockHeld, Holds, Timely, Overtaken, SubscribedHears, links, notes, NoOp, LinkId
<1>15. CASE UNCHANGED vars
  BY <1>15 DEF vars, TypeOK, LinksOK, OpsOK, LockHeld, Holds, Timely, Overtaken,
     SubscribedHears, links, notes, NoOp, LinkId
<1> QED
  BY <1>1, <1>2, <1>3, <1>3a, <1>4, <1>5, <1>6, <1>7, <1>8, <1>9, <1>10, <1>11, <1>12, <1>13,
     <1>14, <1>15
     DEF Next, RunCallbacks, Proceed, AnswerOp

\* Who switches a characteristic off takes its listeners away.
LEMMA HearStep ==
  TypeOK /\ LinksOK /\ OpsOK /\ LockHeld /\ SubscribedHears /\ ListenersHear /\ [Next]_vars => ListenersHear'
<1> SUFFICES ASSUME TypeOK, LinksOK, OpsOK, LockHeld, SubscribedHears, ListenersHear, [Next]_vars
             PROVE  ListenersHear'
  OBVIOUS
<1>1. ASSUME Connect PROVE ListenersHear'
  BY <1>1, MaxLinksAssumption DEF Connect, TypeOK, LinksOK, OpsOK, LockHeld, Holds,
     Timely, Overtaken, SubscribedHears, ListenersHear, ListenersFree, links, notes, NoOp,
     LinkId
<1>2. ASSUME Lose PROVE ListenersHear'
  BY <1>2, MaxLinksAssumption DEF Lose, TypeOK, LinksOK, OpsOK, LockHeld, Holds, Timely,
     Overtaken, SubscribedHears, ListenersHear, ListenersFree, links, notes, NoOp, LinkId
<1>3. ASSUME Clear PROVE ListenersHear'
  BY <1>3, MaxLinksAssumption DEF Clear, Finish, TypeOK, LinksOK, OpsOK, LockHeld, Holds,
     Timely, Overtaken, SubscribedHears, ListenersHear, ListenersFree, links, notes, NoOp,
     LinkId
<1>3a. ASSUME Reuse PROVE ListenersHear'
  BY <1>3a, MaxLinksAssumption DEF Reuse, Finish, TypeOK, LinksOK, OpsOK, LockHeld, Holds,
     Timely, Overtaken, SubscribedHears, ListenersHear, ListenersFree, links, notes, NoOp,
     LinkId
<1>4. ASSUME TakeNote PROVE ListenersHear'
  BY <1>4, MaxLinksAssumption DEF TakeNote, TypeOK, LinksOK, OpsOK, LockHeld, Holds,
     Timely, Overtaken, SubscribedHears, ListenersHear, ListenersFree, links, notes, NoOp,
     LinkId
<1>5. ASSUME StartCallback PROVE ListenersHear'
  BY <1>5, MaxLinksAssumption DEF StartCallback, Begin, Goto, TypeOK, LinksOK, OpsOK,
     LockHeld, Holds, Timely, Overtaken, SubscribedHears, ListenersHear, ListenersFree,
     links, notes, NoOp, LinkId
<1>6. ASSUME EndCallback PROVE ListenersHear'
  BY <1>6, MaxLinksAssumption DEF EndCallback, TypeOK, LinksOK, OpsOK, LockHeld, Holds,
     Timely, Overtaken, SubscribedHears, ListenersHear, ListenersFree, links, notes, NoOp,
     LinkId
<1>7. ASSUME NEW c \in Charac, Notify(c) PROVE ListenersHear'
  BY <1>7, MaxLinksAssumption DEF Notify, TypeOK, LinksOK, OpsOK, LockHeld, Holds, Timely,
     Overtaken, SubscribedHears, ListenersHear, ListenersFree, links, notes, NoOp, LinkId
<1>8. ASSUME NEW t \in Task, StartOp(t) PROVE ListenersHear'
  BY <1>8, MaxLinksAssumption DEF StartOp, Begin, Goto, TypeOK, LinksOK, OpsOK, LockHeld,
     Holds, Timely, Overtaken, SubscribedHears, ListenersHear, ListenersFree, links,
     notes, NoOp, LinkId
<1>9. ASSUME NEW t \in Actor, Lock(t) PROVE ListenersHear'
  BY <1>9, LockFrame, MaxLinksAssumption, ActorAssumption DEF Finish, TypeOK, LinksOK,
     OpsOK, LockHeld, Holds, Timely, Overtaken, SubscribedHears, ListenersHear,
     ListenersFree, links, notes, NoOp, LinkId
<1>10. ASSUME NEW t \in Actor, Access(t) PROVE ListenersHear'
  <2>1. /\ pc[t] \in {"busy", "listening"} /\ pc'[t] = "idle"
        /\ \A u \in Actor : u # t => pc'[u] = pc[u] /\ op'[u] = op[u]
        /\ UNCHANGED <<link, conn, notifying, deaf>>
    BY <1>10 DEF Access, Finish, TypeOK, links
  <2>2. op[t].kind # "unsubscribe" /\ UNCHANGED listeners
    BY <1>10 DEF Access, OpsOK
  <2> SUFFICES ASSUME conn' = link', link' # 0, NEW l \in listeners', l.on = link'
               PROVE  \/ l.charac \in notifying' \cup deaf'
                      \/ \E u \in Actor : Timely(u, "unsubscribe")' /\ l.charac \in op'[u].of \ op'[u].left
    BY DEF ListenersHear
  <2>3. \A u \in Actor : Timely(u, "unsubscribe") => Timely(u, "unsubscribe")' /\ op'[u] = op[u]
    BY <2>1, <2>2 DEF Timely, Holds, Overtaken
  <2> QED
    BY <2>1, <2>2, <2>3 DEF ListenersHear
<1>11. ASSUME NEW t \in Actor, Switch(t) PROVE ListenersHear'
  <2>1. PICK c \in op[t].left :
          /\ notifying' = Switched(op[t].kind, c)
          /\ deaf' = CASE op[t].kind = "subscribe" -> deaf \ {c}
                       [] op[t].kind = "unsubscribe" /\ Overtaken(t) -> deaf \cup {c}
                       [] OTHER -> deaf
          /\ pc[t] = "busy"
          /\ conn = op[t].target /\ link = op[t].target
          /\ op'[t].kind = op[t].kind /\ op'[t].lock = op[t].lock
          /\ op'[t].target = op[t].target
          /\ op'[t].of = op[t].of /\ op'[t].left = op[t].left \ {c}
          /\ \A u \in Actor : u # t => pc'[u] = pc[u] /\ op'[u] = op[u]
          /\ link' = link /\ conn' = conn /\ UNCHANGED listeners
    BY <1>11, SwitchFrame DEF links
  <2>2. op[t].kind \in {"subscribe", "unsubscribe"}
    BY <2>1 DEF OpsOK, TypeOK, Op, Kind
  <2> SUFFICES ASSUME conn' = link', link' # 0, NEW l \in listeners', l.on = link'
               PROVE  \/ l.charac \in notifying' \cup deaf'
                      \/ \E u \in Actor : Timely(u, "unsubscribe")' /\ l.charac \in op'[u].of \ op'[u].left
    BY DEF ListenersHear
  <2>3. \A u \in Actor : Timely(u, "unsubscribe") =>
          Timely(u, "unsubscribe")' /\ op[u].of \ op[u].left \subseteq op'[u].of \ op'[u].left
    <3> SUFFICES ASSUME NEW u \in Actor, Timely(u, "unsubscribe")
                 PROVE  Timely(u, "unsubscribe")' /\ op[u].of \ op[u].left \subseteq op'[u].of \ op'[u].left
      OBVIOUS
    <3>1. Holds(t)'
      BY <1>11, SwitchFrame DEF Holds
    <3> QED
      BY <2>1, <3>1 DEF Timely, Holds, Overtaken
  <2>4. CASE l.charac \notin notifying \cup deaf
    BY <2>1, <2>3, <2>4 DEF ListenersHear
  <2>5. CASE l.charac \in notifying \cup deaf /\ l.charac # c
    BY <2>1, <2>5 DEF Switched
  <2>6. CASE l.charac = c /\ (op[t].kind = "subscribe" \/ Overtaken(t))
    BY <2>1, <2>2, <2>6 DEF Switched
  <2>7. CASE l.charac = c /\ op[t].kind = "unsubscribe" /\ ~Overtaken(t)
    <3>1. Holds(t)'
      BY <1>11, SwitchFrame DEF Holds
    <3>2. Timely(t, "unsubscribe")'
      BY <2>1, <2>7, <3>1 DEF Timely, Overtaken
    <3>3. c \in op'[t].of \ op'[t].left
      BY <2>1 DEF OpsOK
    <3> QED
      BY <2>7, <3>2, <3>3
  <2> QED
    BY <2>2, <2>4, <2>5, <2>6, <2>7
<1>12. ASSUME NEW t \in Actor, Fail(t) PROVE ListenersHear'
  <2>1. /\ \/ UNCHANGED notifying
           \/ conn = op[t].target /\ \E c \in op[t].left : notifying' = Switched(op[t].kind, c)
        /\ deaf' = IF op[t].kind = "unsubscribe" /\ op[t].target = link THEN deaf \cup op[t].of ELSE deaf
        /\ pc[t] = "busy" /\ pc'[t] = "idle"
        /\ \A u \in Actor : u # t => pc'[u] = pc[u] /\ op'[u] = op[u]
        /\ UNCHANGED <<link, conn, listeners>>
    BY <1>12 DEF Fail, Finish, TypeOK, links
  <2>2. op[t].left \subseteq op[t].of /\ (op[t].left # {} => op[t].kind \in {"subscribe", "unsubscribe"})
    BY <2>1 DEF OpsOK, TypeOK, Op, Kind
  <2>3. conn = link => notifying \cup deaf \subseteq notifying' \cup deaf'
    BY <2>1, <2>2 DEF Switched
  <2> SUFFICES ASSUME conn' = link', link' # 0, NEW l \in listeners', l.on = link'
               PROVE  \/ l.charac \in notifying' \cup deaf'
                      \/ \E u \in Actor : Timely(u, "unsubscribe")' /\ l.charac \in op'[u].of \ op'[u].left
    BY DEF ListenersHear
  <2>4. CASE l.charac \in notifying \cup deaf
    BY <2>1, <2>3, <2>4
  <2>5. CASE l.charac \notin notifying \cup deaf
    <3>1. PICK u \in Actor : Timely(u, "unsubscribe") /\ l.charac \in op[u].of \ op[u].left
      BY <2>1, <2>5 DEF ListenersHear
    <3>2. u = t => l.charac \in deaf'
      BY <2>1, <3>1 DEF Timely
    <3>3. u # t => Timely(u, "unsubscribe")' /\ op'[u] = op[u]
      BY <2>1, <3>1 DEF Timely, Holds, Overtaken
    <3> QED
      BY <3>1, <3>2, <3>3
  <2> QED
    BY <2>4, <2>5
<1>13. ASSUME NEW t \in Actor, Listen(t) PROVE ListenersHear'
  <2>1. /\ pc[t] \in {"busy", "listening"} /\ pc'[t] = "idle"
        /\ \A u \in Actor : u # t => pc'[u] = pc[u] /\ op'[u] = op[u]
        /\ UNCHANGED <<link, conn, notifying, deaf>>
    BY <1>13 DEF Listen, Finish, TypeOK, links
  <2> SUFFICES ASSUME conn' = link', link' # 0, NEW l \in listeners', l.on = link'
               PROVE  \/ l.charac \in notifying' \cup deaf'
                      \/ \E u \in Actor : Timely(u, "unsubscribe")' /\ l.charac \in op'[u].of \ op'[u].left
    BY DEF ListenersHear
  <2>2. \A u \in Actor : Timely(u, "unsubscribe") => Timely(u, "unsubscribe")' /\ op'[u] = op[u]
    BY <1>13, <2>1 DEF Listen, Timely, Holds, Overtaken
  <2>3. CASE l \in listeners
    BY <2>1, <2>2, <2>3 DEF ListenersHear
  <2>4. CASE l \notin listeners
    <3>1. op[t].target = link /\ l.charac \in op[t].of /\ l.on = op[t].lock
      BY <1>13, <2>4 DEF Listen
    <3>2. ~Overtaken(t)
      BY <2>1, <3>1 DEF Overtaken
    <3>3. Timely(t, "subscribe") /\ op[t].left = {}
      BY <1>13, <3>1, <3>2 DEF Listen, Timely, Holds, OpsOK
    <3> QED
      BY <2>1, <3>1, <3>2, <3>3 DEF SubscribedHears
  <2> QED
    BY <2>3, <2>4
<1>14. ASSUME NEW t \in Actor, StopListening(t) PROVE ListenersHear'
  BY <1>14, MaxLinksAssumption DEF StopListening, Finish, TypeOK, LinksOK, OpsOK,
     LockHeld, Holds, Timely, Overtaken, SubscribedHears, ListenersHear, ListenersFree,
     links, notes, NoOp, LinkId
<1>15. CASE UNCHANGED vars
  BY <1>15 DEF vars, TypeOK, LinksOK, OpsOK, LockHeld, Holds, Timely, Overtaken,
     SubscribedHears, ListenersHear, ListenersFree, links, notes, NoOp, LinkId
<1> QED
  BY <1>1, <1>2, <1>3, <1>3a, <1>4, <1>5, <1>6, <1>7, <1>8, <1>9, <1>10, <1>11, <1>12, <1>13,
     <1>14, <1>15
     DEF Next, RunCallbacks, Proceed, AnswerOp

\* Every variable keeps its type.
LEMMA TypeStep ==
  TypeOK /\ LinksOK /\ OpsOK /\ [Next]_vars => TypeOK'
<1> SUFFICES ASSUME TypeOK, LinksOK, OpsOK, [Next]_vars
             PROVE  TypeOK'
  OBVIOUS
<1>1. ASSUME Connect PROVE TypeOK'
  BY <1>1, MaxLinksAssumption, KindAssumption DEF Connect, TypeOK, LinksOK, OpsOK, links,
     notes, NoOp, Op, LinkId, Listener, Pc, Kind, Actor, Overtaken
<1>2. ASSUME Lose PROVE TypeOK'
  BY <1>2, MaxLinksAssumption, KindAssumption DEF Lose, TypeOK, LinksOK, OpsOK, links,
     notes, NoOp, Op, LinkId, Listener, Pc, Kind, Actor, Overtaken
<1>3. ASSUME Clear PROVE TypeOK'
  BY <1>3, MaxLinksAssumption, KindAssumption DEF Clear, Finish, TypeOK, LinksOK, OpsOK,
     links, notes, NoOp, Op, LinkId, Listener, Pc, Kind, Actor, Overtaken
<1>3a. ASSUME Reuse PROVE TypeOK'
  BY <1>3a, MaxLinksAssumption, KindAssumption DEF Reuse, Finish, TypeOK, LinksOK, OpsOK,
     links, notes, NoOp, Op, LinkId, Listener, Pc, Kind, Actor, Overtaken
<1>4. ASSUME TakeNote PROVE TypeOK'
  BY <1>4, MaxLinksAssumption, KindAssumption DEF TakeNote, TypeOK, LinksOK, OpsOK, links,
     notes, NoOp, Op, LinkId, Listener, Pc, Kind, Actor, Overtaken
<1>5. ASSUME StartCallback PROVE TypeOK'
  BY <1>5, MaxLinksAssumption, KindAssumption DEF StartCallback, Begin, Goto, TypeOK,
     LinksOK, OpsOK, links, notes, NoOp, Op, LinkId, Listener, Pc, Kind, Actor, Overtaken
<1>6. ASSUME EndCallback PROVE TypeOK'
  BY <1>6, MaxLinksAssumption, KindAssumption DEF EndCallback, TypeOK, LinksOK, OpsOK,
     links, notes, NoOp, Op, LinkId, Listener, Pc, Kind, Actor, Overtaken
<1>7. ASSUME NEW c \in Charac, Notify(c) PROVE TypeOK'
  BY <1>7, MaxLinksAssumption, KindAssumption DEF Notify, TypeOK, LinksOK, OpsOK, links,
     notes, NoOp, Op, LinkId, Listener, Pc, Kind, Actor, Overtaken
<1>8. ASSUME NEW t \in Task, StartOp(t) PROVE TypeOK'
  BY <1>8, MaxLinksAssumption, KindAssumption DEF StartOp, Begin, Goto, TypeOK, LinksOK,
     OpsOK, links, notes, NoOp, Op, LinkId, Listener, Pc, Kind, Actor, Overtaken
<1>9. ASSUME NEW t \in Actor, Lock(t) PROVE TypeOK'
  <2>1. CASE op[t].kind # "discover" /\ link = 0
    BY <1>9, <2>1 DEF Lock, Finish, TypeOK, links, notes, NoOp, Op, Pc, Kind
  <2>2. CASE ~(op[t].kind # "discover" /\ link = 0)
    <3>1. /\ pc' = [pc EXCEPT ![t] = "busy"] /\ pc[t] = "locking"
          /\ op' = [op EXCEPT ![t].target = IF op[t].kind = "discover" THEN @ ELSE link]
          /\ gattLock' = [gattLock EXCEPT ![op[t].lock] = t]
          /\ UNCHANGED <<links, notifying, listeners, notes, quiet, deaf>>
      BY <1>9, <2>2 DEF Lock, Goto
    <3>2. op' \in [Actor -> Op]
      BY <3>1 DEF TypeOK, Op
    <3>3. \A u \in Actor : pc'[u] # "idle" => op'[u].target # 0
      BY <1>9, <2>2, <3>1, LockFrame, MaxLinksAssumption DEF TypeOK, OpsOK, Finish
    <3>4. pc' \in [Actor -> Pc] /\ gattLock' \in [LinkId -> Actor \cup {None}]
      BY <3>1 DEF TypeOK, Pc
    <3> QED
      BY <3>1, <3>2, <3>3, <3>4 DEF TypeOK, links, notes
  <2> QED
    BY <2>1, <2>2
<1>10. ASSUME NEW t \in Actor, Access(t) PROVE TypeOK'
  BY <1>10, MaxLinksAssumption, KindAssumption DEF Access, Finish, TypeOK, LinksOK, OpsOK,
     links, notes, NoOp, Op, LinkId, Listener, Pc, Kind, Actor, Overtaken
<1>11. ASSUME NEW t \in Actor, Switch(t) PROVE TypeOK'
  <2>1. /\ pc[t] = "busy" /\ conn = op[t].target /\ link = conn /\ link # 0
    BY <1>11 DEF Switch, OpsOK, LinksOK
  <2>2. PICK c \in op[t].left :
          /\ notifying' = Switched(op[t].kind, c)
          /\ deaf' \in {deaf, deaf \cup {c}, deaf \ {c}}
          /\ \/ pc' = pc /\ op' = [op EXCEPT ![t].left = @ \ {c}]
             \/ /\ pc' = [pc EXCEPT ![t] = "listening"]
                /\ op' = [op EXCEPT ![t].left = {}, ![t].target = link]
          /\ UNCHANGED gattLock
    BY <1>11, <2>1 DEF Switch, Goto
  <2>3. op' \in [Actor -> Op] /\ pc' \in [Actor -> Pc]
    BY <2>2 DEF TypeOK, Op, Pc
  <2>4. \A u \in Actor : pc'[u] # "idle" => op'[u].target # 0
    BY <1>11, <2>1, SwitchFrame DEF TypeOK
  <2>5. notifying' \subseteq Charac /\ deaf' \subseteq Charac
    BY <2>2 DEF TypeOK, Op, Switched
  <2> QED
    BY <1>11, <2>2, <2>3, <2>4, <2>5 DEF Switch, TypeOK, links, notes
<1>12. ASSUME NEW t \in Actor, Fail(t) PROVE TypeOK'
  BY <1>12, MaxLinksAssumption, KindAssumption DEF Fail, Switched, Finish, TypeOK,
     LinksOK, OpsOK, links, notes, NoOp, Op, LinkId, Listener, Pc, Kind, Actor, Overtaken
<1>13. ASSUME NEW t \in Actor, Listen(t) PROVE TypeOK'
  <2>1. op[t].of \subseteq Charac
    BY DEF TypeOK, Op
  <2>2. op[t].lock \in LinkId
    BY <1>13, MaxLinksAssumption DEF Listen, OpsOK, TypeOK, LinkId
  <2>3. listeners' \subseteq Listener /\ quiet' \subseteq Charac
    BY <1>13, <2>1, <2>2 DEF Listen, Listener, TypeOK
  <2>4. /\ pc' = [pc EXCEPT ![t] = "idle"] /\ op' = [op EXCEPT ![t] = NoOp]
        /\ gattLock' = [l \in LinkId |-> IF gattLock[l] = t THEN None ELSE gattLock[l]]
        /\ UNCHANGED <<links, notifying, notes, deaf>>
    BY <1>13 DEF Listen, Finish
  <2>5. /\ pc' \in [Actor -> Pc] /\ op' \in [Actor -> Op]
        /\ \A u \in Actor : pc'[u] # "idle" => op'[u].target # 0
    BY <2>4, MaxLinksAssumption DEF TypeOK, NoOp, Op, Pc, Kind
  <2> QED
    BY <2>3, <2>4, <2>5 DEF TypeOK, links, notes
<1>14. ASSUME NEW t \in Actor, StopListening(t) PROVE TypeOK'
  BY <1>14, MaxLinksAssumption, KindAssumption DEF StopListening, Finish, TypeOK, LinksOK,
     OpsOK, links, notes, NoOp, Op, LinkId, Listener, Pc, Kind, Actor, Overtaken
<1>15. CASE UNCHANGED vars
  BY <1>15 DEF vars, TypeOK, LinksOK, OpsOK, links, notes, NoOp, Op, LinkId, Listener, Pc,
     Kind, Actor, Overtaken
<1> QED
  BY <1>1, <1>2, <1>3, <1>3a, <1>4, <1>5, <1>6, <1>7, <1>8, <1>9, <1>10, <1>11, <1>12, <1>13,
     <1>14, <1>15
     DEF Next, RunCallbacks, Proceed, AnswerOp

-----------------------------------------------------------------------------
(* The theorems. *)

LEMMA GattInit == Init => GattInv
<1> SUFFICES ASSUME Init PROVE GattInv
  OBVIOUS
<1>1. TypeOK
  BY MaxLinksAssumption DEF Init, TypeOK, NoOp, Op, Pc, Kind
<1>2. LinksOK /\ OpsOK /\ LockHeld
  BY DEF Init, LinksOK, OpsOK, LockHeld, Holds
<1>3. QuietIsSilent /\ SubscribedHears /\ ListenersHear
  BY DEF Init, QuietIsSilent, NoCallbackAfterUnsubscribe, SubscribedHears, ListenersHear,
         Timely, Holds
<1> QED
  BY <1>1, <1>2, <1>3 DEF GattInv

LEMMA GattStep == GattInv /\ [Next]_vars => GattInv'
  BY TypeStep, LinksStep, OpsStep, LockStep, QuietStep, SubscribedStep, HearStep DEF GattInv

LEMMA GattInvariance == Spec => []GattInv
  BY GattInit, GattStep, PTL DEF Spec

\* Every variable of the GATT operations (handler.rs) has its type in every
\* reachable state; above all, no operation runs on a device it did not find.
THEOREM GattTypeCorrect == Spec => []TypeOK
<1>1. GattInv => TypeOK
  BY DEF GattInv
<1> QED
  BY <1>1, GattInvariance, PTL

\* The gatt_lock keeps operations on one link apart, except for one that waited
\* for the lock of an earlier link to the device.
THEOREM OverlapExplained == Spec => []OverlapNeedsReconnect
<1>1. GattInv => OverlapNeedsReconnect
  <2> SUFFICES ASSUME GattInv, NEW l \in LinkId, NEW t \in Actor, NEW u \in Actor,
                      InFlight(t, l), InFlight(u, l), ~Overtaken(t), ~Overtaken(u)
               PROVE  t = u
    BY DEF OverlapNeedsReconnect
  <2>1. op[t].lock = l /\ op[u].lock = l
    BY DEF InFlight, Overtaken
  <2> QED
    BY <2>1 DEF GattInv, LockHeld, Holds, InFlight
<1> QED
  BY <1>1, GattInvariance, PTL

\* After unsubscribe_from has returned Ok, no callback of its characteristic runs,
\* whatever the device had notified of before.
THEOREM SilentAfterUnsubscribe == Spec => []NoCallbackAfterUnsubscribe
<1>1. GattInv => NoCallbackAfterUnsubscribe
  BY DEF GattInv, QuietIsSilent
<1> QED
  BY <1>1, GattInvariance, PTL

\* A listener hears the device once no operation is under way, unless an
\* unsubscribe failed or was overtaken by a new link.
THEOREM ListenersHeard == Spec => []ListenersAreHeard
<1>1. GattInv => ListenersAreHeard
  BY DEF GattInv, ListenersHear, ListenersAreHeard, Timely, Holds
<1> QED
  BY <1>1, GattInvariance, PTL
=============================================================================
