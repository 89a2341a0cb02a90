---------------------------- MODULE FrontEndsProofs ----------------------------
(***************************************************************************)
(* Proofs about FrontEnds, for any devices, apps, web views and channels.  *)
(***************************************************************************)
EXTENDS FrontEnds, SequenceTheorems, TLAPS

-----------------------------------------------------------------------------
(* The inductive invariants.                                               *)

\* The pump only clears links, and whoever holds the lock makes a report.
ActorsAreApart ==
  /\ pc[Pump] \in {"idle", "callback", "report", "close"} /\ after[Pump] = "idle"
  /\ lock # None => pc[lock] = "close"

\* Nothing is under way to a web view that does not listen.
DeafHearNothing ==
  \A v \in WebView \ listening : due[v] = <<>> /\ channel[v] = <<>>

\* A forwarder's channel is registered.
ForwardersListen ==
  \A v \in WebView : view[v] \in {"greet", "forwarding"} => v \in listening

HearingInv == ActorsAreApart /\ DeafHearNothing /\ ForwardersListen /\ EveryReportIsHeard

\* The report that is being made and has yet to be sent to a web view.
UnderWay(v) == IF lock # None /\ v \in left[lock] THEN <<Value(lock)>> ELSE <<>>

\* What a connect or the mirror's task is about to record is a link.
LinksAreRecorded ==
  /\ \A t \in App : pc[t] = "record" => read[t] # 0
  /\ event # None => seen # 0

\* Unless the mirror's last step came too late, a device without a link is shown
\* only until the callback of whoever cleared it ...
Removes(t, a) == pc[t] = "callback" /\ at[t] = a

ShownUntilCallback ==
  \A a \in mirror \ late : link[a] = 0 => \E t \in Actor : Removes(t, a)

\* ... and one that has a link is not shown only until its connect records it or
\* cannot.
Adds(t, a) ==
  /\ at[t] = a
  /\ \/ pc[t] \in {"report", "close"} /\ after[t] = "read"
     \/ pc[t] = "read"
     \/ pc[t] = "record" /\ read[t] = link[a]

HiddenUntilRecord ==
  \A a \in Addr \ (late \cup mirror) :
    link[a] # 0 /\ <<a, link[a]>> \notin unread => \E t \in App : Adds(t, a)

MirrorInv == LinksAreRecorded /\ ShownUntilCallback /\ HiddenUntilRecord

Inv == TypeOK /\ HearingInv /\ MirrorInv

-----------------------------------------------------------------------------
(* Types                                                                   *)

\* What is reported of a device is a report.
LEMMA ValueIsReport ==
  ASSUME TypeOK, NEW t \in Actor
  PROVE  Value(t) \in Report
  BY DEF TypeOK, Value, Report

\* What a forwarder receives is the first report its web view is due.
LEMMA ForwardedIsDue ==
  ASSUME TypeOK, HearingInv, NEW v \in WebView, view[v] = "forwarding", channel[v] # <<>>
  PROVE  /\ due[v] # <<>> /\ Tail(due[v]) \in Seq(Report)
         /\ Tail(due[v]) = Tail(channel[v]) \o UnderWay(v)
<1> USE NameAssumption
<1>1. v \in listening \ {Mirror} /\ channel[v] \in Seq(Report)
  BY DEF HearingInv, ForwardersListen, TypeOK, Listener
<1>2. due[v] = channel[v] \o UnderWay(v) /\ due[v] \in Seq(Report)
  BY <1>1 DEF HearingInv, EveryReportIsHeard, UnderWay, TypeOK
<1>3. CASE UnderWay(v) = <<>>
  <2>1. due[v] = channel[v]
    BY <1>1, <1>2, <1>3, ConcatEmptySeq
  <2>2. Tail(channel[v]) \in Seq(Report)
    BY <1>1, HeadTailProperties
  <2>3. Tail(channel[v]) \o <<>> = Tail(channel[v])
    BY <2>2, ConcatEmptySeq
  <2> QED
    BY <1>3, <2>1, <2>2, <2>3
<1>4. CASE UnderWay(v) # <<>>
  <2>1. UnderWay(v) = <<Value(lock)>> /\ Value(lock) \in Report
    BY <1>4, ValueIsReport DEF UnderWay, TypeOK
  <2>2. due[v] = Append(channel[v], Value(lock))
    BY <1>1, <1>2, <2>1, AppendIsConcat
  <2>3. Tail(due[v]) = Append(Tail(channel[v]), Value(lock))
    BY <1>1, <2>2, HeadTailAppend
  <2>4. Tail(channel[v]) \in Seq(Report)
    BY <1>1, HeadTailProperties
  <2>5. Append(Tail(channel[v]), Value(lock)) = Tail(channel[v]) \o <<Value(lock)>>
    BY <2>1, <2>4, AppendIsConcat
  <2>6. Append(Tail(channel[v]), Value(lock)) \in Seq(Report) /\ due[v] # <<>>
    BY <1>1, <2>1, <2>2, <2>4, AppendProperties
  <2> QED
    BY <2>1, <2>3, <2>5, <2>6
<1> QED
  BY <1>3, <1>4

\* Every step keeps the types.
LEMMA TypeStep == TypeOK /\ HearingInv /\ [Next]_vars => TypeOK'
<1> SUFFICES ASSUME TypeOK, HearingInv, [Next]_vars PROVE TypeOK'
  OBVIOUS
<1> USE NameAssumption, BoundsAssumption
<1> USE DEF links, actors, reports, mirrored, views, Goto, SetView
<1>0. Pump \in Actor /\ App \subseteq Actor /\ Mirror \in Listener /\ WebView \subseteq Listener
  BY DEF Actor, Listener
<1>1. ASSUME NEW t \in App, NEW a \in Addr, Connect(t, a) PROVE TypeOK'
  BY <1>0, <1>1 DEF Connect, ConnectEnds, Begin, TypeOK, ActorPc
<1>2. ASSUME NEW t \in App, NEW a \in Addr, Disconnect(t, a) PROVE TypeOK'
  BY <1>0, <1>2 DEF Disconnect, Begin, TypeOK, ActorPc
<1>3. ASSUME NEW a \in Addr, Lose(a) PROVE TypeOK'
  BY <1>0, <1>3 DEF Lose, Begin, TypeOK, ActorPc
<1>4. ASSUME NEW t \in Actor, ReadDevice(t) PROVE TypeOK'
  <2>1. at[t] \in Addr /\ link[at[t]] \in 0 .. MaxConnects
    BY DEF TypeOK
  <2>2. unread' \subseteq Addr \X (1 .. MaxConnects)
    <3>1. link[at[t]] # 0 => <<at[t], link[at[t]]>> \in Addr \X (1 .. MaxConnects)
      BY <2>1
    <3>2. unread' = unread \/ (link[at[t]] # 0 /\ unread' = unread \cup {<<at[t], link[at[t]]>>})
      BY <1>4 DEF ReadDevice
    <3> QED
      BY <3>1, <3>2 DEF TypeOK
  <2>3. pc' \in [Actor -> ActorPc] /\ read' \in [Actor -> 0 .. MaxConnects]
    BY <1>4, <2>1 DEF ReadDevice, TypeOK, ActorPc
  <2> QED
    BY <1>4, <2>2, <2>3 DEF ReadDevice, TypeOK
<1>5. ASSUME NEW t \in Actor, Record(t) PROVE TypeOK'
  BY <1>0, <1>5 DEF Record, Show, MarkLate, TypeOK, ActorPc
<1>6. ASSUME NEW t \in Actor, Sync(t) PROVE TypeOK'
  BY <1>0, <1>6 DEF Sync, TypeOK, ActorPc
<1>61. ASSUME NEW t \in Actor, Waited(t) PROVE TypeOK'
  <2>1. at[t] \in Addr /\ after[t] \in ActorPc
    BY DEF TypeOK, ActorPc
  <2>2. pc' \in [Actor -> ActorPc]
    <3>1. pc' = [pc EXCEPT ![t] = "callback"] \/ pc' = [pc EXCEPT ![t] = after[t]]
      BY <1>61 DEF Waited
    <3> QED
      BY <2>1, <3>1 DEF TypeOK, ActorPc
  <2>3. link' \in [Addr -> 0 .. MaxConnects]
    <3>1. link' = [link EXCEPT ![at[t]] = 0] \/ link' = link
      BY <1>61 DEF Waited
    <3> QED
      BY <3>1 DEF TypeOK
  <2> QED
    BY <1>61, <2>2, <2>3 DEF Waited, TypeOK
<1>62. ASSUME NEW t \in App, NEW a \in Addr, NEW u \in {t, Pump}, FailNew(t, a, u) PROVE TypeOK'
  BY <1>0, <1>62 DEF FailNew, ConnectEnds, Begin, TypeOK, ActorPc
<1>63. ASSUME NEW t \in App, NEW a \in Addr, FailKept(t, a) PROVE TypeOK'
  <2>1. /\ pc' \in [Actor -> ActorPc] /\ at' \in [Actor -> Addr]
        /\ after' \in [Actor -> {"idle", "read", "sync"}] /\ count' \in 0 .. MaxConnects
    <3>1. PICK where \in {"callback", "wait"} : Begin(t, a, where, "idle")
      BY <1>63 DEF FailKept
    <3>2. count' = count + 1 /\ count < MaxConnects
      BY <1>63 DEF FailKept, ConnectEnds
    <3> QED
      BY <1>0, <3>1, <3>2 DEF Begin, TypeOK, ActorPc
  <2>2. link' \in [Addr -> 0 .. MaxConnects]
    <3>1. link' = [link EXCEPT ![a] = 0] \/ link' = link
      BY <1>63 DEF FailKept
    <3>2. link \in [Addr -> 0 .. MaxConnects] /\ 0 \in 0 .. MaxConnects
      BY DEF TypeOK
    <3> QED
      BY <3>1, <3>2
  <2>3. read' \in [Actor -> 0 .. MaxConnects]
    <3>1. read' = [read EXCEPT ![t] = link[a]] \/ read' = read
      BY <1>63 DEF FailKept
    <3>2. link[a] \in 0 .. MaxConnects
      BY DEF TypeOK
    <3> QED
      BY <1>0, <3>1, <3>2 DEF TypeOK
  <2> QED
    BY <1>63, <2>1, <2>2, <2>3 DEF FailKept, TypeOK
<1>7. ASSUME NEW t \in Actor, BeginReport(t) PROVE TypeOK'
  <2>1. due' \in [WebView -> Seq(Report)]
    <3>1. \A v \in WebView : Append(due[v], Value(t)) \in Seq(Report) /\ due[v] \in Seq(Report)
      BY ValueIsReport, AppendProperties DEF TypeOK
    <3> QED
      BY <1>7, <3>1 DEF BeginReport
  <2> QED
    BY <1>0, <1>7, <2>1 DEF BeginReport, TypeOK, ActorPc
<1>8. ASSUME NEW t \in Actor, EndReport(t) PROVE TypeOK'
  BY <1>0, <1>8 DEF EndReport, TypeOK, ActorPc
<1>9. ASSUME NEW t \in Actor, NEW l \in Listener, Send(t, l) PROVE TypeOK'
  <2>1. channel' \in [Listener -> Seq(Report)] /\ \A k \in Listener : Len(channel'[k]) <= Capacity
    <3>1. CASE channel' = channel
      BY <3>1 DEF TypeOK
    <3>2. CASE /\ channel' = [channel EXCEPT ![l] = Append(channel[l], Value(t))]
               /\ Len(channel[l]) < Capacity
      <4>1. channel[l] \in Seq(Report)
        BY DEF TypeOK
      <4>2. /\ Append(channel[l], Value(t)) \in Seq(Report)
            /\ Len(Append(channel[l], Value(t))) = Len(channel[l]) + 1
        BY <4>1, ValueIsReport, AppendProperties
      <4>3. Len(channel[l]) \in Nat
        BY <4>1, LenProperties
      <4> QED
        BY <3>2, <4>2, <4>3 DEF TypeOK
    <3> QED
      BY <1>9, <3>1, <3>2 DEF Send
  <2>2. left' \in [Actor -> SUBSET Listener]
    BY <1>9 DEF Send, TypeOK
  <2> QED
    BY <1>0, <1>9, <2>1, <2>2 DEF Send, TypeOK
<1>10. ASSUME NEW t \in Actor, Callback(t) PROVE TypeOK'
  BY <1>0, <1>10 DEF Callback, Hide, MarkLate, TypeOK, ActorPc
<1>11. CASE TakeEvent
  <2> DEFINE c == channel[Mirror]
  <2>1. c \in Seq(Report) /\ c # <<>> /\ Len(c) <= Capacity /\ Len(c) \in Nat
    BY <1>0, <1>11, LenProperties DEF TakeEvent, TypeOK
  <2>2. Head(c) \in Report /\ Tail(c) \in Seq(Report) /\ Len(Tail(c)) <= Capacity
    BY <2>1, HeadTailProperties
  <2>3. channel' \in [Listener -> Seq(Report)] /\ \A k \in Listener : Len(channel'[k]) <= Capacity
    BY <1>0, <1>11, <2>2 DEF TakeEvent, TypeOK
  <2>4. Head(c).addr \in Addr
    BY <2>2 DEF Report
  <2>5. event' \in Addr \cup {None} /\ seen' \in 0 .. MaxConnects
    BY <1>11, <2>4 DEF TakeEvent, TypeOK
  <2>6. mirror' \subseteq Addr /\ late' \subseteq Addr /\ unread' \subseteq Addr \X (1 .. MaxConnects)
    BY <1>11, <2>4 DEF TakeEvent, Hide, MarkLate, TypeOK
  <2> QED
    BY <1>11, <2>3, <2>5, <2>6 DEF TakeEvent, TypeOK
<1>12. CASE RecordEvent
  BY <1>0, <1>12 DEF RecordEvent, Show, MarkLate, TypeOK
<1>13. CASE InitAndroid
  BY <1>0, <1>13 DEF InitAndroid, TypeOK
<1>14. ASSUME NEW v \in WebView, Check(v) PROVE TypeOK'
  BY <1>0, <1>14 DEF Check, TypeOK, ViewPc
<1>15. ASSUME NEW v \in WebView, Register(v) PROVE TypeOK'
  BY <1>0, <1>15 DEF Register, TypeOK, ViewPc
<1>16. ASSUME NEW v \in WebView, Greet(v) PROVE TypeOK'
  BY <1>0, <1>16 DEF Greet, TypeOK, ViewPc
<1>17. ASSUME NEW v \in WebView, Forward(v) PROVE TypeOK'
  <2> DEFINE c == channel[v]
  <2>1. c \in Seq(Report) /\ c # <<>> /\ Len(c) <= Capacity /\ Len(c) \in Nat
    BY <1>0, <1>17, LenProperties DEF Forward, TypeOK
  <2>2. Tail(c) \in Seq(Report) /\ Len(Tail(c)) <= Capacity
    BY <2>1, HeadTailProperties
  <2>3. /\ channel' \in [Listener -> Seq(Report)] /\ \A k \in Listener : Len(channel'[k]) <= Capacity
        /\ due' \in [WebView -> Seq(Report)]
    <3>1. CASE channel' = [channel EXCEPT ![v] = Tail(c)] /\ due' = [due EXCEPT ![v] = Tail(due[v])]
      <4>1. Tail(due[v]) \in Seq(Report)
        BY <1>17, ForwardedIsDue DEF Forward
      <4> QED
        BY <1>0, <2>2, <3>1, <4>1 DEF TypeOK
    <3>2. CASE channel' = [channel EXCEPT ![v] = <<>>] /\ due' = [due EXCEPT ![v] = <<>>]
      <4>1. <<>> \in Seq(Report) /\ Len(<<>>) = 0
        OBVIOUS
      <4> QED
        BY <1>0, <3>2, <4>1 DEF TypeOK
    <3> QED
      BY <1>17, <3>1, <3>2 DEF Forward
  <2>5. view' \in [WebView -> ViewPc] /\ listening' \subseteq Listener
    BY <1>17 DEF Forward, TypeOK, ViewPc
  <2> QED
    BY <1>17, <2>3, <2>5 DEF Forward, TypeOK
<1>18. CASE UNCHANGED vars
  BY <1>18 DEF vars, TypeOK
<1> QED
  BY <1>1, <1>2, <1>3, <1>4, <1>5, <1>6, <1>7, <1>8, <1>9, <1>10, <1>11, <1>12, <1>13,
     <1>14, <1>15, <1>16, <1>17, <1>18, <1>61, <1>62, <1>63
  DEF Next, Step, MirrorStep, ViewStep

-----------------------------------------------------------------------------
(* What web views hear.                                                    *)

\* What a step does that neither makes nor moves a report, of web views or actors.
HearingKept ==
  /\ lock' = lock /\ left' = left /\ listening' = listening /\ channel' = channel /\ due' = due
  /\ \A t \in Actor : pc[t] = "close" => pc'[t] = "close" /\ at'[t] = at[t] /\ after'[t] = after[t]
  /\ \A v \in WebView : view'[v] \in {"greet", "forwarding"} => view[v] \in {"greet", "forwarding"}

LEMMA KeptHearing ==
  ASSUME TypeOK, HearingInv, HearingKept, ActorsAreApart'
  PROVE  HearingInv'
<1>1. \A v : UnderWay(v)' = UnderWay(v)
  BY DEF TypeOK, HearingInv, ActorsAreApart, HearingKept, UnderWay, Value
<1>2. DeafHearNothing' /\ ForwardersListen'
  BY DEF HearingInv, HearingKept, DeafHearNothing, ForwardersListen
<1>3. \A v \in listening \ {Mirror} : due[v] = channel[v] \o UnderWay(v)
  BY DEF HearingInv, EveryReportIsHeard, UnderWay
<1>4. EveryReportIsHeard'
  <2>1. \A v \in listening' \ {Mirror} : due'[v] = channel'[v] \o UnderWay(v)'
    BY <1>1, <1>3 DEF HearingKept
  <2> QED
    BY <2>1 DEF EveryReportIsHeard, UnderWay
<1> QED
  BY <1>2, <1>4 DEF HearingInv

\* Every step keeps the pump and the apps apart.
LEMMA ApartStep == TypeOK /\ ActorsAreApart /\ [Next]_vars => ActorsAreApart'
<1> SUFFICES ASSUME TypeOK, ActorsAreApart, [Next]_vars PROVE ActorsAreApart'
  OBVIOUS
<1> USE NameAssumption
<1> USE DEF links, actors, reports, mirrored, views, Goto, SetView
<1>0. /\ Pump \in Actor /\ App \subseteq Actor /\ pc \in [Actor -> ActorPc]
      /\ after \in [Actor -> {"idle", "read", "sync"}]
      /\ Actor = App \cup {Pump} /\ lock \in Actor \cup {None}
  BY DEF Actor, TypeOK
<1>1. ASSUME NEW t \in App, NEW a \in Addr, Connect(t, a) PROVE ActorsAreApart'
  BY <1>0, <1>1 DEF Connect, ConnectEnds, Begin, ActorsAreApart
<1>2. ASSUME NEW t \in App, NEW a \in Addr, Disconnect(t, a) PROVE ActorsAreApart'
  BY <1>0, <1>2 DEF Disconnect, Begin, ActorsAreApart
<1>3. ASSUME NEW a \in Addr, Lose(a) PROVE ActorsAreApart'
  BY <1>0, <1>3 DEF Lose, Begin, ActorsAreApart
<1>4. ASSUME NEW t \in Actor, ReadDevice(t) PROVE ActorsAreApart'
  BY <1>0, <1>4 DEF ReadDevice, ActorsAreApart
<1>5. ASSUME NEW t \in Actor, Record(t) PROVE ActorsAreApart'
  BY <1>0, <1>5 DEF Record, ActorsAreApart
<1>6. ASSUME NEW t \in Actor, Sync(t) PROVE ActorsAreApart'
  BY <1>0, <1>6 DEF Sync, ActorsAreApart
<1>7. ASSUME NEW t \in Actor, BeginReport(t) PROVE ActorsAreApart'
  BY <1>0, <1>7 DEF BeginReport, ActorsAreApart
<1>8. ASSUME NEW t \in Actor, EndReport(t) PROVE ActorsAreApart'
  BY <1>0, <1>8 DEF EndReport, ActorsAreApart
<1>9. ASSUME NEW t \in Actor, NEW l \in Listener, Send(t, l) PROVE ActorsAreApart'
  BY <1>0, <1>9 DEF Send, ActorsAreApart
<1>10. ASSUME NEW t \in Actor, Callback(t) PROVE ActorsAreApart'
  BY <1>0, <1>10 DEF Callback, ActorsAreApart
<1>11. ASSUME NEW t \in Actor, Waited(t) PROVE ActorsAreApart'
  BY <1>0, <1>11 DEF Waited, ActorsAreApart
<1>12. ASSUME NEW t \in App, NEW a \in Addr, NEW u \in {t, Pump}, FailNew(t, a, u) PROVE ActorsAreApart'
  BY <1>0, <1>12 DEF FailNew, ConnectEnds, Begin, ActorsAreApart
<1>13. ASSUME NEW t \in App, NEW a \in Addr, FailKept(t, a) PROVE ActorsAreApart'
  BY <1>0, <1>13 DEF FailKept, ConnectEnds, Begin, ActorsAreApart
<1>14. CASE MirrorStep
  BY <1>0, <1>14 DEF MirrorStep, TakeEvent, RecordEvent, ActorsAreApart
<1>15. CASE InitAndroid
  BY <1>0, <1>15 DEF InitAndroid, ActorsAreApart
<1>16. ASSUME NEW v \in WebView, ViewStep(v) PROVE ActorsAreApart'
  BY <1>0, <1>16 DEF ViewStep, Check, Register, Greet, Forward, ActorsAreApart
<1>17. CASE UNCHANGED vars
  BY <1>17 DEF vars, ActorsAreApart
<1> QED
  BY <1>1, <1>2, <1>3, <1>4, <1>5, <1>6, <1>7, <1>8, <1>9, <1>10, <1>11, <1>12, <1>13,
     <1>14, <1>15, <1>16, <1>17
  DEF Next, Step

\* A report that begins is due to everybody who listens.
LEMMA BeginHearing ==
  ASSUME TypeOK, HearingInv, ActorsAreApart', NEW t \in Actor, BeginReport(t)
  PROVE  HearingInv'
<1> USE NameAssumption DEF Goto, links, mirrored
<1>0. t # None
  BY DEF Actor
<1>1. /\ listening' = listening /\ channel' = channel /\ view' = view
      /\ at' = at /\ after' = after /\ lock' = t /\ lock = None /\ left'[t] = listening
  BY DEF BeginReport, TypeOK
<1>2. \A v \in WebView : due'[v] = IF v \in listening THEN Append(due[v], Value(t)) ELSE due[v]
  BY DEF BeginReport
<1>3. DeafHearNothing' /\ ForwardersListen'
  BY <1>1, <1>2 DEF HearingInv, DeafHearNothing, ForwardersListen
<1>4. EveryReportIsHeard'
  <2> SUFFICES ASSUME NEW v \in listening \ {Mirror}
               PROVE  due'[v] = channel'[v] \o UnderWay(v)'
    BY <1>1 DEF EveryReportIsHeard, UnderWay
  <2>1. v \in WebView /\ v \in Listener
    BY DEF TypeOK, Listener
  <2>2. UnderWay(v)' = <<Value(t)>>
    BY <1>0, <1>1 DEF UnderWay, Value
  <2>3. due[v] = channel[v]
    <3>1. due[v] = channel[v] \o <<>>
      BY <1>1 DEF HearingInv, EveryReportIsHeard
    <3>2. channel[v] \in Seq(Report)
      BY <2>1 DEF TypeOK
    <3> QED
      BY <3>1, <3>2, ConcatEmptySeq
  <2>4. Append(channel[v], Value(t)) = channel[v] \o <<Value(t)>>
    BY <2>1, ValueIsReport, AppendIsConcat DEF TypeOK
  <2> QED
    BY <1>1, <1>2, <2>1, <2>2, <2>3, <2>4
<1> QED
  BY <1>3, <1>4 DEF HearingInv

\* It is sent to each of them, in order.
LEMMA SendHearing ==
  ASSUME TypeOK, HearingInv, ActorsAreApart', NEW t \in Actor, NEW l \in Listener, Send(t, l)
  PROVE  HearingInv'
<1> USE NameAssumption DEF links, actors, mirrored, views
<1>0. t # None
  BY DEF Actor
<1>1. /\ listening' = listening /\ view' = view /\ due' = due
      /\ at' = at /\ after' = after /\ lock' = lock /\ lock = t /\ left'[t] = left[t] \ {l} /\ l \in left[t]
      /\ channel' = IF l \in listening THEN [channel EXCEPT ![l] = Append(channel[l], Value(t))]
                                       ELSE channel
  BY DEF Send, TypeOK
<1>2. \A k \in Listener : k # l \/ l \notin listening => channel'[k] = channel[k]
  BY <1>1 DEF TypeOK
<1>3. DeafHearNothing' /\ ForwardersListen'
  BY <1>1, <1>2 DEF HearingInv, DeafHearNothing, ForwardersListen, Listener
<1>4. EveryReportIsHeard'
  <2> SUFFICES ASSUME NEW v \in listening \ {Mirror}
               PROVE  due'[v] = channel'[v] \o UnderWay(v)'
    BY <1>1 DEF EveryReportIsHeard, UnderWay
  <2>1. v \in WebView /\ v \in Listener /\ due[v] = channel[v] \o UnderWay(v)
    BY DEF TypeOK, Listener, HearingInv, EveryReportIsHeard, UnderWay
  <2>2. CASE v # l
    <3>1. UnderWay(v)' = UnderWay(v)
      BY <1>1, <2>2 DEF UnderWay, Value
    <3> QED
      BY <1>1, <1>2, <2>1, <2>2, <3>1
  <2>3. CASE v = l
    <3>1. UnderWay(v) = <<Value(t)>> /\ UnderWay(v)' = <<>>
      BY <1>0, <1>1, <2>3 DEF UnderWay
    <3>2. channel[v] \in Seq(Report) /\ Value(t) \in Report
      BY <2>1, ValueIsReport DEF TypeOK
    <3>3. channel'[v] = channel[v] \o <<Value(t)>> /\ channel'[v] \in Seq(Report)
      <4>1. channel'[v] = Append(channel[v], Value(t))
        BY <1>1, <2>1, <2>3 DEF TypeOK
      <4> QED
        BY <3>2, <4>1, AppendIsConcat, AppendProperties
    <3>4. channel'[v] \o <<>> = channel'[v]
      BY <3>3, ConcatEmptySeq
    <3> QED
      BY <1>1, <2>1, <3>1, <3>3, <3>4
  <2> QED
    BY <2>2, <2>3
<1> QED
  BY <1>3, <1>4 DEF HearingInv

\* With nobody left to tell, the report is over.
LEMMA EndHearing ==
  ASSUME TypeOK, HearingInv, ActorsAreApart', NEW t \in Actor, EndReport(t)
  PROVE  HearingInv'
<1>1. /\ listening' = listening /\ view' = view /\ due' = due /\ channel' = channel
      /\ lock = t /\ lock' = None /\ left[t] = {}
  BY DEF EndReport, views
<1>2. DeafHearNothing' /\ ForwardersListen'
  BY <1>1 DEF HearingInv, DeafHearNothing, ForwardersListen
<1>3. \A v : UnderWay(v) = <<>> /\ UnderWay(v)' = <<>>
  BY <1>1 DEF UnderWay
<1>4. \A v \in listening \ {Mirror} : due[v] = channel[v] \o UnderWay(v)
  BY DEF HearingInv, EveryReportIsHeard, UnderWay
<1>5. \A v \in listening' \ {Mirror} : due'[v] = channel'[v] \o UnderWay(v)'
  BY <1>1, <1>3, <1>4
<1>6. EveryReportIsHeard'
  BY <1>5 DEF EveryReportIsHeard, UnderWay
<1> QED
  BY <1>2, <1>6 DEF HearingInv

\* A web view that registers is due nothing yet.
LEMMA RegisterHearing ==
  ASSUME TypeOK, HearingInv, ActorsAreApart', NEW v \in WebView, Register(v)
  PROVE  HearingInv'
<1> USE NameAssumption DEF actors, mirrored, reports, SetView
<1>1. /\ due' = due /\ channel' = channel /\ lock' = None /\ lock = None
      /\ listening' = listening \cup {v} /\ \A w \in WebView \ {v} : view'[w] = view[w]
  BY DEF Register, TypeOK
<1>2. DeafHearNothing' /\ ForwardersListen'
  BY <1>1 DEF HearingInv, DeafHearNothing, ForwardersListen
<1>3. \A w : UnderWay(w) = <<>> /\ UnderWay(w)' = <<>>
  BY <1>1 DEF UnderWay
<1>4. \A w \in listening' \ {Mirror} : due'[w] = channel'[w] \o UnderWay(w)'
  <2>1. \A w \in listening \ {Mirror} : due[w] = channel[w] \o <<>>
    BY <1>3 DEF HearingInv, EveryReportIsHeard, UnderWay
  <2>2. v \notin listening => due[v] = channel[v] \o <<>>
    <3>1. v \notin listening => due[v] = <<>> /\ channel[v] = <<>>
      BY DEF HearingInv, DeafHearNothing
    <3>2. <<>> \o <<>> = <<>>
      OBVIOUS
    <3> QED
      BY <3>1, <3>2
  <2> QED
    BY <1>1, <1>3, <2>1, <2>2
<1>5. EveryReportIsHeard'
  BY <1>4 DEF EveryReportIsHeard, UnderWay
<1> QED
  BY <1>2, <1>5 DEF HearingInv

\* A forwarder passes on what its web view is due next, or stops listening.
LEMMA ForwardHearing ==
  ASSUME TypeOK, HearingInv, ActorsAreApart', NEW v \in WebView, Forward(v)
  PROVE  HearingInv'
<1> USE NameAssumption DEF actors, mirrored, reports, SetView
<1>0. v \in Listener /\ v # Mirror /\ v \in listening
  BY DEF Listener, Forward, HearingInv, ForwardersListen
<1>1. /\ lock' = lock /\ left' = left /\ at' = at /\ after' = after
      /\ \A w \in Listener \ {v} : channel'[w] = channel[w]
      /\ \A w \in WebView \ {v} : due'[w] = due[w] /\ view'[w] = view[w]
      /\ listening \ {v} \subseteq listening' /\ listening' \subseteq listening
  BY <1>0 DEF Forward, TypeOK
<1>2. \A w : UnderWay(w)' = UnderWay(w)
  BY <1>1 DEF UnderWay, Value
<1>3. \A w \in listening' \ {Mirror, v} : due'[w] = channel'[w] \o UnderWay(w)'
  <2>1. \A w \in listening \ {Mirror} : w \in WebView /\ w \in Listener /\ due[w] = channel[w] \o UnderWay(w)
    BY DEF TypeOK, Listener, HearingInv, EveryReportIsHeard, UnderWay
  <2> QED
    BY <1>1, <1>2, <2>1
<1>4. CASE /\ channel' = [channel EXCEPT ![v] = Tail(channel[v])]
           /\ due' = [due EXCEPT ![v] = Tail(due[v])]
           /\ view' = view /\ listening' = listening
  <2>1. due'[v] = channel'[v] \o UnderWay(v)'
    BY <1>0, <1>2, <1>4, ForwardedIsDue DEF Forward, TypeOK
  <2>2. DeafHearNothing' /\ ForwardersListen'
    BY <1>0, <1>1, <1>4 DEF HearingInv, DeafHearNothing, ForwardersListen, Listener
  <2>3. EveryReportIsHeard'
    BY <1>3, <2>1 DEF EveryReportIsHeard, UnderWay
  <2> QED
    BY <2>2, <2>3 DEF HearingInv
<1>5. CASE /\ channel' = [channel EXCEPT ![v] = <<>>] /\ due' = [due EXCEPT ![v] = <<>>]
           /\ view' = [view EXCEPT ![v] = "ended"] /\ listening' = listening \ {v}
  <2>1. due'[v] = <<>> /\ channel'[v] = <<>> /\ view'[v] = "ended"
    BY <1>0, <1>5 DEF TypeOK
  <2>2. DeafHearNothing' /\ ForwardersListen'
    BY <1>1, <1>5, <2>1 DEF HearingInv, DeafHearNothing, ForwardersListen, Listener
  <2>3. EveryReportIsHeard'
    BY <1>3, <1>5 DEF EveryReportIsHeard, UnderWay
  <2> QED
    BY <2>2, <2>3 DEF HearingInv
<1> QED
  BY <1>4, <1>5 DEF Forward

\* Every step keeps what web views are due.
LEMMA HearStep == TypeOK /\ HearingInv /\ [Next]_vars => HearingInv'
<1> SUFFICES ASSUME TypeOK, HearingInv, [Next]_vars PROVE HearingInv'
  OBVIOUS
<1> USE NameAssumption
<1> USE DEF links, actors, reports, mirrored, views, Goto, SetView
<1>0. Pump \in Actor /\ App \subseteq Actor /\ Mirror \notin WebView
  BY DEF Actor
<1>a. ActorsAreApart'
  BY ApartStep DEF HearingInv
<1>b. HearingKept => HearingInv'
  BY <1>a, KeptHearing
<1>1. ASSUME NEW t \in App, NEW a \in Addr, Connect(t, a) PROVE HearingInv'
  BY <1>0, <1>1, <1>b DEF Connect, ConnectEnds, Begin, HearingKept, TypeOK
<1>2. ASSUME NEW t \in App, NEW a \in Addr, Disconnect(t, a) PROVE HearingInv'
  BY <1>0, <1>2, <1>b DEF Disconnect, Begin, HearingKept, TypeOK
<1>3. ASSUME NEW a \in Addr, Lose(a) PROVE HearingInv'
  BY <1>0, <1>3, <1>b DEF Lose, Begin, HearingKept, TypeOK
<1>4. ASSUME NEW t \in Actor, ReadDevice(t) PROVE HearingInv'
  BY <1>0, <1>4, <1>b DEF ReadDevice, HearingKept, TypeOK
<1>5. ASSUME NEW t \in Actor, Record(t) PROVE HearingInv'
  BY <1>0, <1>5, <1>b DEF Record, HearingKept, TypeOK
<1>6. ASSUME NEW t \in Actor, Sync(t) PROVE HearingInv'
  BY <1>0, <1>6, <1>b DEF Sync, HearingKept, TypeOK
<1>61. ASSUME NEW t \in Actor, Waited(t) PROVE HearingInv'
  BY <1>0, <1>61, <1>b DEF Waited, HearingKept, TypeOK
<1>62. ASSUME NEW t \in App, NEW a \in Addr, NEW u \in {t, Pump}, FailNew(t, a, u) PROVE HearingInv'
  BY <1>0, <1>62, <1>b DEF FailNew, ConnectEnds, Begin, HearingKept, TypeOK
<1>63. ASSUME NEW t \in App, NEW a \in Addr, FailKept(t, a) PROVE HearingInv'
  BY <1>0, <1>63, <1>b DEF FailKept, ConnectEnds, Begin, HearingKept, TypeOK
<1>7. ASSUME NEW t \in Actor, BeginReport(t) PROVE HearingInv'
  BY <1>7, <1>a, BeginHearing
<1>8. ASSUME NEW t \in Actor, EndReport(t) PROVE HearingInv'
  BY <1>8, <1>a, EndHearing
<1>9. ASSUME NEW t \in Actor, NEW l \in Listener, Send(t, l) PROVE HearingInv'
  BY <1>9, <1>a, SendHearing
<1>10. ASSUME NEW t \in Actor, Callback(t) PROVE HearingInv'
  BY <1>0, <1>10, <1>b DEF Callback, HearingKept, TypeOK
<1>11. CASE TakeEvent
  <2>1. /\ lock' = lock /\ left' = left /\ listening' = listening /\ due' = due /\ at' = at
        /\ after' = after
        /\ view' = view
        /\ \A l \in WebView : channel'[l] = channel[l]
    BY <1>0, <1>11 DEF TakeEvent, TypeOK, Listener
  <2>2. \A v : UnderWay(v)' = UnderWay(v)
    BY <2>1 DEF UnderWay, Value
  <2>3. DeafHearNothing' /\ ForwardersListen'
    BY <2>1 DEF HearingInv, DeafHearNothing, ForwardersListen
  <2>4. \A v \in listening \ {Mirror} : v \in WebView /\ due[v] = channel[v] \o UnderWay(v)
    BY DEF HearingInv, EveryReportIsHeard, UnderWay, TypeOK, Listener
  <2>5. \A v \in listening' \ {Mirror} : due'[v] = channel'[v] \o UnderWay(v)'
    BY <2>1, <2>2, <2>4
  <2>6. EveryReportIsHeard'
    BY <2>5 DEF EveryReportIsHeard, UnderWay
  <2> QED
    BY <1>a, <2>3, <2>6 DEF HearingInv
<1>12. CASE RecordEvent
  BY <1>0, <1>12, <1>b DEF RecordEvent, HearingKept, TypeOK
<1>13. CASE InitAndroid
  BY <1>0, <1>13, <1>b DEF InitAndroid, HearingKept, TypeOK
<1>14. ASSUME NEW v \in WebView, Check(v) PROVE HearingInv'
  BY <1>0, <1>14, <1>b DEF Check, HearingKept, TypeOK
<1>15. ASSUME NEW v \in WebView, Register(v) PROVE HearingInv'
  BY <1>15, <1>a, RegisterHearing
<1>16. ASSUME NEW v \in WebView, Greet(v) PROVE HearingInv'
  BY <1>0, <1>16, <1>b DEF Greet, HearingKept, TypeOK
<1>17. ASSUME NEW v \in WebView, Forward(v) PROVE HearingInv'
  BY <1>17, <1>a, ForwardHearing
<1>18. CASE UNCHANGED vars
  BY <1>18, <1>b DEF vars, HearingKept
<1> QED
  BY <1>1, <1>2, <1>3, <1>4, <1>5, <1>6, <1>7, <1>8, <1>9, <1>10, <1>11, <1>12, <1>13,
     <1>14, <1>15, <1>16, <1>17, <1>18, <1>61, <1>62, <1>63
  DEF Next, Step, MirrorStep, ViewStep

-----------------------------------------------------------------------------
(* What the app shows.                                                     *)

\* What a step does that changes neither links nor what is shown of them.
MirrorKept ==
  /\ link' = link /\ mirror' = mirror /\ late' = late /\ unread' = unread
  /\ event' = event /\ seen' = seen /\ at' = at /\ read' = read /\ after' = after
  /\ \A t \in App : pc'[t] = "record" <=> pc[t] = "record"
  /\ \A t \in Actor : pc[t] = "callback" => pc'[t] = "callback"
  /\ \A t \in App : pc[t] = "read" => pc'[t] = "read"
  /\ \A t \in App : pc[t] \in {"report", "close"} =>
       pc'[t] \in {"report", "close"} \/ pc'[t] = after[t]

LEMMA KeptMirror ==
  ASSUME MirrorInv, MirrorKept
  PROVE  MirrorInv'
<1>1. LinksAreRecorded' /\ ShownUntilCallback'
  BY DEF MirrorInv, MirrorKept, LinksAreRecorded, ShownUntilCallback, Removes
<1>2. \A t \in App, a \in Addr : Adds(t, a) => Adds(t, a)'
  BY DEF MirrorKept, Adds
<1>3. HiddenUntilRecord'
  BY <1>2 DEF MirrorInv, MirrorKept, HiddenUntilRecord
<1> QED
  BY <1>1, <1>3 DEF MirrorInv

\* A step on the mirror is in time if the link it is about is the device's.
LEMMA RecordsMirror ==
  ASSUME TypeOK, MirrorInv, NEW b \in Addr, NEW l, l # 0,
         Show(b, l), link' = link, LinksAreRecorded',
         \A t \in Actor, a \in Addr : Removes(t, a) => Removes(t, a)',
         \A t \in App, a \in Addr : Adds(t, a) => Adds(t, a)' \/ (a = b /\ l = link[a])
  PROVE  MirrorInv'
<1>1. /\ mirror' = mirror \cup {b} /\ link' = link
      /\ \A a \in Addr \ late' : a # b => a \notin late
      /\ \A a \in Addr : \A k : a # b /\ <<a, k>> \notin unread' => <<a, k>> \notin unread
  BY DEF Show, MarkLate
<1>2. b \notin late' => link[b] = l
  BY DEF Show, MarkLate
<1>3. ShownUntilCallback'
  <2> SUFFICES ASSUME NEW a \in mirror' \ late', link'[a] = 0
               PROVE  \E t \in Actor : Removes(t, a)'
    BY DEF ShownUntilCallback
  <2>1. a \in Addr /\ a # b /\ a \in mirror \ late /\ link[a] = 0
    BY <1>1, <1>2 DEF TypeOK
  <2> QED
    BY <2>1 DEF MirrorInv, ShownUntilCallback
<1>4. HiddenUntilRecord'
  <2> SUFFICES ASSUME NEW a \in Addr \ (late' \cup mirror'), link'[a] # 0, <<a, link'[a]>> \notin unread'
               PROVE  \E t \in App : Adds(t, a)'
    BY DEF HiddenUntilRecord
  <2>1. a # b /\ a \notin late /\ a \notin mirror /\ link[a] # 0 /\ <<a, link[a]>> \notin unread
    BY <1>1
  <2> QED
    BY <2>1 DEF MirrorInv, HiddenUntilRecord
<1> QED
  BY <1>3, <1>4 DEF MirrorInv

\* Taking a device out of the mirror is in time if it has no link.
LEMMA RemovesMirror ==
  ASSUME TypeOK, MirrorInv, NEW b \in Addr,
         Hide(b), link' = link, LinksAreRecorded',
         \A t \in Actor, a \in Addr \ {b} : Removes(t, a) => Removes(t, a)',
         \A t \in App, a \in Addr : Adds(t, a) => Adds(t, a)'
  PROVE  MirrorInv'
<1>1. /\ mirror' = mirror \ {b} /\ link' = link /\ unread' = unread
      /\ \A a \in Addr \ late' : a # b => a \notin late
      /\ b \notin late' => link[b] = 0
  BY DEF Hide, MarkLate
<1>2. ShownUntilCallback'
  <2> SUFFICES ASSUME NEW a \in mirror' \ late', link'[a] = 0
               PROVE  \E t \in Actor : Removes(t, a)'
    BY DEF ShownUntilCallback
  <2>1. a \in Addr \ {b} /\ a \in mirror \ late /\ link[a] = 0
    BY <1>1 DEF TypeOK
  <2> QED
    BY <2>1 DEF MirrorInv, ShownUntilCallback
<1>3. HiddenUntilRecord'
  <2> SUFFICES ASSUME NEW a \in Addr \ (late' \cup mirror'), link'[a] # 0, <<a, link'[a]>> \notin unread'
               PROVE  \E t \in App : Adds(t, a)'
    BY DEF HiddenUntilRecord
  <2>1. a # b /\ a \notin late /\ a \notin mirror /\ link[a] # 0 /\ <<a, link[a]>> \notin unread
    BY <1>1
  <2> QED
    BY <2>1 DEF MirrorInv, HiddenUntilRecord
<1> QED
  BY <1>2, <1>3 DEF MirrorInv

\* A step that changes no link and nothing that is shown, and in which only t
\* moves, and not from a callback or towards a record.
LEMMA MovesMirror ==
  ASSUME TypeOK, MirrorInv, NEW t \in Actor,
         link' = link, mirror' = mirror, late' = late, event' = event, seen' = seen,
         \A u \in Actor \ {t} : pc'[u] = pc[u] /\ at'[u] = at[u] /\ read'[u] = read[u] /\ after'[u] = after[u],
         pc[t] # "callback", pc'[t] # "record" \/ read'[t] # 0, unread \subseteq unread',
         \A a \in Addr : t \in App /\ Adds(t, a) /\ link[a] # 0 => Adds(t, a)' \/ <<a, link[a]>> \in unread'
  PROVE  MirrorInv'
<1>0. App \subseteq Actor
  BY DEF Actor
<1>1. LinksAreRecorded'
  BY <1>0 DEF MirrorInv, LinksAreRecorded
<1>2. \A u \in Actor, a \in Addr : Removes(u, a) => Removes(u, a)'
  BY DEF Removes
<1>3. ShownUntilCallback'
  BY <1>2 DEF MirrorInv, ShownUntilCallback, TypeOK
<1>4. \A u \in App, a \in Addr : Adds(u, a) /\ link[a] # 0 => Adds(u, a)' \/ <<a, link[a]>> \in unread'
  BY <1>0 DEF Adds
<1>5. HiddenUntilRecord'
  BY <1>4 DEF MirrorInv, HiddenUntilRecord
<1> QED
  BY <1>1, <1>3, <1>5 DEF MirrorInv

\* A link that is cleared is shown until the callback of t, who cleared it.
LEMMA ClearsMirror ==
  ASSUME TypeOK, MirrorInv, NEW t \in Actor, NEW b \in Addr,
         link' = [link EXCEPT ![b] = 0], UNCHANGED mirrored, read' = read,
         pc[t] \in {"idle", "wait"}, pc'[t] = "callback", at'[t] = b,
         \A u \in Actor \ {t} : pc'[u] = pc[u] /\ at'[u] = at[u] /\ after'[u] = after[u]
  PROVE  MirrorInv'
<1>0. App \subseteq Actor /\ link'[b] = 0 /\ \A a \in Addr \ {b} : link'[a] = link[a]
  BY DEF Actor, TypeOK
<1>1. LinksAreRecorded'
  BY <1>0 DEF MirrorInv, LinksAreRecorded, mirrored
<1>2. Removes(t, b)' /\ \A u \in Actor, a \in Addr : Removes(u, a) => Removes(u, a)'
  BY DEF Removes
<1>3. ShownUntilCallback'
  BY <1>0, <1>2 DEF MirrorInv, ShownUntilCallback, TypeOK, mirrored
<1>4. \A u \in App, a \in Addr \ {b} : Adds(u, a) => Adds(u, a)'
  BY <1>0 DEF Adds
<1>5. HiddenUntilRecord'
  BY <1>0, <1>4 DEF MirrorInv, HiddenUntilRecord, mirrored
<1> QED
  BY <1>1, <1>3, <1>5 DEF MirrorInv

\* Every step keeps what is said of the mirror.
LEMMA MirrorInvStep == TypeOK /\ ActorsAreApart /\ MirrorInv /\ [Next]_vars => MirrorInv'
<1> SUFFICES ASSUME TypeOK, ActorsAreApart, MirrorInv, [Next]_vars PROVE MirrorInv'
  OBVIOUS
<1> USE NameAssumption
<1> USE DEF links, actors, reports, mirrored, views, Goto, SetView
<1>0. /\ Pump \in Actor /\ App \subseteq Actor /\ Actor = App \cup {Pump} /\ Mirror \in Listener
      /\ pc \in [Actor -> ActorPc] /\ at \in [Actor -> Addr] /\ read \in [Actor -> 0 .. MaxConnects]
      /\ after \in [Actor -> {"idle", "read", "sync"}]
      /\ link \in [Addr -> 0 .. MaxConnects] /\ count \in 0 .. MaxConnects
      /\ mirror \subseteq Addr
  BY DEF Actor, TypeOK, Listener
<1>1. ASSUME NEW t \in App, NEW a \in Addr, Connect(t, a) PROVE MirrorInv'
  <2>1. /\ pc[t] = "idle" /\ pc'[t] = "report" /\ at'[t] = a /\ after'[t] = "read"
        /\ \A u \in Actor \ {t} : pc'[u] = pc[u] /\ at'[u] = at[u] /\ after'[u] = after[u]
        /\ read' = read /\ mirror' = mirror /\ late' = late /\ event' = event /\ seen' = seen
        /\ unread' = unread
    BY <1>0, <1>1 DEF Connect, Begin
  <2>2. /\ link'[a] # 0 /\ (link[a] # 0 => link' = link)
        /\ \A b \in Addr \ {a} : link'[b] = link[b]
    BY <1>0, <1>1 DEF Connect
  <2>3. LinksAreRecorded'
    BY <1>0, <2>1, <2>2 DEF MirrorInv, LinksAreRecorded
  <2>4. ShownUntilCallback'
    <3>1. \A u \in Actor, b \in Addr : Removes(u, b) => Removes(u, b)'
      BY <1>0, <2>1 DEF Removes
    <3> QED
      BY <1>0, <2>1, <2>2, <3>1 DEF MirrorInv, ShownUntilCallback
  <2>5. HiddenUntilRecord'
    <3>1. Adds(t, a)'
      BY <2>1 DEF Adds
    <3>2. \A u \in App, b \in Addr \ {a} : Adds(u, b) => Adds(u, b)'
      BY <1>0, <2>1, <2>2 DEF Adds
    <3> QED
      BY <2>1, <2>2, <3>1, <3>2 DEF MirrorInv, HiddenUntilRecord
  <2> QED
    BY <2>3, <2>4, <2>5 DEF MirrorInv
<1>2. ASSUME NEW t \in App, NEW a \in Addr, Disconnect(t, a) PROVE MirrorInv'
  <2>1. /\ pc[t] = "idle" /\ pc'[t] = "wait" /\ UNCHANGED mirrored /\ link' = link
        /\ \A u \in Actor \ {t} : pc'[u] = pc[u] /\ at'[u] = at[u] /\ read'[u] = read[u] /\ after'[u] = after[u]
    BY <1>0, <1>2 DEF Disconnect, Begin
  <2>2. \A b \in Addr : ~Adds(t, b)
    BY <2>1 DEF Adds
  <2> QED
    BY <1>0, <2>1, <2>2, MovesMirror
<1>3. ASSUME NEW a \in Addr, Lose(a) PROVE MirrorInv'
  <2>1. /\ pc[Pump] = "idle" /\ pc'[Pump] = "callback" /\ at'[Pump] = a
        /\ \A u \in Actor \ {Pump} : pc'[u] = pc[u] /\ at'[u] = at[u] /\ after'[u] = after[u]
        /\ link' = [link EXCEPT ![a] = 0] /\ read' = read /\ UNCHANGED mirrored
    BY <1>0, <1>3 DEF Lose, Begin
  <2> QED
    BY <1>0, <2>1, ClearsMirror
<1>31. ASSUME NEW t \in App, NEW a \in Addr, NEW u \in {t, Pump}, FailNew(t, a, u) PROVE MirrorInv'
  <2>0. u \in Actor
    BY <1>0
  <2>1. /\ pc[u] = "idle" /\ pc'[u] = "report" /\ UNCHANGED mirrored /\ link' = link
        /\ \A w \in Actor \ {u} : pc'[w] = pc[w] /\ at'[w] = at[w] /\ read'[w] = read[w] /\ after'[w] = after[w]
    BY <1>0, <1>31, <2>0 DEF FailNew, Begin
  <2>2. \A b \in Addr : ~Adds(u, b)
    BY <2>1 DEF Adds
  <2> QED
    BY <2>0, <2>1, <2>2, MovesMirror
<1>32. ASSUME NEW t \in App, NEW a \in Addr, FailKept(t, a) PROVE MirrorInv'
  <2>1. /\ pc[t] = "idle" /\ UNCHANGED mirrored /\ at'[t] = a
        /\ \A w \in Actor \ {t} : pc'[w] = pc[w] /\ at'[w] = at[w] /\ after'[w] = after[w]
    BY <1>0, <1>32 DEF FailKept, Begin
  <2>2. CASE pc'[t] = "callback" /\ link' = [link EXCEPT ![a] = 0] /\ read' = read
    BY <1>0, <2>1, <2>2, ClearsMirror
  <2>3. CASE pc'[t] = "wait" /\ link' = link /\ read' = [read EXCEPT ![t] = link[a]]
    <3>1. \A b \in Addr : ~Adds(t, b)
      BY <2>1 DEF Adds
    <3>2. \A w \in Actor \ {t} : read'[w] = read[w]
      BY <1>0, <2>3
    <3> QED
      BY <1>0, <2>1, <2>3, <3>1, <3>2, MovesMirror
  <2> QED
    BY <1>0, <1>32, <2>2, <2>3 DEF FailKept, Begin
<1>4. ASSUME NEW t \in Actor, ReadDevice(t) PROVE MirrorInv'
  <2> DEFINE l == link[at[t]]
  <2>1. /\ pc[t] = "read" /\ at' = at /\ after' = after /\ link' = link
        /\ \A u \in Actor \ {t} : pc'[u] = pc[u] /\ read'[u] = read[u]
        /\ mirror' = mirror /\ late' = late /\ event' = event /\ seen' = seen
        /\ unread \subseteq unread'
    BY <1>0, <1>4 DEF ReadDevice
  <2>4. pc'[t] # "record" \/ (l # 0 /\ read'[t] = l)
    BY <1>0, <1>4 DEF ReadDevice
  <2>2. l # 0 => (pc'[t] = "record" /\ read'[t] = l) \/ <<at[t], l>> \in unread'
    BY <1>0, <1>4 DEF ReadDevice
  <2>3. \A a \in Addr : Adds(t, a) /\ link[a] # 0 => Adds(t, a)' \/ <<a, link[a]>> \in unread'
    BY <2>1, <2>2 DEF Adds
  <2> QED
    BY <2>1, <2>3, <2>4, MovesMirror
<1>5. ASSUME NEW t \in Actor, Record(t) PROVE MirrorInv'
  <2>0. t \in App
    BY <1>0, <1>5 DEF Record, ActorsAreApart
  <2>1. /\ pc[t] = "record" /\ pc'[t] = "idle" /\ at' = at /\ link' = link /\ read' = read
        /\ after' = after
        /\ \A u \in Actor \ {t} : pc'[u] = pc[u]
        /\ Show(at[t], read[t])
        /\ event' = event /\ seen' = seen
    BY <1>0, <1>5 DEF Record
  <2>2. read[t] # 0 /\ at[t] \in Addr
    BY <1>0, <2>0, <2>1 DEF MirrorInv, LinksAreRecorded
  <2>3. LinksAreRecorded'
    BY <1>0, <2>1 DEF MirrorInv, LinksAreRecorded
  <2>4. \A u \in App, a \in Addr : Adds(u, a) => Adds(u, a)' \/ (a = at[t] /\ read[t] = link[a])
    BY <1>0, <2>1 DEF Adds
  <2>5. \A u \in Actor, a \in Addr : Removes(u, a) => Removes(u, a)'
    BY <2>1 DEF Removes
  <2> QED
    BY <2>1, <2>2, <2>3, <2>4, <2>5, RecordsMirror
<1>6. ASSUME NEW t \in Actor, Sync(t) PROVE MirrorInv'
  <2>1. /\ pc[t] = "sync" /\ pc'[t] = "idle" /\ at' = at /\ link' = link /\ read' = read
        /\ after' = after /\ unread' = unread
        /\ \A u \in Actor \ {t} : pc'[u] = pc[u]
        /\ mirror' = {a \in mirror : link[a] # 0} /\ late' = {a \in late : link[a] # 0}
        /\ event' = event /\ seen' = seen
    BY <1>0, <1>6 DEF Sync
  <2>2. LinksAreRecorded' /\ ShownUntilCallback'
    BY <1>0, <2>1 DEF MirrorInv, LinksAreRecorded, ShownUntilCallback
  <2>3. HiddenUntilRecord'
    <3>1. \A u \in App, b \in Addr : Adds(u, b) => Adds(u, b)'
      BY <1>0, <2>1 DEF Adds
    <3> QED
      BY <2>1, <3>1 DEF MirrorInv, HiddenUntilRecord
  <2> QED
    BY <2>2, <2>3 DEF MirrorInv
<1>61. ASSUME NEW t \in Actor, Waited(t) PROVE MirrorInv'
  <2>1. /\ pc[t] = "wait" /\ at' = at /\ read' = read /\ after' = after /\ UNCHANGED mirrored
        /\ \A u \in Actor \ {t} : pc'[u] = pc[u]
        /\ \/ pc'[t] = "callback" /\ link' = [link EXCEPT ![at[t]] = 0]
           \/ pc'[t] = after[t] /\ link' = link
    BY <1>0, <1>61 DEF Waited
  <2>2. CASE pc'[t] = "callback" /\ link' = [link EXCEPT ![at[t]] = 0]
    BY <1>0, <2>1, <2>2, ClearsMirror
  <2>3. CASE pc'[t] = after[t] /\ link' = link
    <3>1. pc'[t] # "record" /\ \A b \in Addr : ~Adds(t, b)
      BY <1>0, <2>1, <2>3 DEF Adds
    <3> QED
      BY <2>1, <2>3, <3>1, MovesMirror
  <2> QED
    BY <2>1, <2>2, <2>3
<1>7. ASSUME NEW t \in Actor, BeginReport(t) PROVE MirrorInv'
  <2>1. MirrorKept
    BY <1>0, <1>7 DEF BeginReport, MirrorKept
  <2> QED
    BY <2>1, KeptMirror
<1>8. ASSUME NEW t \in Actor, EndReport(t) PROVE MirrorInv'
  <2>1. MirrorKept
    BY <1>0, <1>8 DEF EndReport, MirrorKept
  <2> QED
    BY <2>1, KeptMirror
<1>9. ASSUME NEW t \in Actor, NEW l \in Listener, Send(t, l) PROVE MirrorInv'
  <2>1. MirrorKept
    BY <1>0, <1>9 DEF Send, MirrorKept
  <2> QED
    BY <2>1, KeptMirror
<1>10. ASSUME NEW t \in Actor, Callback(t) PROVE MirrorInv'
  <2>1. /\ pc[t] = "callback" /\ pc'[t] = "report" /\ \A u \in Actor \ {t} : pc'[u] = pc[u]
        /\ at' = at /\ link' = link /\ read' = read /\ after' = after /\ at[t] \in Addr
        /\ Hide(at[t]) /\ event' = event /\ seen' = seen
    BY <1>0, <1>10 DEF Callback
  <2>2. LinksAreRecorded'
    BY <1>0, <2>1 DEF MirrorInv, LinksAreRecorded
  <2>3. \A u \in App, a \in Addr : Adds(u, a) => Adds(u, a)'
    BY <1>0, <2>1 DEF Adds
  <2>4. \A u \in Actor, a \in Addr \ {at[t]} : Removes(u, a) => Removes(u, a)'
    BY <2>1 DEF Removes
  <2> QED
    BY <2>1, <2>2, <2>3, <2>4, RemovesMirror
<1>11. CASE TakeEvent
  <2> DEFINE value == Head(channel[Mirror])
  <2>1. value \in Report /\ value.addr \in Addr
    <3>1. channel[Mirror] \in Seq(Report) /\ channel[Mirror] # <<>>
      BY <1>0, <1>11 DEF TakeEvent, TypeOK
    <3>2. value \in Report
      BY <3>1, HeadTailProperties
    <3> QED
      BY <3>2 DEF Report
  <2>2. pc' = pc /\ at' = at /\ link' = link /\ read' = read /\ after' = after
    BY <1>11 DEF TakeEvent
  <2>3. /\ \A u \in App, a \in Addr : Adds(u, a) => Adds(u, a)'
        /\ \A u \in Actor, a \in Addr : Removes(u, a) => Removes(u, a)'
    BY <2>2 DEF Adds, Removes
  <2>4. CASE Hide(value.addr) /\ event' = event /\ seen' = seen
    <3>1. LinksAreRecorded'
      BY <2>2, <2>4 DEF MirrorInv, LinksAreRecorded
    <3> QED
      BY <2>1, <2>2, <2>3, <2>4, <3>1, RemovesMirror
  <2>5. CASE link[value.addr] # 0 /\ seen' = link[value.addr] /\ UNCHANGED <<mirror, late, unread>>
    <3>1. LinksAreRecorded'
      BY <2>2, <2>5 DEF MirrorInv, LinksAreRecorded
    <3>2. ShownUntilCallback' /\ HiddenUntilRecord'
      BY <2>2, <2>3, <2>5 DEF MirrorInv, ShownUntilCallback, HiddenUntilRecord, TypeOK
    <3> QED
      BY <3>1, <3>2 DEF MirrorInv
  <2>6. CASE UNCHANGED mirrored
    <3>1. MirrorKept
      BY <2>2, <2>6 DEF MirrorKept
    <3> QED
      BY <3>1, KeptMirror
  <2> QED
    BY <1>11, <2>4, <2>5, <2>6 DEF TakeEvent
<1>12. CASE RecordEvent
  <2>1. /\ pc' = pc /\ at' = at /\ link' = link /\ read' = read /\ after' = after /\ event' = None
        /\ Show(event, seen) /\ event \in Addr /\ seen # 0
    BY <1>12 DEF RecordEvent, MirrorInv, LinksAreRecorded, TypeOK
  <2>2. LinksAreRecorded'
    BY <2>1 DEF MirrorInv, LinksAreRecorded
  <2>3. /\ \A u \in App, a \in Addr : Adds(u, a) => Adds(u, a)'
        /\ \A u \in Actor, a \in Addr : Removes(u, a) => Removes(u, a)'
    BY <2>1 DEF Adds, Removes
  <2> QED
    BY <2>1, <2>2, <2>3, RecordsMirror
<1>13. CASE InitAndroid
  BY <1>13, KeptMirror DEF InitAndroid, MirrorKept
<1>14. ASSUME NEW v \in WebView, ViewStep(v) PROVE MirrorInv'
  BY <1>14, KeptMirror DEF ViewStep, Check, Register, Greet, Forward, MirrorKept
<1>15. CASE UNCHANGED vars
  BY <1>15, KeptMirror DEF vars, MirrorKept
<1> QED
  BY <1>1, <1>2, <1>3, <1>4, <1>5, <1>6, <1>7, <1>8, <1>9, <1>10, <1>11, <1>12, <1>13,
     <1>14, <1>15, <1>31, <1>32, <1>61
  DEF Next, Step, MirrorStep

-----------------------------------------------------------------------------
(* The theorems.                                                           *)

LEMMA InitInv == Init => Inv
<1> SUFFICES ASSUME Init PROVE Inv
  OBVIOUS
<1> USE NameAssumption, BoundsAssumption
<1>0. Pump \in Actor /\ App \subseteq Actor /\ \A v \in WebView : v \in Listener
  BY DEF Actor, Listener
<1>1. TypeOK
  <2>1. (CHOOSE a \in Addr : TRUE) \in Addr
    BY AddrAssumption
  <2>2. <<>> \in Seq(Report) /\ Len(<<>>) = 0
    OBVIOUS
  <2>3. /\ channel \in [Listener -> Seq(Report)] /\ due \in [WebView -> Seq(Report)]
        /\ \A l \in Listener : Len(channel[l]) <= Capacity
    BY <2>2 DEF Init
  <2>4. /\ link \in [Addr -> 0 .. MaxConnects] /\ count \in 0 .. MaxConnects
        /\ pc \in [Actor -> ActorPc] /\ at \in [Actor -> Addr] /\ read \in [Actor -> 0 .. MaxConnects]
        /\ left \in [Actor -> SUBSET Listener] /\ view \in [WebView -> ViewPc]
    BY <2>1 DEF Init, ActorPc, ViewPc
  <2> QED
    BY <2>3, <2>4 DEF Init, TypeOK, Listener
<1>2. ActorsAreApart /\ DeafHearNothing /\ ForwardersListen
  BY <1>0 DEF Init, ActorsAreApart, DeafHearNothing, ForwardersListen
<1>3. EveryReportIsHeard
  BY DEF Init, EveryReportIsHeard
<1>4. MirrorInv
  BY <1>0 DEF Init, MirrorInv, LinksAreRecorded, ShownUntilCallback, HiddenUntilRecord
<1> QED
  BY <1>1, <1>2, <1>3, <1>4 DEF Inv, HearingInv

LEMMA Invariance == Spec => []Inv
<1>1. Inv /\ [Next]_vars => Inv'
  BY TypeStep, HearStep, MirrorInvStep DEF Inv, HearingInv
<1> QED
  BY <1>1, InitInv, PTL DEF Spec

\* TypeOK holds in every reachable state: no channel ever holds more than it has
\* room for, whatever actors and listeners do.
THEOREM FrontEndsTypeCorrect == Spec => []TypeOK
<1>1. Inv => TypeOK
  BY DEF Inv
<1> QED
  BY <1>1, Invariance, PTL

\* Every report made since a web view registered reaches it, once and in the
\* order they were made, as long as it listens (handler.rs,
\* send_connection_update; commands.rs, connection_events).
THEOREM ReportsAreHeard == Spec => []EveryReportIsHeard
<1>1. Inv => EveryReportIsHeard
  BY DEF Inv, HearingInv
<1> QED
  BY <1>1, Invariance, PTL

\* When nothing is under way the app shows the devices that are connected,
\* except those on which the mirror's last step came too late, and those that
\* have been connected since without anybody being able to read them (dioxus-blec/src/lib.rs, Ble::connect, Ble::disconnect and Ble::start).
THEOREM MirrorCorrect == Spec => []MirrorIsCurrent
<1>1. Inv => MirrorIsCurrent
  <2> SUFFICES ASSUME Inv, Quiet, NEW a \in Addr \ late
               PROVE  IF a \in mirror THEN link[a] # 0 ELSE link[a] = 0 \/ <<a, link[a]>> \in unread
    BY DEF MirrorIsCurrent
  <2>1. \A t \in Actor : pc[t] = "idle"
    BY DEF Quiet
  <2>2. (\A t \in App : ~Adds(t, a)) /\ (\A t \in Actor : ~Removes(t, a))
    BY <2>1 DEF Adds, Removes, Actor
  <2> QED
    BY <2>2 DEF Inv, MirrorInv, ShownUntilCallback, HiddenUntilRecord
<1> QED
  BY <1>1, Invariance, PTL

=============================================================================
