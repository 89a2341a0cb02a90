--------------------------- MODULE AndroidProofs ---------------------------
(***************************************************************************)
(* Proofs about AndroidPeripheral, for any clients, calls and tasks.       *)
(***************************************************************************)
EXTENDS AndroidPeripheral, SequenceTheorems, TLAPS

-----------------------------------------------------------------------------
\* An operation that the looper is in the middle of is one on a client, and what
\* discover_services fetched is the client whose services it read.
\* Only what discovers again is of no call, but of a client.
LocalsFit ==
  /\ looper # None => looper.client # 0 /\ looper.kind \in Slot
  /\ \A t \in Caller : pc[t] = "fetched" => doing[t] \in 0 .. MaxClients
  /\ \A p \in disconnecting : p.call \in CallId
  /\ \A p \in timers : (p.kind = "retry" => p.call \in CallId) /\ (p.kind = "rediscover" => p.client # 0)

-----------------------------------------------------------------------------
(* Queues and answers                                                      *)

\* What is posted comes last.
LEMMA Posted ==
  ASSUME NEW q \in Seq(Task), NEW p \in Task
  PROVE  /\ Append(q, p) \in Seq(Task)
         /\ \A n \in DOMAIN q : n \in DOMAIN Append(q, p) /\ Append(q, p)[n] = q[n]
         /\ \A n \in DOMAIN Append(q, p) : n \notin DOMAIN q => n = Len(q) + 1
         /\ Len(q) + 1 \in DOMAIN Append(q, p) /\ Append(q, p)[Len(q) + 1] = p
<1>1. /\ Append(q, p) \in Seq(Task) /\ Len(Append(q, p)) = Len(q) + 1
      /\ \A n \in 1 .. Len(q) : Append(q, p)[n] = q[n]
      /\ Append(q, p)[Len(q) + 1] = p
  BY AppendProperties
<1>2. DOMAIN q = 1 .. Len(q) /\ DOMAIN Append(q, p) = 1 .. Len(q) + 1 /\ Len(q) \in Nat
  BY <1>1, LenProperties
<1> QED
  BY <1>1, <1>2

\* What is run came first.
LEMMA Taken ==
  ASSUME NEW q \in Seq(Task), q # <<>>
  PROVE  /\ Head(q) \in Task /\ Tail(q) \in Seq(Task)
         /\ 1 \in DOMAIN q /\ q[1] = Head(q)
         /\ \A n \in DOMAIN Tail(q) : n + 1 \in DOMAIN q /\ Tail(q)[n] = q[n + 1]
         /\ \A n \in DOMAIN q : n # 1 => n - 1 \in DOMAIN Tail(q) /\ Tail(q)[n - 1] = q[n]
<1>1. /\ Head(q) \in Task /\ Tail(q) \in Seq(Task) /\ Len(Tail(q)) = Len(q) - 1
      /\ \A n \in 1 .. Len(Tail(q)) : Tail(q)[n] = q[n + 1]
  BY HeadTailProperties
<1>2. DOMAIN q = 1 .. Len(q) /\ Len(q) \in Nat /\ Len(q) # 0 /\ DOMAIN Tail(q) = 1 .. Len(q) - 1
  BY <1>1, LenProperties, EmptySeq
<1>3. q[1] = Head(q)
  BY <1>2
<1> QED
  BY <1>1, <1>2, <1>3

\* A call is answered once.
LEMMA AnsweredOnce ==
  ASSUME TypeOK, NEW good, NEW bad, Answer(good, bad)
  PROVE  /\ answer' \in [CallId -> {"none", "open", "ok", "failed"}]
         /\ \A i \in CallId : answer[i] # "open" => answer'[i] = answer[i]
         /\ \A i \in CallId : answer[i] = "open" => answer'[i] # "none"
         /\ \A i \in CallId : answer[i] = "open" /\ i \notin good \cup bad => answer'[i] = "open"
         /\ \A i \in good \cup bad : i \in CallId => answer'[i] # "open"
  BY DEF Answer, TypeOK

-----------------------------------------------------------------------------
(* Types                                                                   *)

\* What is posted has a type.
LEMMA PostIsTask ==
  ASSUME NEW k \in Slot \cup {"open", "close", "cancel", "retry", "again", "rediscover", "fallback", "disconnect"}, NEW o \in Object,
         NEW c \in 0 .. MaxClients, NEW i \in 0 .. MaxCalls, NEW n \in 0 .. MaxAttempts
  PROVE  Post(k, o, c, i, n) \in Task
  BY DEF Post, Task

\* The types, by what they are about.
StackOK ==
  /\ client \in [Client -> {"unused", "opening", "open", "closing", "lost", "closed"}]
  /\ owner \in [Client -> [obj : Object, call : 0 .. MaxCalls]]
  /\ inStack \subseteq [client : Client, kind : Slot, attempt : 0 .. MaxAttempts]
ClientsOK ==
  /\ gatt \in [Object -> 0 .. MaxClients] /\ pending \in [Object -> 0 .. MaxClients]
  /\ connected \in [Object -> BOOLEAN] /\ onChange \in [Object -> Waiter \cup {None}]
  /\ attempts \in [Object -> 0 .. MaxAttempts]
OperationsOK ==
  /\ slot \in [Object -> [Slot -> 0 .. MaxCalls]] /\ services \in [Object -> 0 .. MaxClients]
  /\ tries \in [Object -> 0 .. MaxAttempts]
PluginOK ==
  /\ registered \in 0 .. 2 /\ found \in Object /\ disconnecting \subseteq Task
  /\ cut \subseteq 0 .. MaxCalls /\ raced \subseteq 0 .. MaxCalls /\ refused \subseteq CallId
MainOK == queue \in Seq(Task) /\ timers \subseteq Task /\ looper \in Task \cup {None}
AnswersOK == answer \in [CallId -> {"none", "open", "ok", "failed"}]
CallersOK ==
  /\ pc \in [Caller -> {"idle", "connect", "disconnect", "fetched"} \cup Slot]
  /\ doing \in [Caller -> 0 .. MaxCalls + MaxClients] /\ cache \in 0 .. MaxClients

AllOK == StackOK /\ ClientsOK /\ OperationsOK /\ PluginOK /\ MainOK /\ AnswersOK /\ CallersOK

\* The parts are the whole, before a step and after it.
LEMMA TypesAreAll == (TypeOK <=> AllOK) /\ (TypeOK' <=> AllOK')
BY DEF AllOK, TypeOK, StackOK, ClientsOK, OperationsOK, PluginOK, MainOK, AnswersOK, CallersOK

\* What the types say of numbers and tasks.
LEMMA NumbersAndTasks ==
  /\ MaxClients \in Nat /\ MaxCalls \in Nat /\ MaxAttempts \in Nat
  /\ 0 \in 0 .. MaxClients /\ 0 \in 0 .. MaxAttempts /\ 0 \in 0 .. MaxCalls
  /\ CallId \subseteq 0 .. MaxCalls /\ Client \subseteq 0 .. MaxClients
  /\ 0 \in 0 .. MaxCalls + MaxClients /\ CallId \subseteq 0 .. MaxCalls + MaxClients
  /\ 0 .. MaxClients \subseteq 0 .. MaxCalls + MaxClients
  /\ Object = {1, 2} /\ NoCalls \in [Slot -> 0 .. MaxCalls]
  /\ \A x \in Task : /\ x.obj \in Object /\ x.client \in 0 .. MaxClients
                     /\ x.call \in 0 .. MaxCalls /\ x.attempt \in 0 .. MaxAttempts
BY BoundsAssumption DEF CallId, Client, Object, NoCalls, Task

\* A new call leaves the types of who calls.
LEMMA NewCallTypes ==
  ASSUME TypeOK, NEW t \in Caller, NEW i \in CallId, NEW where \in {"connect", "disconnect"} \cup Slot,
         NewCall(t, where, i), cache' \in 0 .. MaxClients
  PROVE  CallersOK'
<1>1. CallersOK /\ i \in 0 .. MaxCalls + MaxClients
  BY TypesAreAll, NumbersAndTasks DEF AllOK
<1>2. pc' = [pc EXCEPT ![t] = where] /\ doing' = [doing EXCEPT ![t] = i]
  BY DEF NewCall
<1>3. where \in {"idle", "connect", "disconnect", "fetched"} \cup Slot
  OBVIOUS
<1> QED
  BY <1>1, <1>2, <1>3 DEF CallersOK

\* Whoever returns is idle.
LEMMA IdleTypes ==
  ASSUME TypeOK, NEW t \in Caller, cache' \in 0 .. MaxClients,
         pc' = [pc EXCEPT ![t] = "idle"], doing' = [doing EXCEPT ![t] = 0]
  PROVE  CallersOK'
BY TypesAreAll, NumbersAndTasks DEF CallersOK, AllOK

\* What is posted or comes later is a task.
LEMMA PostsAreTasks ==
  ASSUME NEW o \in Object, NEW i \in 0 .. MaxCalls
  PROVE  /\ Post("open", o, 0, i, 0) \in Task /\ Post("retry", o, 0, i, 0) \in Task
         /\ \A n \in 0 .. MaxAttempts : Post("again", o, 0, i, n) \in Task
         /\ \A k \in Slot, c \in 0 .. MaxClients : Post(k, o, c, i, 0) \in Task
         /\ \A c \in 0 .. MaxClients : /\ Post("cancel", o, c, i, 0) \in Task
                                       /\ Post("disconnect", o, c, i, 0) \in Task
                                       /\ Post("rediscover", o, c, i, 0) \in Task
<1>1. 0 \in 0 .. MaxClients /\ 0 \in 0 .. MaxAttempts
  BY NumbersAndTasks
<1> QED
  BY <1>1 DEF Post, Task

\* The calls that are under way are calls.
LEMMA UnderWayTypes ==
  ASSUME TypeOK, NEW c
  PROVE  UnderWay(c) \subseteq 0 .. MaxCalls
<1>0. AllOK
  BY TypesAreAll
<1>1. \A n \in DOMAIN queue : queue[n].call \in 0 .. MaxCalls
  <2>1. \A n \in DOMAIN queue : queue[n] \in Task
    BY <1>0 DEF AllOK, MainOK
  <2> QED
    BY <2>1, NumbersAndTasks
<1>2. \A p \in timers : p.call \in 0 .. MaxCalls
  BY <1>0, NumbersAndTasks DEF AllOK, MainOK
<1>3. \A d \in Client : owner[d].call \in 0 .. MaxCalls
  BY <1>0 DEF AllOK, StackOK
<1> QED
  BY <1>1, <1>2, <1>3 DEF UnderWay

\* What disconnects leave under way are calls.
LEMMA ForgetTypes ==
  ASSUME TypeOK, NEW c, Forget(c)
  PROVE  registered' = 0 /\ cut' \subseteq 0 .. MaxCalls
<1>1. UnderWay(c) \subseteq 0 .. MaxCalls
  BY UnderWayTypes
<1>2. cut \subseteq 0 .. MaxCalls
  BY TypesAreAll DEF AllOK, PluginOK
<1> QED
  BY <1>1, <1>2 DEF Forget

\* Every action keeps the types.
LEMMA ConnectTypes ==
  ASSUME TypeOK, NEW t \in Caller, NEW i \in CallId, Connect(t, i)
  PROVE  TypeOK'
<1> USE DEF stack, plugin, main, callers
<1>0. StackOK /\ ClientsOK /\ OperationsOK /\ PluginOK /\ MainOK /\ AnswersOK /\ CallersOK
  BY TypesAreAll DEF AllOK
<1>1. Chosen \in Object
  BY <1>0, NumbersAndTasks DEF Chosen, PluginOK
<1>2. StackOK' /\ OperationsOK'
  BY <1>0 DEF Connect, StackOK, OperationsOK, history
<1>3. ClientsOK'
  BY <1>0, <1>1, NumbersAndTasks DEF Connect, ClientsOK, Waiter
<1>4. PluginOK'
  <2>1. UnderWay(0) \subseteq 0 .. MaxCalls /\ i \in 0 .. MaxCalls
    BY UnderWayTypes, NumbersAndTasks
  <2>2. raced' \subseteq 0 .. MaxCalls
    BY <1>0, <2>1 DEF Connect, PluginOK
  <2> QED
    BY <1>0, <1>1, <2>2 DEF Connect, PluginOK, Object
<1>5. MainOK'
  <2>1. i \in 0 .. MaxCalls
    BY NumbersAndTasks
  <2>2. Post("open", Chosen, 0, i, 0) \in Task
    BY <1>1, <2>1, PostsAreTasks
  <2>3. timers' = timers /\ looper' = looper /\ (queue' = queue \/ queue' = Append(queue, Post("open", Chosen, 0, i, 0)))
    BY DEF Connect
  <2> QED
    BY <1>0, <2>2, <2>3, Posted DEF MainOK
<1>6. AnswersOK'
  BY <1>0 DEF Connect, AnswersOK, Opened
<1>7. CallersOK'
  <2>1. NewCall(t, "connect", i) /\ cache' \in 0 .. MaxClients
    BY NumbersAndTasks DEF Connect, ForgetServices
  <2> QED
    BY <2>1, NewCallTypes
<1> QED
  BY <1>2, <1>3, <1>4, <1>5, <1>6, <1>7, TypesAreAll DEF AllOK

\* A disconnect, and what it does about the client it has read.
LEMMA DisconnectTypes ==
  ASSUME TypeOK, NEW t \in Caller, NEW i \in CallId, Disconnect(t, i)
  PROVE  TypeOK'
<1> USE DEF stack, peripheral, main
<1>0. StackOK /\ ClientsOK /\ OperationsOK /\ PluginOK /\ MainOK /\ AnswersOK /\ CallersOK
  BY TypesAreAll DEF AllOK
<1>1. StackOK' /\ ClientsOK' /\ OperationsOK' /\ MainOK'
  BY <1>0 DEF Disconnect, StackOK, ClientsOK, OperationsOK, MainOK
<1>2. CallersOK'
  <2>1. NewCall(t, "disconnect", i) /\ cache' \in 0 .. MaxClients
    BY NumbersAndTasks DEF Disconnect, ForgetServices
  <2> QED
    BY <2>1, NewCallTypes
<1>3. PluginOK'
  <2>1. registered # 0 => registered \in Object /\ gatt[registered] \in 0 .. MaxClients
    BY <1>0, NumbersAndTasks DEF PluginOK, ClientsOK
  <2>2. registered # 0 => Post("disconnect", registered, gatt[registered], i, 0) \in Task
    BY <2>1, PostsAreTasks, NumbersAndTasks
  <2> QED
    BY <1>0, <2>2 DEF Disconnect, PluginOK, history
<1>4. AnswersOK'
  BY <1>0 DEF Disconnect, AnswersOK, Opened
<1> QED
  BY <1>1, <1>2, <1>3, <1>4, TypesAreAll DEF AllOK

\* A disconnect that goes on keeps the types.
LEMMA GoOnTypes ==
  ASSUME TypeOK, LocalsFit, NEW p \in disconnecting, GoOn(p)
  PROVE  TypeOK'
<1> USE DEF stack, callers
<1>0. /\ StackOK /\ ClientsOK /\ OperationsOK /\ PluginOK /\ MainOK /\ AnswersOK /\ CallersOK
      /\ p \in Task
  BY TypesAreAll DEF AllOK, PluginOK
<1>1. p.obj \in Object /\ p.client \in 0 .. MaxClients /\ p.call \in 0 .. MaxCalls
  BY <1>0, NumbersAndTasks
<1>2. CASE DisconnectUnused(p)
  <2>1. StackOK' /\ CallersOK'
    BY <1>0, <1>2 DEF DisconnectUnused, StackOK, CallersOK
  <2>2. ClientsOK' /\ OperationsOK'
    BY <1>0, <1>1, <1>2, NumbersAndTasks DEF DisconnectUnused, ClientsOK, OperationsOK
  <2>3. PluginOK'
    <3>1. registered' = 0 /\ cut' \subseteq 0 .. MaxCalls
      BY <1>2, ForgetTypes DEF DisconnectUnused
    <3> QED
      BY <1>0, <1>2, <3>1 DEF DisconnectUnused, PluginOK
  <2>4. MainOK'
    <3>1. pending[p.obj] \in 0 .. MaxClients
      BY <1>0, <1>1 DEF ClientsOK
    <3>2. Post("cancel", p.obj, pending[p.obj], p.call, 0) \in Task
      BY <1>1, <3>1, PostsAreTasks
    <3> QED
      BY <1>0, <1>2, <3>2, Posted DEF DisconnectUnused, MainOK
  <2>5. AnswersOK'
    BY <1>0, <1>2, AnsweredOnce DEF DisconnectUnused, AnswersOK
  <2> QED
    BY <2>1, <2>2, <2>3, <2>4, <2>5, TypesAreAll DEF AllOK
<1>3. CASE DisconnectUsed(p)
  <2>1. StackOK' /\ CallersOK' /\ AnswersOK' /\ OperationsOK'
    BY <1>0, <1>3 DEF DisconnectUsed, StackOK, CallersOK, AnswersOK, OperationsOK
  <2>2. ClientsOK'
    <3>1. p.call \in CallId
      BY DEF LocalsFit
    <3> QED
      BY <1>0, <1>1, <1>3, <3>1 DEF DisconnectUsed, ClientsOK, Waiter
  <2>3. PluginOK'
    <3>1. Displaced(p.obj) \subseteq 0 .. MaxCalls
      BY <1>0, <1>1, NumbersAndTasks DEF Displaced, Connects, ClientsOK, Waiter
    <3> QED
      BY <1>0, <1>3, <3>1 DEF DisconnectUsed, PluginOK
  <2>4. MainOK'
    <3>1. [p EXCEPT !.kind = "fallback"] \in Task /\ [p EXCEPT !.kind = "close"] \in Task
      BY <1>0 DEF Task
    <3> QED
      BY <1>0, <1>3, <3>1, Posted DEF DisconnectUsed, MainOK
  <2> QED
    BY <2>1, <2>2, <2>3, <2>4, TypesAreAll DEF AllOK
<1> QED
  BY <1>2, <1>3 DEF GoOn

\* discoverServices, requestMtu, reads and subscriptions, as they are called.
LEMMA OperateTypes ==
  ASSUME TypeOK, NEW t \in Caller, NEW i \in CallId, NEW k \in Slot, Operate(t, k, i)
  PROVE  TypeOK'
<1> USE DEF stack, plugin, main, callers
<1>0. StackOK /\ ClientsOK /\ OperationsOK /\ PluginOK /\ MainOK /\ AnswersOK /\ CallersOK
  BY TypesAreAll DEF AllOK
<1>1. StackOK' /\ ClientsOK' /\ PluginOK'
  BY <1>0 DEF Operate, StackOK, ClientsOK, PluginOK, history
<1>2. CallersOK'
  <2>1. NewCall(t, k, i) /\ cache' \in 0 .. MaxClients
    BY <1>0 DEF Operate, CallersOK
  <2> QED
    BY <2>1, NewCallTypes
<1>3. registered # 0 => registered \in Object
  BY <1>0, NumbersAndTasks DEF PluginOK
<1>4. OperationsOK'
  <2>1. slot' = slot \/ (registered \in Object /\ slot' = [slot EXCEPT ![registered][k] = i])
    <3>1. CASE slot' = slot
      BY <3>1
    <3>2. CASE registered # 0 /\ slot' = [slot EXCEPT ![registered][k] = i]
      BY <1>3, <3>2
    <3> QED
      BY <3>1, <3>2, Zenon DEF Operate
  <2>2. i \in 0 .. MaxCalls /\ services' = services
    BY NumbersAndTasks DEF Operate
  <2>3. tries' = tries \/ (registered \in Object /\ tries' = [tries EXCEPT ![registered] = 0])
    BY <1>3 DEF Operate
  <2>4. tries' \in [Object -> 0 .. MaxAttempts]
    BY <1>0, <2>3, NumbersAndTasks DEF OperationsOK
  <2>5. slot' \in [Object -> [Slot -> 0 .. MaxCalls]]
    <3>1. CASE slot' = slot
      BY <1>0, <3>1 DEF OperationsOK
    <3>2. CASE registered \in Object /\ slot' = [slot EXCEPT ![registered][k] = i]
      <4>1. slot \in [Object -> [Slot -> 0 .. MaxCalls]] /\ i \in 0 .. MaxCalls
        BY <1>0, <2>2 DEF OperationsOK
      <4>2. [slot[registered] EXCEPT ![k] = i] \in [Slot -> 0 .. MaxCalls]
        BY <3>2, <4>1
      <4> QED
        BY <3>2, <4>1, <4>2
    <3> QED
      BY <2>1, <3>1, <3>2
  <2> QED
    BY <1>0, <2>2, <2>4, <2>5 DEF OperationsOK
<1>5. MainOK'
  <2>1. \A o \in Object : (IF k = "discover" THEN gatt[o] ELSE 0) \in 0 .. MaxClients
    BY <1>0, NumbersAndTasks DEF ClientsOK
  <2>2. \A o \in Object : Post(k, o, IF k = "discover" THEN gatt[o] ELSE 0, i, 0) \in Task
    BY <2>1, PostsAreTasks, NumbersAndTasks
  <2> QED
    BY <1>0, <1>3, <2>2, Posted DEF Operate, MainOK
<1>6. AnswersOK'
  BY <1>0 DEF Operate, AnswersOK, Opened
<1> QED
  BY <1>1, <1>2, <1>4, <1>5, <1>6, TypesAreAll DEF AllOK

\* What callers do with the answers.
LEMMA ProceedTypes ==
  ASSUME TypeOK, LocalsFit, NEW t \in Caller, Fetch(t) \/ Keep(t) \/ Return(t)
  PROVE  TypeOK'
<1> USE DEF stack, peripheral, plugin, main
<1>0. StackOK /\ ClientsOK /\ OperationsOK /\ PluginOK /\ MainOK /\ AnswersOK /\ CallersOK
  BY TypesAreAll DEF AllOK
<1>1. StackOK' /\ ClientsOK' /\ OperationsOK' /\ PluginOK' /\ MainOK' /\ AnswersOK'
  <2>1. UNCHANGED <<stack, peripheral, plugin, main, answer>>
    BY DEF Fetch, Keep, Return
  <2> QED
    BY <1>0, <2>1 DEF StackOK, ClientsOK, OperationsOK, PluginOK, MainOK, AnswersOK, history
<1>2. CASE Fetch(t)
  <2>1. registered # 0 => services[registered] \in 0 .. MaxCalls + MaxClients
    BY <1>0, NumbersAndTasks DEF PluginOK, OperationsOK
  <2>2. CallersOK'
    BY <1>0, <1>2, <2>1, NumbersAndTasks DEF Fetch, CallersOK
  <2> QED
    BY <1>1, <2>2, TypesAreAll DEF AllOK
<1>3. CASE Keep(t)
  BY <1>0, <1>1, <1>3, IdleTypes, TypesAreAll DEF Keep, LocalsFit, AllOK
<1>4. CASE Return(t)
  BY <1>0, <1>1, <1>4, IdleTypes, TypesAreAll DEF Return, CallersOK, AllOK
<1> QED
  BY <1>2, <1>3, <1>4

\* What the main looper runs next.
LEMMA RunDueTypes ==
  ASSUME TypeOK, LocalsFit, RunDue
  PROVE  TypeOK'
<1> USE DEF stack, peripheral, plugin, main, callers
<1> DEFINE p == Head(queue)
<1>0. /\ StackOK /\ ClientsOK /\ OperationsOK /\ PluginOK /\ MainOK /\ AnswersOK /\ CallersOK
      /\ queue # <<>> /\ p \in Task /\ Tail(queue) \in Seq(Task)
  BY TypesAreAll, Taken DEF RunDue, AllOK, MainOK
<1>1. p.obj \in Object /\ p.client \in 0 .. MaxClients /\ p.call \in 0 .. MaxCalls
  BY <1>0, NumbersAndTasks
<1> HIDE DEF p
<1>2. CASE OpenClient(p)
  <2>1. PluginOK' /\ CallersOK' /\ OperationsOK'
    BY <1>0, <1>2 DEF OpenClient, PluginOK, CallersOK, OperationsOK, history
  <2>2. AnswersOK'
    BY <1>0, <1>2, AnsweredOnce DEF OpenClient, AnswersOK
  <2>3. StackOK'
    <3>1. [obj |-> p.obj, call |-> p.call] \in [obj : Object, call : 0 .. MaxCalls]
      BY <1>1
    <3>2. client' \in [Client -> {"unused", "opening", "open", "closing", "lost", "closed"}]
      BY <1>0, <1>2 DEF OpenClient, StackOK
    <3>3. owner' \in [Client -> [obj : Object, call : 0 .. MaxCalls]]
      BY <1>0, <1>2, <3>1 DEF OpenClient, StackOK
    <3> QED
      BY <1>0, <1>2, <3>2, <3>3 DEF OpenClient, StackOK
  <2>4. ClientsOK'
    BY <1>0, <1>1, <1>2, NumbersAndTasks DEF OpenClient, ClientsOK
  <2>5. MainOK'
    BY <1>0, <1>2 DEF OpenClient, MainOK, Due
  <2> QED
    BY <2>1, <2>2, <2>3, <2>4, <2>5, TypesAreAll DEF AllOK
<1>3. CASE CloseClient(p)
  <2>1. PluginOK' /\ CallersOK' /\ OperationsOK' /\ AnswersOK' /\ ClientsOK'
    BY <1>0, <1>3 DEF CloseClient, PluginOK, CallersOK, OperationsOK, AnswersOK, ClientsOK, history
  <2>2. StackOK' /\ MainOK'
    BY <1>0, <1>3 DEF CloseClient, StackOK, MainOK, Due
  <2> QED
    BY <2>1, <2>2, TypesAreAll DEF AllOK
<1>4. CASE ReadGatt(p)
  <2> DEFINE g == IF p.kind = "discover" THEN p.client ELSE gatt[p.obj]
  <2>1. g \in 0 .. MaxClients
    BY <1>0, <1>1 DEF ClientsOK
  <2>2. PluginOK' /\ CallersOK' /\ ClientsOK' /\ StackOK'
    BY <1>0, <1>4 DEF ReadGatt, PluginOK, CallersOK, ClientsOK, StackOK, history
  <2>3. AnswersOK'
    BY <1>0, <1>4, AnsweredOnce DEF ReadGatt, AnswersOK
  <2>4. OperationsOK'
    <3>1. slot' = slot \/ slot' = [slot EXCEPT ![p.obj]["mtu"] = 0]
      BY <1>4 DEF ReadGatt
    <3>2. 0 \in 0 .. MaxCalls /\ services' = services /\ tries' = tries
      BY <1>4, NumbersAndTasks DEF ReadGatt
    <3> QED
      <4>1. "mtu" \in Slot
        BY DEF Slot
      <4>2. CASE slot' = slot
        BY <1>0, <3>2, <4>2 DEF OperationsOK
      <4>3. CASE slot' = [slot EXCEPT ![p.obj]["mtu"] = 0]
        BY <1>0, <1>1, <3>2, <4>1, <4>3 DEF OperationsOK
      <4> QED
        BY <3>1, <4>2, <4>3
  <2>5. MainOK'
    <3>1. [p EXCEPT !.client = g] \in Task
      BY <1>0, <2>1 DEF Task
    <3>2. queue' = Tail(queue) /\ timers' = timers /\ (looper' = looper \/ looper' = [p EXCEPT !.client = g])
      BY <1>4 DEF ReadGatt, Due
    <3> QED
      BY <1>0, <3>1, <3>2 DEF MainOK
  <2> QED
    BY <2>2, <2>3, <2>4, <2>5, TypesAreAll DEF AllOK
<1> QED
  BY <1>2, <1>3, <1>4 DEF RunDue, p

\* What it runs after a delay.
LEMMA RunTimerTypes ==
  ASSUME TypeOK, LocalsFit, NEW p \in timers, RunTimer(p)
  PROVE  TypeOK'
<1> USE DEF stack, peripheral, plugin, main, callers
<1>0. /\ StackOK /\ ClientsOK /\ OperationsOK /\ PluginOK /\ MainOK /\ AnswersOK /\ CallersOK
      /\ p \in Task
  BY TypesAreAll DEF AllOK, MainOK
<1>1. p.obj \in Object /\ p.client \in 0 .. MaxClients /\ p.call \in 0 .. MaxCalls
  BY <1>0, NumbersAndTasks
<1>2. CallersOK'
  BY <1>0 DEF RunTimer, Retry, TryAgain, Rediscover, Fallback, CallersOK
<1>3. CASE Retry(p)
  <2>1. OperationsOK' /\ AnswersOK' /\ StackOK' /\ PluginOK'
    BY <1>0, <1>3 DEF Retry, OperationsOK, AnswersOK, StackOK, PluginOK, history
  <2>2. ClientsOK'
    <3>1. p.call \in CallId
      BY <1>3 DEF Retry, LocalsFit
    <3> QED
      BY <1>0, <1>1, <1>3, <3>1 DEF Retry, ClientsOK, Waiter
  <2>3. MainOK'
    BY <1>0, <1>1, <1>3, PostsAreTasks, Posted DEF Retry, Elapsed, MainOK
  <2> QED
    BY <1>2, <2>1, <2>2, <2>3, TypesAreAll DEF AllOK
<1>4. CASE TryAgain(p)
  <2>1. OperationsOK' /\ AnswersOK' /\ ClientsOK' /\ StackOK' /\ PluginOK'
    BY <1>0, <1>4 DEF TryAgain, OperationsOK, AnswersOK, ClientsOK, StackOK, PluginOK, history
  <2>2. [p EXCEPT !.kind = "access"] \in Task
    BY <1>0 DEF Task, Slot
  <2>3. MainOK'
    BY <1>0, <1>4, <2>2, Posted DEF TryAgain, Elapsed, MainOK
  <2> QED
    BY <1>2, <2>1, <2>3, TypesAreAll DEF AllOK
<1>5. CASE Fallback(p)
  <2>1. OperationsOK' /\ StackOK'
    BY <1>0, <1>1, <1>5, NumbersAndTasks DEF Fallback, OperationsOK, StackOK
  <2>2. ClientsOK'
    BY <1>0, <1>1, <1>5, NumbersAndTasks DEF Fallback, ClientsOK
  <2>3. MainOK'
    BY <1>0, <1>5 DEF Fallback, Elapsed, MainOK
  <2>4. AnswersOK'
    BY <1>0, <1>5, AnsweredOnce DEF Fallback, AnswersOK
  <2>5. PluginOK'
    <3>1. (registered' = registered /\ cut' = cut) \/ Forget(p.client)
      BY <1>5 DEF Fallback
    <3>2. registered' \in 0 .. 2 /\ cut' \subseteq 0 .. MaxCalls
      <4>1. CASE registered' = registered /\ cut' = cut
        BY <1>0, <4>1 DEF PluginOK
      <4>2. CASE Forget(p.client)
        <5> DEFINE q == p.client
        <5>1. Forget(q)
          BY <4>2
        <5> HIDE DEF q
        <5>2. registered' = 0 /\ cut' \subseteq 0 .. MaxCalls
          BY <5>1, ForgetTypes
        <5> QED
          BY <5>2
      <4> QED
        BY <3>1, <4>1, <4>2
    <3>3. found' = found /\ disconnecting' = disconnecting /\ raced' = raced /\ refused' = refused
      BY <1>5 DEF Fallback
    <3> QED
      BY <1>0, <3>2, <3>3 DEF PluginOK
  <2> QED
    BY <1>2, <2>1, <2>2, <2>3, <2>4, <2>5, TypesAreAll DEF AllOK
<1>6. CASE Rediscover(p)
  <2> DEFINE i == slot[p.obj].discover
  <2>0. i \in 0 .. MaxCalls /\ (i # 0 => i \in CallId)
    BY <1>0, <1>1, NumbersAndTasks DEF OperationsOK, Slot, CallId
  <2>1. ClientsOK'
    BY <1>0, <1>6 DEF Rediscover, ClientsOK
  <2>2. MainOK'
    BY <1>0, <1>6 DEF Rediscover, Elapsed, MainOK
  <2>3. PluginOK'
    BY <1>0, <1>6, <2>0 DEF Rediscover, PluginOK
  <2>4. StackOK'
    <3>1. \/ inStack' = inStack
          \/ /\ client[p.client] = "open"
             /\ inStack' = inStack \cup {[client |-> p.client, kind |-> "discover", attempt |-> 0]}
      BY <1>6 DEF Rediscover
    <3>2. UNCHANGED <<client, owner>>
      BY <1>6 DEF Rediscover
    <3>3. p.client # 0
      BY <1>6 DEF Rediscover, LocalsFit
    <3>4. p.client \in Client /\ "discover" \in Slot /\ 0 \in 0 .. MaxAttempts
      BY <1>1, <3>3, NumbersAndTasks DEF Client, Slot
    <3> QED
      BY <1>0, <3>1, <3>2, <3>4 DEF StackOK
  <2>5. OperationsOK'
    <3>1. slot' = slot \/ slot' = [slot EXCEPT ![p.obj]["discover"] = 0]
      BY <1>6 DEF Rediscover
    <3>2. tries' = tries \/ tries' = [tries EXCEPT ![p.obj] = 0]
      BY <1>6 DEF Rediscover
    <3>3. services' = services
      BY <1>6 DEF Rediscover
    <3>4. "discover" \in Slot
      BY DEF Slot
    <3> QED
      BY <1>0, <1>1, <3>1, <3>2, <3>3, <3>4, NumbersAndTasks DEF OperationsOK
  <2>6. AnswersOK'
    BY <1>0, <1>6, AnsweredOnce DEF Rediscover, AnswersOK
  <2> QED
    BY <1>2, <2>1, <2>2, <2>3, <2>4, <2>5, <2>6, TypesAreAll DEF AllOK
<1> QED
  BY <1>3, <1>4, <1>5, <1>6 DEF RunTimer

\* The end of the operation it is in the middle of.
LEMMA LooperTypes ==
  ASSUME TypeOK, LocalsFit, Accept \/ Refuse
  PROVE  TypeOK'
<1> USE DEF stack, peripheral, plugin, main, callers
<1> DEFINE o == looper.obj
<1>0. /\ StackOK /\ ClientsOK /\ OperationsOK /\ PluginOK /\ MainOK /\ AnswersOK /\ CallersOK
      /\ looper \in Task /\ looper.kind \in Slot
  BY TypesAreAll DEF AllOK, MainOK, Accept, Refuse, LocalsFit
<1>1. /\ o \in Object /\ looper.client \in 0 .. MaxClients 
      /\ looper.call \in 0 .. MaxCalls /\ looper.attempt \in 0 .. MaxAttempts /\ 0 \in 0 .. MaxCalls
  BY <1>0, NumbersAndTasks
<1>2. ClientsOK' /\ PluginOK' /\ CallersOK'
  BY <1>0 DEF Accept, Refuse, ClientsOK, PluginOK, CallersOK, history
<1>3. AnswersOK'
  BY <1>0, AnsweredOnce DEF Accept, Refuse, AnswersOK
<1>4. CASE Accept
  <2>1. looper.client \in Client
    BY <1>0, <1>1, <1>4, NumbersAndTasks DEF Accept, LocalsFit, Client
  <2>2. StackOK'
    BY <1>0, <1>1, <1>4, <2>1 DEF Accept, StackOK
  <2>3. OperationsOK'
    BY <1>0, <1>1, <1>4 DEF Accept, OperationsOK, Slot
  <2>4. MainOK'
    BY <1>0, <1>4 DEF Accept, MainOK
  <2> QED
    BY <1>2, <1>3, <2>2, <2>3, <2>4, TypesAreAll DEF AllOK
<1>5. CASE Refuse
  <2>1. StackOK'
    BY <1>0, <1>5 DEF Refuse, StackOK
  <2>2. OperationsOK'
    BY <1>0, <1>1, <1>5 DEF Refuse, OperationsOK
  <2>3. MainOK'
    <3>1. looper.attempt < MaxAttempts => looper.attempt + 1 \in 0 .. MaxAttempts
      BY <1>1, NumbersAndTasks
    <3>2. looper.attempt < MaxAttempts => Post("again", o, 0, looper.call, looper.attempt + 1) \in Task
      BY <1>1, <3>1, PostsAreTasks
    <3> QED
      BY <1>0, <1>5, <3>2 DEF Refuse, MainOK
  <2> QED
    BY <1>2, <1>3, <2>1, <2>2, <2>3, TypesAreAll DEF AllOK
<1> QED
  BY <1>4, <1>5

\* What the stack reports.
LEMMA ReportTypes ==
  ASSUME TypeOK, NEW c \in Client, Report(c)
  PROVE  TypeOK'
<1> USE DEF stack, peripheral, plugin, main, callers
<1> DEFINE o == owner[c].obj
<1>0. /\ StackOK /\ ClientsOK /\ OperationsOK /\ PluginOK /\ MainOK /\ AnswersOK /\ CallersOK
      /\ o \in Object
  BY TypesAreAll DEF AllOK, StackOK
<1>1. CASE Up(c)
  <2>1. StackOK' /\ MainOK' /\ CallersOK'
    BY <1>0, <1>1 DEF Up, StackOK, MainOK, CallersOK
  <2>2. ClientsOK'
    BY <1>0, <1>1, NumbersAndTasks DEF Up, ClientsOK
  <2>3. OperationsOK'
    BY <1>0, <1>1, NumbersAndTasks DEF Up, OperationsOK
  <2>4. PluginOK'
    <3>1. (registered' = registered /\ cut' = cut) \/ Forget(0)
      BY <1>1 DEF Up
    <3>2. UNCHANGED <<found, disconnecting, raced, refused>>
      BY <1>1 DEF Up
    <3>3. registered' \in 0 .. 2 /\ cut' \subseteq 0 .. MaxCalls
      <4>1. CASE Forget(0)
        <5>1. registered' = 0 /\ cut' \subseteq 0 .. MaxCalls
          BY <4>1, ForgetTypes
        <5> QED
          BY <5>1
      <4>2. CASE registered' = registered /\ cut' = cut
        BY <1>0, <4>2 DEF PluginOK
      <4> QED
        BY <3>1, <4>1, <4>2
    <3> QED
      BY <1>0, <3>2, <3>3 DEF PluginOK
  <2>5. AnswersOK'
    BY <1>0, <1>1, AnsweredOnce DEF Up, AnswersOK
  <2> QED
    BY <2>1, <2>2, <2>3, <2>4, <2>5, TypesAreAll DEF AllOK
<1>2. ASSUME NEW transient \in BOOLEAN, Down(c, transient) PROVE TypeOK'
  <2>1. CallersOK'
    BY <1>0, <1>2 DEF Down, CallersOK
  <2>2. StackOK'
    BY <1>0, <1>2 DEF Down, StackOK
  <2>3. ClientsOK'
    <3>1. attempts' \in [Object -> 0 .. MaxAttempts]
      BY <1>0, <1>2, NumbersAndTasks DEF Down, AnotherAttempt, ClientsOK
    <3> QED
      BY <1>0, <1>2, <3>1, NumbersAndTasks DEF Down, ClientsOK
  <2>4. OperationsOK'
    BY <1>0, <1>2, NumbersAndTasks DEF Down, OperationsOK
  <2>5. PluginOK'
    <3>1. (registered' = registered /\ cut' = cut) \/ Forget(c)
      BY <1>2 DEF Down
    <3> QED
      BY <1>0, <1>2, <3>1, ForgetTypes DEF Down, PluginOK
  <2>6. MainOK'
    <3>1. Connects(o) => onChange[o].call \in 0 .. MaxCalls
      BY <1>0, NumbersAndTasks DEF Connects, ClientsOK, Waiter
    <3>2. Connects(o) => Post("retry", o, 0, onChange[o].call, 0) \in Task
      BY <1>0, <3>1, PostsAreTasks
    <3> QED
      BY <1>0, <1>2, <3>2 DEF Down, AnotherAttempt, MainOK
  <2>7. AnswersOK'
    BY <1>0, <1>2, AnsweredOnce DEF Down, AnswersOK
  <2> QED
    BY <2>1, <2>2, <2>3, <2>4, <2>5, <2>6, <2>7, TypesAreAll DEF AllOK
<1>3. ASSUME NEW s \in inStack, s.client = c, Complete(s) PROVE TypeOK'
  <2> DEFINE i == slot[o][s.kind]
  <2>0. s.kind \in Slot /\ s.attempt \in 0 .. MaxAttempts /\ i \in 0 .. MaxCalls /\ s.client \in 0 .. MaxClients
    BY <1>0, <1>3, NumbersAndTasks DEF StackOK, OperationsOK
  <2>1. ClientsOK' /\ PluginOK' /\ CallersOK'
    BY <1>0, <1>3 DEF Complete, ClientsOK, PluginOK, CallersOK, history
  <2>2. StackOK'
    BY <1>0, <1>3 DEF Complete, StackOK
  <2>3. OperationsOK'
    <3>1. slot' \in [Object -> [Slot -> 0 .. MaxCalls]]
      <4>1. slot' = slot \/ slot' = [slot EXCEPT ![o][s.kind] = 0] \/ (s.kind = "access" /\ slot' = [slot EXCEPT ![o].access = 0])
        BY <1>3 DEF Complete
      <4> QED
        BY <1>0, <2>0, <4>1, NumbersAndTasks DEF OperationsOK
    <3>2. services' \in [Object -> 0 .. MaxClients]
      BY <1>0, <1>3, <2>0, NumbersAndTasks DEF Complete, OperationsOK
    <3>3. tries' \in [Object -> 0 .. MaxAttempts]
      <4>1. \/ tries' = tries \/ tries' = [tries EXCEPT ![o] = 0]
            \/ tries[o] < MaxAttempts /\ tries' = [tries EXCEPT ![o] = @ + 1]
        BY <1>3 DEF Complete
      <4>2. tries[o] < MaxAttempts => tries[o] + 1 \in 0 .. MaxAttempts
        BY <1>0, NumbersAndTasks DEF OperationsOK
      <4> QED
        BY <1>0, <4>1, <4>2, NumbersAndTasks DEF OperationsOK
    <3> QED
      BY <3>1, <3>2, <3>3 DEF OperationsOK
  <2>4. AnswersOK'
    BY <1>0, <1>3, AnsweredOnce DEF Complete, AnswersOK
  <2>5. MainOK'
    <3>1. s.attempt < MaxAttempts => s.attempt + 1 \in 0 .. MaxAttempts
      BY <2>0, NumbersAndTasks
    <3>2. s.attempt < MaxAttempts /\ i # 0 => Post("again", o, 0, i, s.attempt + 1) \in Task
      BY <1>0, <2>0, <3>1, PostsAreTasks
    <3>3. Post("rediscover", o, s.client, 0, 0) \in Task
      BY <1>0, <2>0, PostsAreTasks, NumbersAndTasks
    <3>4. \/ timers' = timers \/ timers' = timers \cup {Post("rediscover", o, s.client, 0, 0)}
          \/ i # 0 /\ s.attempt < MaxAttempts /\ timers' = timers \cup {Post("again", o, 0, i, s.attempt + 1)}
      BY <1>3 DEF Complete
    <3>5. queue' = queue /\ looper' = looper
      BY <1>3 DEF Complete
    <3> QED
      BY <1>0, <3>2, <3>3, <3>4, <3>5 DEF MainOK
  <2> QED
    BY <2>1, <2>2, <2>3, <2>4, <2>5, TypesAreAll DEF AllOK
<1> QED
  BY <1>1, <1>2, <1>3 DEF Report

\* Every step keeps the types.
LEMMA TypeStep == TypeOK /\ LocalsFit /\ [Next]_vars => TypeOK'
<1> SUFFICES ASSUME TypeOK, LocalsFit, [Next]_vars PROVE TypeOK'
  OBVIOUS
<1>1. ASSUME NEW t \in Caller, NEW i \in CallId, Begin(t, i) PROVE TypeOK'
  <2>1. StartOperation(t, i) => \E k \in Slot : Operate(t, k, i)
    BY DEF StartOperation, Slot
  <2> QED
    BY <1>1, <2>1, ConnectTypes, DisconnectTypes, OperateTypes DEF Begin
<1>2. ASSUME NEW t \in Caller, Proceed(t) PROVE TypeOK'
  <2>1. \A i \in CallId : RequestMtu(t, i) => \E k \in Slot : Operate(t, k, i)
    BY DEF RequestMtu, Slot
  <2> QED
    BY <1>2, <2>1, ProceedTypes, OperateTypes DEF Proceed
<1>3. ASSUME Advertise PROVE TypeOK'
  <2>1. AllOK /\ UNCHANGED <<stack, peripheral, registered, disconnecting, history, main, answer, callers>>
    BY <1>3, TypesAreAll DEF Advertise
  <2>2. StackOK' /\ ClientsOK' /\ OperationsOK' /\ MainOK' /\ AnswersOK' /\ CallersOK'
    BY <2>1 DEF AllOK, StackOK, ClientsOK, OperationsOK, MainOK, AnswersOK, CallersOK, stack, peripheral, main, callers
  <2>3. found' \in Object
    BY <1>3, <2>1, NumbersAndTasks DEF Advertise, AllOK, PluginOK
  <2> QED
    BY <2>1, <2>2, <2>3, TypesAreAll DEF AllOK, PluginOK, history
<1>4. ASSUME UNCHANGED vars PROVE TypeOK'
  BY <1>4, TypesAreAll DEF AllOK, StackOK, ClientsOK, OperationsOK, PluginOK, MainOK, AnswersOK,
     CallersOK, vars, stack, peripheral, plugin, main, callers, history
<1> QED
  BY <1>1, <1>2, <1>3, <1>4, GoOnTypes, RunDueTypes, RunTimerTypes, LooperTypes, ReportTypes DEF Next

-----------------------------------------------------------------------------
(* Calls                                                                   *)

\* LocalsFit is kept, given the types.
LEMMA LocalsStep == TypeOK /\ LocalsFit /\ [Next]_vars => LocalsFit'
<1> SUFFICES ASSUME TypeOK, LocalsFit, [Next]_vars PROVE LocalsFit'
  OBVIOUS
<1> USE DEF stack, peripheral, plugin, main, callers
<1>0. AllOK /\ CallersOK
  BY TypesAreAll DEF AllOK
<1>1. looper' # None => looper'.client # 0 /\ looper'.kind \in Slot
  <2>1. CASE looper' = looper \/ looper' = None
    BY <2>1 DEF LocalsFit
  <2>2. ASSUME queue # <<>>, ReadGatt(Head(queue)), looper' # looper
        PROVE  looper'.client # 0 /\ looper'.kind \in Slot
    <3> DEFINE p == Head(queue)
               g == IF p.kind = "discover" THEN p.client ELSE gatt[p.obj]
    <3>1. p \in Task
      BY <1>0, <2>2, Taken DEF AllOK, MainOK
    <3>2. g # 0 /\ p.kind \in Slot /\ looper' = [p EXCEPT !.client = g]
      BY <2>2 DEF ReadGatt
    <3> QED
      BY <3>1, <3>2 DEF Task
  <2>3. looper' = looper \/ looper' = None \/ (queue # <<>> /\ ReadGatt(Head(queue)))
    BY DEF Next, Begin, Proceed, Connect, Disconnect, StartOperation, RequestMtu, Operate, Fetch, Keep, Return,
       Advertise, RunDue, OpenClient, CloseClient, RunTimer, Retry, TryAgain, Rediscover, Fallback, GoOn, DisconnectUnused,
       DisconnectUsed, Accept, Refuse, Report, Up, Down, Complete, vars
  <2> QED
    BY <2>1, <2>2, <2>3
<1>2. ASSUME NEW u \in Caller, pc'[u] = "fetched" PROVE doing'[u] \in 0 .. MaxClients
  <2>1. CASE pc' = pc /\ doing' = doing
    BY <1>2, <2>1 DEF LocalsFit
  <2>2. ASSUME NEW t \in Caller, NEW i \in CallId, NEW where \in {"connect", "disconnect"} \cup Slot, NewCall(t, where, i)
        PROVE  doing'[u] \in 0 .. MaxClients
    <3>1. where # "fetched"
      BY DEF Slot
    <3> QED
      BY <1>0, <1>2, <2>2, <3>1 DEF NewCall, CallersOK, LocalsFit
  <2>3. ASSUME NEW t \in Caller, Fetch(t) PROVE doing'[u] \in 0 .. MaxClients
    <3>1. registered # 0 => services[registered] \in 0 .. MaxClients
      BY <1>0, NumbersAndTasks DEF AllOK, PluginOK, OperationsOK
    <3> QED
      BY <1>0, <1>2, <2>3, <3>1 DEF Fetch, CallersOK, LocalsFit
  <2>4. ASSUME NEW t \in Caller, pc' = [pc EXCEPT ![t] = "idle"], doing' = [doing EXCEPT ![t] = 0]
        PROVE  doing'[u] \in 0 .. MaxClients
    BY <1>0, <1>2, <2>4 DEF CallersOK, LocalsFit
  <2>5. \A t \in Caller, i \in CallId :
          /\ Connect(t, i) => NewCall(t, "connect", i)
          /\ Disconnect(t, i) => NewCall(t, "disconnect", i)
          /\ StartOperation(t, i) \/ RequestMtu(t, i) => \E k \in Slot : NewCall(t, k, i)
    BY DEF Connect, Disconnect, StartOperation, RequestMtu, Operate, Slot
  <2>6. \A t \in Caller : Keep(t) \/ Return(t) => pc' = [pc EXCEPT ![t] = "idle"] /\ doing' = [doing EXCEPT ![t] = 0]
    BY DEF Keep, Return
  <2>7. \/ \E t \in Caller : (\E i \in CallId : Begin(t, i)) \/ Proceed(t)
        \/ pc' = pc /\ doing' = doing
    BY DEF Next, Advertise, RunDue, OpenClient, CloseClient, ReadGatt, RunTimer, Retry, TryAgain, Rediscover, Fallback, GoOn,
       DisconnectUnused, DisconnectUsed, Accept, Refuse, Report, Up, Down, Complete, vars
  <2>8. ASSUME NEW t \in Caller, (\E i \in CallId : Begin(t, i)) \/ Proceed(t) PROVE doing'[u] \in 0 .. MaxClients
    <3>1. ASSUME NEW i \in CallId, Begin(t, i) \/ RequestMtu(t, i) PROVE doing'[u] \in 0 .. MaxClients
      BY <2>2, <2>5, <3>1 DEF Begin
    <3> QED
      BY <2>3, <2>4, <2>6, <2>8, <3>1 DEF Proceed
  <2> QED
    BY <2>1, <2>7, <2>8
<1>3. ASSUME NEW p \in disconnecting' PROVE p.call \in CallId
  <2>1. CASE p \in disconnecting
    BY <2>1 DEF LocalsFit
  <2>2. ASSUME NEW t \in Caller, NEW i \in CallId, Disconnect(t, i) PROVE p.call \in CallId
    BY <2>2 DEF Disconnect, Post, LocalsFit
  <2>3. p \in disconnecting \/ \E t \in Caller, i \in CallId : Disconnect(t, i)
    BY DEF Next, Begin, Proceed, Connect, StartOperation, RequestMtu, Operate, Fetch, Keep, Return, Advertise, RunDue,
       OpenClient, CloseClient, ReadGatt, RunTimer, Retry, TryAgain, Rediscover, Fallback, GoOn, DisconnectUnused,
       DisconnectUsed, Accept, Refuse, Report, Up, Down, Complete, vars
  <2> QED
    BY <2>1, <2>2, <2>3
<1>4. ASSUME NEW p \in timers' PROVE (p.kind = "retry" => p.call \in CallId) /\ (p.kind = "rediscover" => p.client # 0)
  <2> DEFINE Fit(q) == (q.kind = "retry" => q.call \in CallId) /\ (q.kind = "rediscover" => q.client # 0)
  <2>1. CASE p \in timers
    BY <2>1 DEF LocalsFit
  <2>2. ASSUME NEW q \in disconnecting, DisconnectUsed(q), p \notin timers PROVE Fit(p)
    <3>1. q \in Task
      BY <1>0 DEF AllOK, PluginOK
    <3>2. p = [q EXCEPT !.kind = "fallback"]
      BY <2>2 DEF DisconnectUsed
    <3> QED
      BY <3>1, <3>2 DEF Task
  <2>3. ASSUME Refuse, p \notin timers PROVE Fit(p)
    BY <2>3 DEF Refuse, Post
  <2>4. ASSUME NEW c \in Client, NEW transient \in BOOLEAN, Down(c, transient), p \notin timers PROVE Fit(p)
    <3>1. owner[c].obj \in Object
      BY <1>0 DEF AllOK, StackOK
    <3>2. Connects(owner[c].obj) /\ p = Post("retry", owner[c].obj, 0, onChange[owner[c].obj].call, 0)
      BY <2>4 DEF Down, AnotherAttempt
    <3>3. onChange[owner[c].obj].call \in CallId
      BY <1>0, <3>1, <3>2 DEF AllOK, ClientsOK, Connects, Waiter
    <3> QED
      BY <3>2, <3>3 DEF Post
  <2>5. ASSUME NEW s \in inStack, Complete(s), p \notin timers PROVE Fit(p)
    <3>1. s.client # 0
      BY <1>0 DEF AllOK, StackOK, Client
    <3>2. (\E o, i, n : p = Post("again", o, 0, i, n)) \/ (\E o : p = Post("rediscover", o, s.client, 0, 0))
      BY <2>5 DEF Complete
    <3> QED
      BY <3>1, <3>2 DEF Post
  <2>6. \/ timers' \subseteq timers \/ Refuse \/ (\E q \in disconnecting : DisconnectUsed(q))
        \/ (\E c \in Client, transient \in BOOLEAN : Down(c, transient)) \/ (\E s \in inStack : Complete(s))
    BY DEF Next, Begin, Proceed, Connect, Disconnect, StartOperation, RequestMtu, Operate, Fetch, Keep, Return, Advertise,
       RunDue, OpenClient, CloseClient, ReadGatt, RunTimer, Retry, TryAgain, Rediscover, Fallback, Elapsed, GoOn,
       DisconnectUnused, Accept, Report, Up, vars
  <2> QED
    BY <2>1, <2>2, <2>3, <2>4, <2>5, <2>6
<1> QED
  BY <1>1, <1>2, <1>3, <1>4 DEF LocalsFit

-----------------------------------------------------------------------------
(* The links of a device                                                   *)

\* A connect that no disconnect left under way and no other connect overlapped is
\* free.  While it is, it is the only attempt or link: its client is one to open,
\* now or after a delay, or it is there.
OpenPost(n) == n \in DOMAIN queue /\ queue[n].kind = "open"
RetryTimer(p) == p \in timers /\ p.kind = "retry"
Left == cut \cup raced

NoPost == \A n \in DOMAIN queue : ~OpenPost(n)
NoRetry == \A p \in timers : ~RetryTimer(p)
NoLive == \A c \in Client : ~Live(c)

Alone ==
  /\ \A n \in DOMAIN queue : OpenPost(n) /\ queue[n].call \notin Left =>
       NoRetry /\ NoLive /\ \A m \in DOMAIN queue : OpenPost(m) => m = n
  /\ \A p \in timers : RetryTimer(p) /\ p.call \notin Left =>
       NoPost /\ NoLive /\ \A q \in timers : RetryTimer(q) => q = p
  /\ \A c \in Client : Live(c) /\ owner[c].call \notin Left =>
       NoPost /\ NoRetry /\ \A d \in Client : Live(d) => d = c

\* It belongs to the Peripheral of the address, which is the one found, and which
\* knows its client.
Known ==
  /\ \A n \in DOMAIN queue : OpenPost(n) /\ queue[n].call \notin Left => registered = queue[n].obj
  /\ \A p \in timers : RetryTimer(p) /\ p.call \notin Left => registered = p.obj
  /\ \A c \in Client : Live(c) /\ owner[c].call \notin Left =>
       /\ registered = owner[c].obj
       /\ c = IF client[c] = "opening" THEN pending[registered] ELSE gatt[registered]
FoundFits == registered # 0 => found = registered

\* A Peripheral waits for no other connect than the one it attempts, and for none
\* once it has a link.
WaitsFit ==
  \A o \in Object : Connects(o) /\ onChange[o].call \notin Left =>
    /\ \A n \in DOMAIN queue : OpenPost(n) /\ queue[n].obj = o => queue[n].call = onChange[o].call
    /\ \A p \in timers : RetryTimer(p) /\ p.obj = o => p.call = onChange[o].call
    /\ \A c \in Client : Live(c) /\ owner[c].obj = o => owner[c].call = onChange[o].call
Settled ==
  \A c \in Client, o \in Object :
    client[c] \in {"open", "closing"} /\ owner[c].call \notin Left /\ owner[c].obj = o => ~Connects(o)

LinkInv == Alone /\ Known /\ FoundFits /\ WaitsFit /\ Settled

\* The posts after a step are among those before it, k places further back.
Before(k) == \A n \in DOMAIN queue' : OpenPost(n)' => OpenPost(n + k) /\ queue'[n] = queue[n + k]

\* No attempt is posted by a step that posts something else, or nothing.
LEMMA PostsKept ==
  ASSUME TypeOK, TypeOK'
  PROVE  /\ queue' = queue => Before(0)
         /\ \A p \in Task : queue' = Append(queue, p) /\ p.kind # "open" => Before(0)
         /\ queue # <<>> /\ queue' = Tail(queue) => Before(1)
<1>0. queue \in Seq(Task) /\ queue' \in Seq(Task)
  BY TypesAreAll DEF AllOK, MainOK
<1>1. \A n \in DOMAIN queue' : n \in Nat /\ n + 0 = n
  BY <1>0, LenProperties
<1>2. ASSUME queue' = queue PROVE Before(0)
  BY <1>1, <1>2 DEF Before, OpenPost
<1>3. ASSUME NEW p \in Task, queue' = Append(queue, p), p.kind # "open" PROVE Before(0)
  <2>1. /\ \A n \in DOMAIN queue : queue'[n] = queue[n]
        /\ \A n \in DOMAIN queue' : n \notin DOMAIN queue => queue'[n] = p
    BY <1>0, <1>3, Posted
  <2> QED
    BY <1>1, <1>3, <2>1 DEF Before, OpenPost
<1>4. ASSUME queue # <<>>, queue' = Tail(queue) PROVE Before(1)
  BY <1>0, <1>4, Taken DEF Before, OpenPost
<1> QED
  BY <1>2, <1>3, <1>4

\* What a disconnect of client e, or of none, leaves under way.
LEMMA AreUnderWay ==
  ASSUME NEW e
  PROVE  /\ \A n \in DOMAIN queue : OpenPost(n) => queue[n].call \in UnderWay(e)
         /\ \A p \in timers : RetryTimer(p) => p.call \in UnderWay(e)
         /\ \A c \in Client : Live(c) /\ c # e => owner[c].call \in UnderWay(e)
BY DEF OpenPost, RetryTimer, UnderWay

\* A step that adds no attempt and moves no link, unless it leaves it under way.
LEMMA LinksKept ==
  ASSUME TypeOK, TypeOK', LinkInv, NEW k \in {0, 1}, Before(k),
         \A p \in timers' : RetryTimer(p)' => RetryTimer(p),
         \A c \in Client : Live(c)' => /\ Live(c) /\ owner'[c] = owner[c]
                                       /\ client'[c] = "opening" <=> client[c] = "opening",
         cut \subseteq cut', raced \subseteq raced',
         \A o \in Object : Connects(o)' => Connects(o) /\ onChange'[o].call = onChange[o].call,
         \A n \in DOMAIN queue' : OpenPost(n)' /\ queue'[n].call \notin Left' => registered' = registered,
         \A p \in timers' : RetryTimer(p)' /\ p.call \notin Left' => registered' = registered,
         \A c \in Client : Live(c)' /\ owner'[c].call \notin Left' =>
            /\ registered' = registered
            /\ pending'[registered] = pending[registered] /\ gatt'[registered] = gatt[registered],
         FoundFits'
  PROVE  LinkInv'
<1>1. Left \subseteq Left'
  BY DEF Left
<1>2. \A n \in DOMAIN queue' : n \in Nat
  <2>1. queue' \in Seq(Task)
    BY TypesAreAll DEF AllOK, MainOK
  <2> QED
    BY <2>1, LenProperties
<1>3. \A n \in DOMAIN queue' : OpenPost(n)' => n + k \in DOMAIN queue /\ OpenPost(n + k) /\ queue'[n] = queue[n + k]
  BY DEF Before, OpenPost
<1>4. \A p \in timers' : RetryTimer(p)' => p \in timers /\ RetryTimer(p)
  BY DEF RetryTimer
<1>5. (NoPost => NoPost') /\ (NoRetry => NoRetry') /\ (NoLive => NoLive')
  <2>1. NoPost => NoPost'
    BY <1>3 DEF NoPost
  <2>2. NoRetry => NoRetry'
    BY <1>4 DEF NoRetry
  <2>3. NoLive => NoLive'
    BY DEF NoLive
  <2> QED
    BY <2>1, <2>2, <2>3
<1>6. Alone'
  <2>1. ASSUME NEW n \in DOMAIN queue', OpenPost(n)', queue'[n].call \notin Left'
        PROVE  NoRetry' /\ NoLive' /\ \A m \in DOMAIN queue' : OpenPost(m)' => m = n
    <3>1. NoRetry /\ NoLive /\ \A m \in DOMAIN queue : OpenPost(m) => m = n + k
      BY <1>1, <1>3, <2>1 DEF LinkInv, Alone
    <3> QED
      BY <1>2, <1>3, <1>5, <3>1
  <2>2. ASSUME NEW p \in timers', RetryTimer(p)', p.call \notin Left'
        PROVE  NoPost' /\ NoLive' /\ \A q \in timers' : RetryTimer(q)' => q = p
    <3>1. NoPost /\ NoLive /\ \A q \in timers : RetryTimer(q) => q = p
      BY <1>1, <1>4, <2>2 DEF LinkInv, Alone
    <3> QED
      BY <1>4, <1>5, <3>1
  <2>3. ASSUME NEW c \in Client, Live(c)', owner'[c].call \notin Left'
        PROVE  NoPost' /\ NoRetry' /\ \A d \in Client : Live(d)' => d = c
    <3>1. NoPost /\ NoRetry /\ \A d \in Client : Live(d) => d = c
      BY <1>1, <2>3 DEF LinkInv, Alone
    <3> QED
      BY <1>5, <3>1
  <2> QED
    BY <2>1, <2>2, <2>3 DEF Alone
<1>7. Known'
  <2>1. ASSUME NEW n \in DOMAIN queue', OpenPost(n)', queue'[n].call \notin Left' PROVE registered' = queue'[n].obj
    BY <1>1, <1>3, <2>1 DEF LinkInv, Known
  <2>2. ASSUME NEW p \in timers', RetryTimer(p)', p.call \notin Left' PROVE registered' = p.obj
    BY <1>1, <1>4, <2>2 DEF LinkInv, Known
  <2>3. ASSUME NEW c \in Client, Live(c)', owner'[c].call \notin Left'
        PROVE  /\ registered' = owner'[c].obj
               /\ c = IF client'[c] = "opening" THEN pending'[registered'] ELSE gatt'[registered']
    BY <1>1, <2>3 DEF LinkInv, Known
  <2> QED
    BY <2>1, <2>2, <2>3 DEF Known
<1>8. WaitsFit'
  <2> SUFFICES ASSUME NEW o \in Object, Connects(o)', onChange'[o].call \notin Left'
               PROVE  /\ \A n \in DOMAIN queue' : OpenPost(n)' /\ queue'[n].obj = o => queue'[n].call = onChange'[o].call
                      /\ \A p \in timers' : RetryTimer(p)' /\ p.obj = o => p.call = onChange'[o].call
                      /\ \A c \in Client : Live(c)' /\ owner'[c].obj = o => owner'[c].call = onChange'[o].call
    BY DEF WaitsFit
  <2>1. /\ \A n \in DOMAIN queue : OpenPost(n) /\ queue[n].obj = o => queue[n].call = onChange'[o].call
        /\ \A p \in timers : RetryTimer(p) /\ p.obj = o => p.call = onChange'[o].call
        /\ \A c \in Client : Live(c) /\ owner[c].obj = o => owner[c].call = onChange'[o].call
    BY <1>1 DEF LinkInv, WaitsFit
  <2> QED
    BY <1>3, <1>4, <2>1
<1>9. Settled'
  <2> SUFFICES ASSUME NEW c \in Client, NEW o \in Object, client'[c] \in {"open", "closing"}, owner'[c].call \notin Left',
                      owner'[c].obj = o, Connects(o)'
               PROVE  FALSE
    BY DEF Settled
  <2>1. Live(c)' /\ client'[c] # "opening"
    BY DEF Live
  <2>2. Live(c) /\ owner'[c] = owner[c] /\ client[c] # "opening"
    BY <2>1
  <2>3. client[c] \in {"open", "closing"} /\ owner[c].call \notin Left
    BY <1>1, <2>2 DEF Live
  <2> QED
    BY <2>2, <2>3 DEF LinkInv, Settled
<1> QED
  BY <1>6, <1>7, <1>8, <1>9 DEF LinkInv

\* A step that is not about links.
LEMMA LinksUntouched ==
  ASSUME TypeOK, TypeOK', LinkInv, NEW k \in {0, 1}, Before(k),
         \A p \in timers' : RetryTimer(p)' => RetryTimer(p),
         UNCHANGED <<client, owner, gatt, pending, onChange, registered, cut, raced>>, FoundFits'
  PROVE  LinkInv'
<1>1. \A c \in Client : Live(c)' => /\ Live(c) /\ owner'[c] = owner[c]
                                    /\ client'[c] = "opening" <=> client[c] = "opening"
  BY DEF Live
<1>2. \A o \in Object : Connects(o)' => Connects(o) /\ onChange'[o].call = onChange[o].call
  BY DEF Connects
<1> QED
  BY <1>1, <1>2, LinksKept

\* FoundFits is about two variables.
LEMMA FoundStays == LinkInv /\ UNCHANGED <<registered, found>> => FoundFits'
BY DEF LinkInv, FoundFits

\* A scan that sees the device again, and no step at all.
LEMMA AdvertiseKeepsLinks ==
  ASSUME TypeOK, TypeOK', LinkInv, Advertise \/ UNCHANGED vars
  PROVE  LinkInv'
<1>1. UNCHANGED <<client, owner, gatt, pending, onChange, registered, cut, raced, queue, timers>>
  BY DEF Advertise, vars, stack, peripheral, plugin, main, callers, history
<1>2. FoundFits'
  <2>1. CASE Advertise
    BY <2>1 DEF Advertise, FoundFits
  <2>2. CASE UNCHANGED vars
    BY <2>2, FoundStays DEF vars, plugin
  <2> QED
    BY <2>1, <2>2
<1> QED
  BY <1>1, <1>2, PostsKept, LinksUntouched DEF RetryTimer

\* What the callers do, but for connect.
LEMMA CallersKeepLinks ==
  ASSUME TypeOK, TypeOK', LinkInv, NEW t \in Caller,
         \/ \E i \in CallId : Disconnect(t, i) \/ StartOperation(t, i) \/ RequestMtu(t, i)
         \/ Fetch(t) \/ Keep(t) \/ Return(t)
  PROVE  LinkInv'
<1> USE DEF stack, peripheral, plugin, main, callers, history
<1>1. ASSUME UNCHANGED <<client, owner, gatt, pending, onChange, registered, cut, raced, timers>>, FoundFits', Before(0)
      PROVE  LinkInv'
  BY <1>1, LinksUntouched DEF RetryTimer
<1>2. ASSUME NEW i \in CallId, NEW k \in Slot, Operate(t, k, i) PROVE LinkInv'
  <2>1. UNCHANGED <<client, owner, gatt, pending, onChange, registered, found, cut, raced, timers>>
    BY <1>2 DEF Operate
  <2>2. Before(0)
    <3> DEFINE p == Post(k, registered, IF k = "discover" THEN gatt[registered] ELSE 0, i, 0)
    <3>1. queue' = queue \/ (registered # 0 /\ queue' = Append(queue, p))
      BY <1>2 DEF Operate
    <3>2. registered # 0 => p \in Task
      <4>1. AllOK
        BY TypesAreAll
      <4>2. registered # 0 => registered \in Object
        BY <4>1, NumbersAndTasks DEF AllOK, PluginOK
      <4>3. registered \in Object => (IF k = "discover" THEN gatt[registered] ELSE 0) \in 0 .. MaxClients
        BY <4>1, NumbersAndTasks DEF AllOK, ClientsOK
      <4>4. i \in 0 .. MaxCalls
        BY NumbersAndTasks
      <4> QED
        BY <4>2, <4>3, <4>4, PostsAreTasks
    <3>3. p.kind # "open"
      BY DEF Post, Slot
    <3> QED
      BY <3>1, <3>2, <3>3, PostsKept
  <2> QED
    BY <1>1, <2>1, <2>2, FoundStays
<1>3. CASE UNCHANGED <<client, owner, gatt, pending, onChange, registered, found, cut, raced, main>>
  BY <1>1, <1>3, FoundStays, PostsKept
<1>5. \A i \in CallId : StartOperation(t, i) \/ RequestMtu(t, i) => \E k \in Slot : Operate(t, k, i)
  BY DEF StartOperation, RequestMtu, Slot
<1>6. CASE \E i \in CallId : Disconnect(t, i)
  BY <1>3, <1>6 DEF Disconnect
<1>7. CASE Fetch(t) \/ Keep(t) \/ Return(t)
  BY <1>3, <1>7 DEF Fetch, Keep, Return
<1> QED
  BY <1>2, <1>5, <1>6, <1>7

\* The operations of the main looper, and how they end.
LEMMA OperationsKeepLinks ==
  ASSUME TypeOK, TypeOK', LinkInv,
         \/ queue # <<>> /\ ReadGatt(Head(queue))
         \/ \E p \in timers : TryAgain(p) \/ Rediscover(p)
         \/ Accept \/ Refuse \/ \E s \in inStack : Complete(s)
  PROVE  LinkInv'
<1> USE DEF stack, peripheral, plugin, main, callers, history
<1>0. AllOK
  BY TypesAreAll
<1>1. UNCHANGED <<client, owner, gatt, pending, onChange, registered, found, cut, raced>>
  BY DEF ReadGatt, TryAgain, Rediscover, Accept, Refuse, Complete
<1>2. \A p \in timers' : RetryTimer(p)' => RetryTimer(p)
  <2>1. ASSUME NEW p \in timers', p \notin timers PROVE p.kind # "retry"
    <3>1. ASSUME NEW s \in inStack, Complete(s) PROVE p.kind # "retry"
      <4> DEFINE o == owner[s.client].obj
                 again == Post("again", o, 0, slot[o][s.kind], s.attempt + 1)
                 anew == Post("rediscover", o, s.client, 0, 0)
      <4>1. timers' = timers \/ timers' = timers \cup {again} \/ timers' = timers \cup {anew}
        BY <3>1 DEF Complete
      <4>2. again.kind = "again" /\ anew.kind = "rediscover"
        BY DEF Post
      <4> QED
        BY <2>1, <4>1, <4>2
    <3>2. ASSUME Refuse PROVE p.kind # "retry"
      BY <2>1, <3>2 DEF Refuse, Post
    <3>3. (queue # <<>> /\ ReadGatt(Head(queue))) \/ (\E q \in timers : TryAgain(q) \/ Rediscover(q)) \/ Accept
          => timers' \subseteq timers
      BY DEF ReadGatt, TryAgain, Rediscover, Elapsed, Accept
    <3> QED
      BY <2>1, <3>1, <3>2, <3>3
  <2> QED
    BY <2>1 DEF RetryTimer
<1>3. Before(0) \/ Before(1)
  <2>1. CASE queue # <<>> /\ ReadGatt(Head(queue))
    <3>1. queue # <<>> /\ queue' = Tail(queue)
      BY <2>1 DEF ReadGatt, Due
    <3> QED
      BY <3>1, PostsKept
  <2>2. ASSUME NEW p \in timers, TryAgain(p) PROVE Before(0)
    <3>1. [p EXCEPT !.kind = "access"] \in Task /\ [p EXCEPT !.kind = "access"].kind # "open"
      BY <1>0 DEF AllOK, MainOK, Task, Slot
    <3>2. queue' = Append(queue, [p EXCEPT !.kind = "access"])
      BY <2>2 DEF TryAgain
    <3> QED
      BY <3>1, <3>2, PostsKept
  <2>3. CASE queue' = queue
    BY <2>3, PostsKept
  <2>4. (\E p \in timers : Rediscover(p)) \/ Accept \/ Refuse \/ (\E s \in inStack : Complete(s)) => queue' = queue
    BY DEF Rediscover, Accept, Refuse, Complete
  <2> QED
    BY <2>1, <2>2, <2>3, <2>4
<1> QED
  BY <1>1, <1>2, <1>3, LinksUntouched, FoundStays

\* The client of a connect that is free is one its Peripheral knows, and those of
\* other calls are not there.
LEMMA NothingElse ==
  ASSUME LinkInv, NEW c \in Client, Live(c)
  PROVE  /\ \A d \in Client : Live(d) /\ owner[d].call \notin Left => d = c
         /\ \A n \in DOMAIN queue : OpenPost(n) => queue[n].call \in Left
         /\ \A p \in timers : RetryTimer(p) => p.call \in Left
BY DEF LinkInv, Alone, NoLive

\* A client that is closed or cancelled is no link.
LEMMA CloseKeepsLinks ==
  ASSUME TypeOK, TypeOK', LinkInv, queue # <<>>, CloseClient(Head(queue))
  PROVE  LinkInv'
<1> USE DEF stack, peripheral, plugin, main, callers, history
<1> DEFINE p == Head(queue)
<1>0. StackOK
  BY TypesAreAll DEF AllOK
<1>1. UNCHANGED <<owner, gatt, pending, onChange, registered, found, cut, raced, timers>> /\ queue' = Tail(queue)
  BY DEF CloseClient, Due
<1>2. client' = [client EXCEPT ![p.client] =
                   IF p.kind = "cancel" THEN "closed" ELSE IF @ = "open" THEN "closing" ELSE @]
  BY DEF CloseClient
<1> HIDE DEF p
<1>3. \A c \in Client : Live(c)' => /\ Live(c) /\ owner'[c] = owner[c]
                                    /\ client'[c] = "opening" <=> client[c] = "opening"
  BY <1>0, <1>1, <1>2 DEF Live, StackOK
<1>4. Before(1) /\ FoundFits'
  BY <1>1, PostsKept, FoundStays
<1>5. \A o \in Object : Connects(o)' => Connects(o) /\ onChange'[o].call = onChange[o].call
  BY <1>1 DEF Connects
<1>6. \A q \in timers' : RetryTimer(q)' => RetryTimer(q)
  BY <1>1 DEF RetryTimer
<1> QED
  BY <1>1, <1>3, <1>4, <1>5, <1>6, LinksKept

\* A disconnect that has read which client there is.
LEMMA GoOnKeepsLinks ==
  ASSUME TypeOK, TypeOK', LocalsFit, LinkInv, NEW p \in disconnecting, GoOn(p)
  PROVE  LinkInv'
<1> USE DEF stack, callers
<1>0. /\ StackOK /\ ClientsOK /\ PluginOK /\ MainOK /\ p \in Task /\ p.obj \in Object /\ p.call \in 0 .. MaxCalls
  BY TypesAreAll, NumbersAndTasks DEF AllOK, PluginOK
<1>1. CASE DisconnectUnused(p)
  <2>1. /\ UNCHANGED <<client, owner, gatt, onChange, raced, timers>>
        /\ registered' = 0 /\ cut' = cut \cup UnderWay(0)
    BY <1>1 DEF DisconnectUnused, Forget
  <2>2. Before(0)
    <3> DEFINE q == Post("cancel", p.obj, pending[p.obj], p.call, 0)
    <3>1. queue' = queue \/ queue' = Append(queue, q)
      BY <1>1 DEF DisconnectUnused
    <3>2. q \in Task
      <4>1. pending[p.obj] \in 0 .. MaxClients
        BY <1>0 DEF ClientsOK
      <4> QED
        BY <1>0, <4>1, PostsAreTasks
    <3>3. q.kind # "open"
      BY DEF Post
    <3> HIDE DEF q
    <3> QED
      BY <3>1, <3>2, <3>3, PostsKept
  <2>3. \A n \in DOMAIN queue' : OpenPost(n)' => queue'[n].call \in Left'
    <3>1. queue' \in Seq(Task)
      BY TypesAreAll DEF AllOK, MainOK
    <3>2. \A n \in DOMAIN queue' : n \in Nat /\ n + 0 = n
      BY <3>1, LenProperties
    <3>3. \A n \in DOMAIN queue' : OpenPost(n)' => n \in DOMAIN queue /\ OpenPost(n) /\ queue'[n] = queue[n]
      BY <2>2, <3>2 DEF Before, OpenPost
    <3> QED
      BY <2>1, <3>3, AreUnderWay DEF Left
  <2>4. \A q \in timers' : RetryTimer(q)' => q.call \in Left' /\ RetryTimer(q)
    BY <2>1, AreUnderWay DEF Left, RetryTimer
  <2>5. \A c \in Client : Live(c)' => /\ Live(c) /\ owner'[c] = owner[c] /\ owner'[c].call \in Left'
                                      /\ client'[c] = "opening" <=> client[c] = "opening"
    <3>1. \A c \in Client : c # 0
      BY DEF Client
    <3>2. \A c \in Client : Live(c) => owner[c].call \in UnderWay(0)
      BY <3>1, AreUnderWay
    <3> QED
      BY <2>1, <3>2 DEF Left, Live
  <2>6. \A o \in Object : Connects(o)' => Connects(o) /\ onChange'[o].call = onChange[o].call
    BY <2>1 DEF Connects
  <2>7. FoundFits' /\ cut \subseteq cut' /\ raced \subseteq raced'
    BY <2>1 DEF FoundFits
  <2> QED
    BY <2>2, <2>3, <2>4, <2>5, <2>6, <2>7, LinksKept
<1>2. CASE DisconnectUsed(p)
  <2>1. /\ UNCHANGED <<client, owner, gatt, pending, registered, found, raced>> /\ cut \subseteq cut'
        /\ onChange' = [onChange EXCEPT ![p.obj] = [kind |-> "disconnect", call |-> p.call]]
        /\ timers' = timers \cup {[p EXCEPT !.kind = "fallback"]}
        /\ queue' = Append(queue, [p EXCEPT !.kind = "close"])
    BY <1>2 DEF DisconnectUsed
  <2>2. Before(0)
    <3>1. [p EXCEPT !.kind = "close"] \in Task /\ [p EXCEPT !.kind = "close"].kind # "open"
      BY <1>0 DEF Task
    <3> QED
      BY <2>1, <3>1, PostsKept
  <2>3. \A q \in timers' : RetryTimer(q)' => RetryTimer(q)
    <3>1. [p EXCEPT !.kind = "fallback"].kind # "retry"
      BY <1>0 DEF Task
    <3> QED
      BY <2>1, <3>1 DEF RetryTimer
  <2>4. \A o \in Object : Connects(o)' => Connects(o) /\ onChange'[o].call = onChange[o].call
    BY <1>0, <2>1 DEF Connects, ClientsOK
  <2>5. \A c \in Client : Live(c)' => /\ Live(c) /\ owner'[c] = owner[c]
                                      /\ client'[c] = "opening" <=> client[c] = "opening"
    BY <2>1 DEF Live
  <2>6. FoundFits'
    BY <2>1, FoundStays
  <2> QED
    BY <2>1, <2>2, <2>3, <2>4, <2>5, <2>6, LinksKept
<1> QED
  BY <1>1, <1>2 DEF GoOn

\* A disconnect that is not answered in time leaves every other link.
LEMMA FallbackKeepsLinks ==
  ASSUME TypeOK, TypeOK', LinkInv, NEW p \in timers, Fallback(p)
  PROVE  LinkInv'
<1> USE DEF stack, callers
<1>0. /\ StackOK /\ ClientsOK /\ MainOK /\ p \in Task /\ p.obj \in Object
  BY TypesAreAll, NumbersAndTasks DEF AllOK, MainOK
<1>1. UNCHANGED <<owner, pending, found, raced, queue>> /\ timers' \subseteq timers
  BY DEF Fallback, Elapsed
<1>2. Before(0) /\ \A q \in timers' : RetryTimer(q)' => RetryTimer(q)
  BY <1>1, PostsKept DEF RetryTimer
<1>3. CASE answer[p.call] = "open"
  <2> DEFINE e == p.client
  <2>1. /\ gatt' = [gatt EXCEPT ![p.obj] = 0] /\ client' = [client EXCEPT ![e] = "closed"]
        /\ onChange' = [onChange EXCEPT ![p.obj] = None]
        /\ registered' = 0 /\ cut' = cut \cup UnderWay(e)
    BY <1>3 DEF Fallback, Forget
  <2> HIDE DEF e
  <2>2. \A n \in DOMAIN queue' : OpenPost(n)' => queue'[n].call \in Left'
    BY <1>1, <2>1, AreUnderWay DEF Left, OpenPost
  <2>3. \A q \in timers' : RetryTimer(q)' => q.call \in Left'
    BY <1>1, <2>1, AreUnderWay DEF Left, RetryTimer
  <2>4. \A c \in Client : Live(c)' => /\ Live(c) /\ owner'[c] = owner[c] /\ owner'[c].call \in Left'
                                      /\ client'[c] = "opening" <=> client[c] = "opening"
    <3>1. \A c \in Client : Live(c)' => c # e /\ client'[c] = client[c]
      BY <1>0, <2>1 DEF Live, StackOK
    <3>2. \A c \in Client : Live(c) /\ c # e => owner[c].call \in UnderWay(e)
      BY AreUnderWay
    <3>3. \A c \in Client : Live(c)' => Live(c)
      BY <3>1 DEF Live
    <3> QED
      BY <1>1, <2>1, <3>1, <3>2, <3>3 DEF Left
  <2>5. \A o \in Object : Connects(o)' => Connects(o) /\ onChange'[o].call = onChange[o].call
    BY <1>0, <2>1 DEF Connects, ClientsOK
  <2>6. FoundFits' /\ cut \subseteq cut' /\ raced \subseteq raced'
    BY <1>1, <2>1 DEF FoundFits
  <2> QED
    BY <1>2, <2>2, <2>3, <2>4, <2>5, <2>6, LinksKept
<1>4. CASE answer[p.call] # "open"
  <2>1. UNCHANGED <<gatt, client, onChange, registered, cut>>
    BY <1>4 DEF Fallback
  <2>2. FoundFits'
    BY <1>1, <2>1, FoundStays
  <2> QED
    BY <1>1, <1>2, <2>1, <2>2, LinksUntouched
<1> QED
  BY <1>3, <1>4

\* A connect overlaps every attempt and link there is, or is the only one.
LEMMA ConnectKeepsLinks ==
  ASSUME TypeOK, TypeOK', LinkInv, NEW t \in Caller, NEW i \in CallId, Connect(t, i)
  PROVE  LinkInv'
<1> USE DEF stack, callers
<1> DEFINE o == Chosen
           p == Post("open", o, 0, i, 0)
<1>0. /\ StackOK /\ ClientsOK /\ PluginOK /\ MainOK
  BY TypesAreAll DEF AllOK
<1>1. o = found /\ o \in Object
  BY <1>0 DEF Chosen, LinkInv, FoundFits, PluginOK
<1>2. registered # 0 => registered = o
  BY <1>1 DEF LinkInv, FoundFits
<1>3. UNCHANGED <<client, owner, gatt, pending, found, cut, timers>> /\ registered' = o
  BY DEF Connect
<1>4. FoundFits'
  BY <1>1, <1>3 DEF FoundFits
<1> HIDE DEF o
<1>5. CASE UNCHANGED <<onChange, queue, raced>>
  <2>1. \A n \in DOMAIN queue : OpenPost(n) /\ queue[n].call \notin Left => registered # 0
    <3>1. \A n \in DOMAIN queue : queue[n] \in Task
      BY <1>0 DEF MainOK
    <3> QED
      BY <3>1, NumbersAndTasks DEF LinkInv, Known
  <2>2. \A q \in timers : RetryTimer(q) /\ q.call \notin Left => registered # 0
    <3>1. \A q \in timers : q.obj \in Object
      BY <1>0, NumbersAndTasks DEF MainOK
    <3> QED
      BY <3>1, NumbersAndTasks DEF LinkInv, Known
  <2>3. \A c \in Client : Live(c) /\ owner[c].call \notin Left => registered # 0
    <3>1. \A c \in Client : owner[c].obj \in Object
      BY <1>0 DEF StackOK
    <3> QED
      BY <3>1, NumbersAndTasks DEF LinkInv, Known
  <2>4. Left' = Left /\ Before(0)
    BY <1>3, <1>5, PostsKept DEF Left
  <2>5. /\ \A n \in DOMAIN queue' : OpenPost(n)' /\ queue'[n].call \notin Left' => registered' = registered
        /\ \A q \in timers' : RetryTimer(q)' /\ q.call \notin Left' => registered' = registered
        /\ \A c \in Client : Live(c)' /\ owner'[c].call \notin Left' => registered' = registered
    BY <1>2, <1>3, <1>5, <2>1, <2>2, <2>3, <2>4 DEF OpenPost, RetryTimer, Live
  <2>6. \A c \in Client : Live(c)' => /\ Live(c) /\ owner'[c] = owner[c]
                                      /\ client'[c] = "opening" <=> client[c] = "opening"
    BY <1>3 DEF Live
  <2>7. \A q \in Object : Connects(q)' => Connects(q) /\ onChange'[q].call = onChange[q].call
    BY <1>5 DEF Connects
  <2>8. \A q \in timers' : RetryTimer(q)' => RetryTimer(q)
    BY <1>3 DEF RetryTimer
  <2> QED
    BY <1>3, <1>4, <1>5, <2>4, <2>5, <2>6, <2>7, <2>8, LinksKept
<1>6. CASE /\ onChange' = [onChange EXCEPT ![o] = [kind |-> "connect", call |-> i]]
           /\ queue' = Append(queue, p)
           /\ raced' = raced \cup IF UnderWay(0) = {} THEN {} ELSE UnderWay(0) \cup {i}
  <2>0. p \in Task /\ p.kind = "open" /\ p.obj = o /\ p.call = i
    <3>1. i \in 0 .. MaxCalls
      BY NumbersAndTasks
    <3> QED
      BY <1>1, <3>1, PostsAreTasks DEF Post
  <2> HIDE DEF p
  <2>1. /\ \A n \in DOMAIN queue' : OpenPost(n)' => (n \in DOMAIN queue /\ OpenPost(n) /\ queue'[n] = queue[n]) \/ queue'[n] = p
        /\ \A n, m \in DOMAIN queue' : n \notin DOMAIN queue /\ m \notin DOMAIN queue => n = m
    <3>1. queue \in Seq(Task)
      BY <1>0 DEF MainOK
    <3> QED
      BY <1>6, <2>0, <3>1, Posted DEF OpenPost
  <2>2. \A q : RetryTimer(q)' <=> RetryTimer(q)
    BY <1>3 DEF RetryTimer
  <2>3. \A c \in Client : Live(c)' <=> Live(c)
    BY <1>3 DEF Live
  <2>4. /\ \A n \in DOMAIN queue : OpenPost(n) => queue[n].call \in UnderWay(0)
        /\ \A q \in timers : RetryTimer(q) => q.call \in UnderWay(0)
        /\ \A c \in Client : Live(c) => owner[c].call \in UnderWay(0)
    <3>1. \A c \in Client : c # 0
      BY DEF Client
    <3> QED
      BY <3>1, AreUnderWay
  <2>5. \A q \in Object : q # o => (Connects(q)' <=> Connects(q)) /\ onChange'[q] = onChange[q]
    BY <1>0, <1>6 DEF Connects, ClientsOK
  <2>6. onChange'[o].call = i
    BY <1>0, <1>1, <1>6 DEF ClientsOK
  <2>7. CASE UnderWay(0) = {}
    <3>1. NoPost /\ NoRetry /\ NoLive /\ NoRetry' /\ NoLive'
      BY <2>2, <2>3, <2>4, <2>7, <1>3 DEF NoPost, NoRetry, NoLive
    <3>2. \A n \in DOMAIN queue' : OpenPost(n)' => n \notin DOMAIN queue /\ queue'[n] = p
      <4>1. \A n \in DOMAIN queue : ~OpenPost(n)
        BY <3>1 DEF NoPost
      <4>2. \A n \in DOMAIN queue : queue'[n] = queue[n]
        BY <1>0, <1>6, <2>0, Posted DEF MainOK
      <4> QED
        BY <2>1, <4>1, <4>2 DEF OpenPost
    <3>3. Alone'
      BY <2>1, <3>1, <3>2 DEF Alone, NoRetry, NoLive
    <3>4. Known'
      BY <1>3, <2>0, <3>1, <3>2 DEF Known, NoRetry, NoLive
    <3>5. WaitsFit'
      BY <2>0, <2>6, <3>1, <3>2 DEF WaitsFit, NoRetry, NoLive
    <3>6. Settled'
      BY <3>1 DEF Settled, NoLive, Live
    <3> QED
      BY <1>4, <3>3, <3>4, <3>5, <3>6 DEF LinkInv
  <2>8. CASE UnderWay(0) # {}
    <3>1. Left' = Left \cup UnderWay(0) \cup {i}
      BY <1>3, <1>6, <2>8 DEF Left
    <3>2. \A n \in DOMAIN queue' : OpenPost(n)' => queue'[n].call \in Left'
      BY <2>0, <2>1, <2>4, <3>1
    <3>3. \A q \in timers' : RetryTimer(q)' => q.call \in Left'
      BY <1>3, <2>2, <2>4, <3>1
    <3>4. \A c \in Client : Live(c)' => owner'[c].call \in Left'
      BY <1>3, <2>3, <2>4, <3>1
    <3>5. Alone' /\ Known'
      BY <3>2, <3>3, <3>4 DEF Alone, Known
    <3>6. WaitsFit'
      <4> SUFFICES ASSUME NEW q \in Object, Connects(q)', onChange'[q].call \notin Left'
                   PROVE  /\ \A n \in DOMAIN queue' : OpenPost(n)' /\ queue'[n].obj = q => queue'[n].call = onChange'[q].call
                          /\ \A r \in timers' : RetryTimer(r)' /\ r.obj = q => r.call = onChange'[q].call
                          /\ \A c \in Client : Live(c)' /\ owner'[c].obj = q => owner'[c].call = onChange'[q].call
        BY DEF WaitsFit
      <4>1. q # o
        BY <2>6, <3>1
      <4>2. Connects(q) /\ onChange'[q] = onChange[q] /\ onChange[q].call \notin Left
        BY <2>5, <3>1, <4>1
      <4>3. /\ \A n \in DOMAIN queue : OpenPost(n) /\ queue[n].obj = q => queue[n].call = onChange[q].call
            /\ \A r \in timers : RetryTimer(r) /\ r.obj = q => r.call = onChange[q].call
            /\ \A c \in Client : Live(c) /\ owner[c].obj = q => owner[c].call = onChange[q].call
        BY <4>2 DEF LinkInv, WaitsFit
      <4> QED
        BY <1>3, <2>0, <2>1, <2>2, <2>3, <4>1, <4>2, <4>3
    <3>7. Settled'
      <4>1. \A c \in Client : client'[c] \in {"open", "closing"} => Live(c)'
        BY DEF Live
      <4> QED
        BY <3>4, <4>1 DEF Settled
    <3> QED
      BY <1>4, <3>5, <3>6, <3>7 DEF LinkInv
  <2> QED
    BY <2>7, <2>8
<1> QED
  BY <1>5, <1>6 DEF Connect, o

\* The post that opens a client becomes that client, or is gone.
LEMMA OpenKeepsLinks ==
  ASSUME TypeOK, TypeOK', LinkInv, queue # <<>>, OpenClient(Head(queue))
  PROVE  LinkInv'
<1> USE DEF stack, plugin, callers, history
<1> DEFINE p == Head(queue)
           o == p.obj
<1>0. /\ StackOK /\ ClientsOK /\ MainOK /\ p \in Task /\ o \in Object /\ queue' = Tail(queue)
      /\ p.kind = "open" /\ 1 \in DOMAIN queue /\ queue[1] = p
  BY TypesAreAll, NumbersAndTasks, Taken DEF AllOK, MainOK, OpenClient, Due
<1>1. UNCHANGED <<gatt, registered, found, cut, raced, timers>> /\ Before(1) /\ FoundFits' /\ Left' = Left
  <2>1. UNCHANGED <<gatt, registered, found, cut, raced, timers>>
    BY DEF OpenClient
  <2> QED
    BY <1>0, <2>1, PostsKept, FoundStays DEF Left
<1>2. ASSUME NEW c \in Client, client[c] = "unused",
             client' = [client EXCEPT ![c] = "opening"], owner' = [owner EXCEPT ![c] = [obj |-> o, call |-> p.call]],
             pending' = [pending EXCEPT ![o] = c], onChange' = onChange
      PROVE  LinkInv'
  <2>0. OpenPost(1) /\ ~Live(c)
    BY <1>0, <1>2 DEF OpenPost, Live
  <2>1. /\ client'[c] = "opening" /\ owner'[c].obj = o /\ owner'[c].call = p.call /\ Live(c)'
        /\ pending'[o] = c
    BY <1>0, <1>2 DEF StackOK, ClientsOK, Live
  <2>2. \A d \in Client : d # c => (Live(d)' <=> Live(d)) /\ owner'[d] = owner[d] /\ client'[d] = client[d]
    BY <1>0, <1>2 DEF StackOK, Live
  <2>3. \A n \in DOMAIN queue' : OpenPost(n)' => n + 1 \in DOMAIN queue /\ OpenPost(n + 1) /\ queue'[n] = queue[n + 1] /\ n + 1 # 1
    <3>1. queue' \in Seq(Task)
      BY TypesAreAll DEF AllOK, MainOK
    <3>2. \A n \in DOMAIN queue' : n \in Nat /\ n # 0
      BY <3>1, LenProperties
    <3> QED
      BY <1>1, <3>2 DEF Before, OpenPost
  <2>4. \A q : RetryTimer(q)' <=> RetryTimer(q)
    BY <1>1 DEF RetryTimer
  <2>5. \A q \in Object : Connects(q)' <=> Connects(q)
    BY <1>2 DEF Connects
  \* No other attempt or link is free.
  <2>6. /\ \A n \in DOMAIN queue' : OpenPost(n)' => queue'[n].call \in Left
        /\ \A q \in timers' : RetryTimer(q)' => q.call \in Left
        /\ \A d \in Client : d # c /\ Live(d)' => owner'[d].call \in Left
    <3>1. \A n \in DOMAIN queue : OpenPost(n) /\ n # 1 => queue[n].call \in Left
      BY <1>0, <2>0 DEF LinkInv, Alone
    <3>2. \A q \in timers : RetryTimer(q) => q.call \in Left
      BY <1>0, <2>0 DEF LinkInv, Alone, NoPost
    <3>3. \A d \in Client : Live(d) => owner[d].call \in Left
      BY <1>0, <2>0 DEF LinkInv, Alone, NoPost
    <3> QED
      BY <1>1, <2>2, <2>3, <2>4, <3>1, <3>2, <3>3
  \* If this one is, there is no other.
  <2>7. ASSUME p.call \notin Left
        PROVE  NoPost' /\ NoRetry' /\ (\A d \in Client : Live(d)' => d = c) /\ registered = o
    <3>1. NoRetry /\ NoLive /\ (\A m \in DOMAIN queue : OpenPost(m) => m = 1) /\ registered = o
      BY <1>0, <2>0, <2>7 DEF LinkInv, Alone, Known
    <3>2. NoPost'
      BY <2>3, <3>1 DEF NoPost
    <3>3. NoRetry'
      BY <1>1, <2>4, <3>1 DEF NoRetry
    <3> QED
      BY <2>2, <3>1, <3>2, <3>3 DEF NoLive
  <2>8. Alone'
    BY <1>1, <2>1, <2>6, <2>7 DEF Alone
  <2>9. Known'
    <3>1. ASSUME NEW d \in Client, Live(d)', owner'[d].call \notin Left'
          PROVE  /\ registered' = owner'[d].obj
                 /\ d = IF client'[d] = "opening" THEN pending'[registered'] ELSE gatt'[registered']
      BY <1>1, <2>1, <2>6, <2>7, <3>1
    <3> QED
      BY <1>1, <2>6, <3>1 DEF Known
  <2>10. WaitsFit'
    <3> SUFFICES ASSUME NEW q \in Object, Connects(q)', onChange'[q].call \notin Left'
                 PROVE  /\ \A n \in DOMAIN queue' : OpenPost(n)' /\ queue'[n].obj = q => queue'[n].call = onChange'[q].call
                        /\ \A r \in timers' : RetryTimer(r)' /\ r.obj = q => r.call = onChange'[q].call
                        /\ \A d \in Client : Live(d)' /\ owner'[d].obj = q => owner'[d].call = onChange'[q].call
      BY DEF WaitsFit
    <3>1. /\ \A n \in DOMAIN queue : OpenPost(n) /\ queue[n].obj = q => queue[n].call = onChange'[q].call
          /\ \A r \in timers : RetryTimer(r) /\ r.obj = q => r.call = onChange'[q].call
          /\ \A d \in Client : Live(d) /\ owner[d].obj = q => owner[d].call = onChange'[q].call
      BY <1>1, <1>2, <2>5 DEF LinkInv, WaitsFit
    <3>2. o = q => p.call = onChange'[q].call
      BY <1>0, <2>0, <3>1
    <3> QED
      BY <1>1, <2>1, <2>2, <2>3, <2>4, <3>1, <3>2
  <2>11. Settled'
    <3> SUFFICES ASSUME NEW d \in Client, NEW q \in Object, client'[d] \in {"open", "closing"}, owner'[d].call \notin Left',
                        owner'[d].obj = q
                 PROVE  ~Connects(q)'
      BY DEF Settled
    <3>1. d # c
      BY <2>1
    <3>2. Live(d)'
      BY DEF Live
    <3> QED
      BY <1>1, <2>6, <3>1, <3>2
  <2> QED
    BY <1>1, <2>8, <2>9, <2>10, <2>11 DEF LinkInv
<1>3. CASE onChange' = [onChange EXCEPT ![o] = None] /\ UNCHANGED <<client, owner, pending>>
  <2>1. \A q \in Object : Connects(q)' => Connects(q) /\ onChange'[q].call = onChange[q].call
    BY <1>0, <1>3 DEF Connects, ClientsOK
  <2>2. \A c \in Client : Live(c)' => /\ Live(c) /\ owner'[c] = owner[c]
                                      /\ client'[c] = "opening" <=> client[c] = "opening"
    BY <1>3 DEF Live
  <2>3. \A q \in timers' : RetryTimer(q)' => RetryTimer(q)
    BY <1>1 DEF RetryTimer
  <2> QED
    BY <1>1, <1>3, <2>1, <2>2, <2>3, LinksKept
<1> QED
  BY <1>2, <1>3 DEF OpenClient

\* A timer becomes the post that opens a client.
LEMMA RetryKeepsLinks ==
  ASSUME TypeOK, TypeOK', LinkInv, NEW p \in timers, Retry(p)
  PROVE  LinkInv'
<1> USE DEF stack, plugin, callers, history
<1> DEFINE o == p.obj
           new == Post("open", o, 0, p.call, 0)
<1>0. /\ StackOK /\ ClientsOK /\ MainOK /\ p \in Task /\ o \in Object /\ p.call \in 0 .. MaxCalls
      /\ RetryTimer(p)
  BY TypesAreAll, NumbersAndTasks DEF AllOK, MainOK, Retry, RetryTimer
<1>1. /\ UNCHANGED <<client, owner, gatt, pending, registered, found, cut, raced>> /\ timers' = timers \ {p}
      /\ onChange' = [onChange EXCEPT ![o] = [kind |-> "connect", call |-> p.call]] /\ queue' = Append(queue, new)
  BY DEF Retry, Elapsed
<1>2. new \in Task /\ new.kind = "open" /\ new.obj = o /\ new.call = p.call
  BY <1>0, PostsAreTasks DEF Post
<1> HIDE DEF new
<1>3. /\ \A n \in DOMAIN queue' : OpenPost(n)' => (n \in DOMAIN queue /\ OpenPost(n) /\ queue'[n] = queue[n]) \/ (n \notin DOMAIN queue /\ queue'[n] = new)
      /\ \A n, m \in DOMAIN queue' : n \notin DOMAIN queue /\ m \notin DOMAIN queue => n = m
  <2>1. queue \in Seq(Task)
    BY <1>0 DEF MainOK
  <2> QED
    BY <1>1, <1>2, <2>1, Posted DEF OpenPost
<1>4. /\ \A c \in Client : Live(c)' <=> Live(c)
      /\ \A q \in timers' : RetryTimer(q)' => RetryTimer(q) /\ q \in timers /\ q # p
      /\ FoundFits' /\ Left' = Left
  BY <1>1, FoundStays DEF Live, RetryTimer, Left
<1>5. onChange'[o].call = p.call /\ \A q \in Object : q # o => (Connects(q)' <=> Connects(q)) /\ onChange'[q] = onChange[q]
  BY <1>0, <1>1 DEF Connects, ClientsOK
\* No other attempt or link is free.
<1>6. /\ \A n \in DOMAIN queue : OpenPost(n) => queue[n].call \in Left
      /\ \A q \in timers : RetryTimer(q) /\ q # p => q.call \in Left
      /\ \A c \in Client : Live(c) => owner[c].call \in Left
  BY <1>0 DEF LinkInv, Alone, NoRetry
\* If this one is, there is no other.
<1>7. ASSUME p.call \notin Left
      PROVE  NoPost /\ NoLive /\ NoLive' /\ NoRetry' /\ registered = o
  <2>1. NoPost /\ NoLive /\ (\A q \in timers : RetryTimer(q) => q = p) /\ registered = o
    BY <1>0, <1>7 DEF LinkInv, Alone, Known
  <2> QED
    BY <1>4, <2>1 DEF NoLive, NoRetry
<1>8. Alone'
  <2>1. ASSUME NEW n \in DOMAIN queue', OpenPost(n)', queue'[n].call \notin Left'
        PROVE  NoRetry' /\ NoLive' /\ \A m \in DOMAIN queue' : OpenPost(m)' => m = n
    <3>1. n \notin DOMAIN queue /\ p.call \notin Left
      BY <1>2, <1>3, <1>4, <1>6, <2>1
    <3>2. NoPost
      BY <1>7, <3>1
    <3> QED
      BY <1>3, <1>7, <3>1, <3>2 DEF NoPost
  <2>2. \A q \in timers' : RetryTimer(q)' => q.call \in Left'
    BY <1>4, <1>6
  <2>3. \A c \in Client : Live(c)' => owner'[c].call \in Left'
    BY <1>1, <1>4, <1>6
  <2> QED
    BY <2>1, <2>2, <2>3 DEF Alone
<1>9. Known'
  <2>1. \A n \in DOMAIN queue' : OpenPost(n)' /\ queue'[n].call \notin Left' => registered' = queue'[n].obj
    BY <1>1, <1>2, <1>3, <1>4, <1>6, <1>7
  <2>2. \A q \in timers' : RetryTimer(q)' => q.call \in Left'
    BY <1>4, <1>6
  <2>3. \A c \in Client : Live(c)' => owner'[c].call \in Left'
    BY <1>1, <1>4, <1>6
  <2> QED
    BY <2>1, <2>2, <2>3 DEF Known
<1>10. WaitsFit'
  <2> SUFFICES ASSUME NEW q \in Object, Connects(q)', onChange'[q].call \notin Left'
               PROVE  /\ \A n \in DOMAIN queue' : OpenPost(n)' /\ queue'[n].obj = q => queue'[n].call = onChange'[q].call
                      /\ \A r \in timers' : RetryTimer(r)' /\ r.obj = q => r.call = onChange'[q].call
                      /\ \A c \in Client : Live(c)' /\ owner'[c].obj = q => owner'[c].call = onChange'[q].call
    BY DEF WaitsFit
  <2>1. CASE q = o
    <3>1. NoPost /\ NoLive' /\ NoRetry'
      BY <1>4, <1>5, <1>7, <2>1
    <3> QED
      BY <1>2, <1>3, <1>5, <2>1, <3>1 DEF NoPost, NoLive, NoRetry
  <2>2. CASE q # o
    <3>1. Connects(q) /\ onChange'[q] = onChange[q] /\ onChange[q].call \notin Left
      BY <1>4, <1>5, <2>2
    <3>2. /\ \A n \in DOMAIN queue : OpenPost(n) /\ queue[n].obj = q => queue[n].call = onChange[q].call
          /\ \A r \in timers : RetryTimer(r) /\ r.obj = q => r.call = onChange[q].call
          /\ \A c \in Client : Live(c) /\ owner[c].obj = q => owner[c].call = onChange[q].call
      BY <3>1 DEF LinkInv, WaitsFit
    <3> QED
      BY <1>1, <1>2, <1>3, <1>4, <2>2, <3>1, <3>2
  <2> QED
    BY <2>1, <2>2
<1>11. Settled'
  <2>1. \A c \in Client : client'[c] \in {"open", "closing"} => Live(c)'
    BY DEF Live
  <2>2. \A c \in Client : Live(c)' => owner'[c].call \in Left'
    BY <1>1, <1>4, <1>6
  <2> QED
    BY <2>1, <2>2 DEF Settled
<1> QED
  BY <1>4, <1>8, <1>9, <1>10, <1>11 DEF LinkInv

\* The client that a Peripheral opens becomes the one it uses.
LEMMA UpKeepsLinks ==
  ASSUME TypeOK, TypeOK', LinkInv, NEW c \in Client, Up(c)
  PROVE  LinkInv'
<1> USE DEF stack, main, callers
<1>a. StackOK /\ ClientsOK /\ PluginOK /\ owner[c].obj \in Object
  BY TypesAreAll DEF AllOK, StackOK
<1>b. PICK o \in Object : o = owner[c].obj
  BY <1>a
<1>0. StackOK /\ ClientsOK /\ PluginOK /\ o = owner[c].obj
  BY <1>a, <1>b
<1>1. /\ client[c] = "opening" /\ client' = [client EXCEPT ![c] = "open"]
      /\ gatt' = [gatt EXCEPT ![o] = c] /\ onChange' = [onChange EXCEPT ![o] = None]
      /\ UNCHANGED <<owner, queue, timers, found, raced>>
      /\ (registered' = registered /\ cut' = cut) \/ Forget(0)
  BY <1>0 DEF Up
<1>2. /\ client'[c] = "open" /\ gatt'[o] = c /\ ~Connects(o)' /\ Live(c) /\ Live(c)'
      /\ \A d \in Client : d # c => client'[d] = client[d]
      /\ \A q \in Object : q # o => onChange'[q] = onChange[q]
  BY <1>0, <1>1 DEF StackOK, ClientsOK, Connects, Live
<1>3. /\ \A d \in Client : Live(d)' <=> Live(d)
      /\ \A q \in Object : Connects(q)' => Connects(q) /\ onChange'[q].call = onChange[q].call
      /\ \A n : OpenPost(n)' <=> OpenPost(n)
      /\ \A p : RetryTimer(p)' <=> RetryTimer(p)
      /\ \A i : i \notin Left' => i \notin Left
  <2>1. \A d \in Client : Live(d)' <=> Live(d)
    BY <1>2 DEF Live
  <2>2. \A q \in Object : Connects(q)' => Connects(q) /\ onChange'[q].call = onChange[q].call
    BY <1>2 DEF Connects
  <2>3. \A i : i \notin Left' => i \notin Left
    BY <1>1 DEF Left, Forget
  <2> QED
    BY <1>1, <2>1, <2>2, <2>3 DEF OpenPost, RetryTimer
<1>4. Alone'
  <2>1. (NoPost => NoPost') /\ (NoRetry => NoRetry') /\ (NoLive => NoLive')
    BY <1>1, <1>3 DEF NoPost, NoRetry, NoLive
  <2> QED
    BY <1>1, <1>3, <2>1 DEF LinkInv, Alone
<1>5. ASSUME Forget(0) PROVE Known' /\ FoundFits'
  <2>1. \A d \in Client : Live(d) => owner[d].call \in Left'
    <3>1. \A d \in Client : d # 0
      BY DEF Client
    <3> QED
      BY <1>5, <3>1, AreUnderWay DEF Forget, Left
  <2>2. \A n \in DOMAIN queue : OpenPost(n) => queue[n].call \in Left'
    BY <1>5, AreUnderWay DEF Forget, Left
  <2>3. \A p \in timers : RetryTimer(p) => p.call \in Left'
    BY <1>5, AreUnderWay DEF Forget, Left
  <2>4. Known'
    <3>1. \A n \in DOMAIN queue' : OpenPost(n)' => queue'[n].call \in Left'
      BY <1>1, <1>3, <2>2
    <3>2. \A p \in timers' : RetryTimer(p)' => p.call \in Left'
      BY <1>1, <1>3, <2>3
    <3>3. \A d \in Client : Live(d)' => owner'[d].call \in Left'
      BY <1>1, <1>3, <2>1
    <3> QED
      BY <3>1, <3>2, <3>3 DEF Known
  <2>5. FoundFits'
    BY <1>5 DEF FoundFits, Forget
  <2> QED
    BY <2>4, <2>5
<1>6. ASSUME registered' = registered, cut' = cut PROVE Known' /\ FoundFits'
  <2>1. FoundFits' /\ Left' = Left
    BY <1>1, <1>6, FoundStays DEF Left
  <2>2. ASSUME NEW d \in Client, Live(d)', owner'[d].call \notin Left'
        PROVE  /\ registered' = owner'[d].obj
               /\ d = IF client'[d] = "opening" THEN pending'[registered'] ELSE gatt'[registered']
    <3>1. Live(d) /\ owner[d].call \notin Left /\ d = c
      BY <1>1, <1>2, <1>3, <2>1, <2>2, NothingElse
    <3>2. registered = o
      BY <1>0, <3>1 DEF LinkInv, Known
    <3> QED
      BY <1>0, <1>1, <1>2, <1>6, <3>1, <3>2
  <2>3. Known'
    <3>1. \A n \in DOMAIN queue' : OpenPost(n)' => queue'[n].call \in Left'
      BY <1>1, <1>2, <1>3, <2>1, NothingElse
    <3>2. \A p \in timers' : RetryTimer(p)' => p.call \in Left'
      BY <1>1, <1>2, <1>3, <2>1, NothingElse
    <3> QED
      BY <2>2, <3>1, <3>2 DEF Known
  <2> QED
    BY <2>1, <2>3
<1>7. WaitsFit'
  <2> SUFFICES ASSUME NEW q \in Object, Connects(q)', onChange'[q].call \notin Left'
               PROVE  /\ \A n \in DOMAIN queue' : OpenPost(n)' /\ queue'[n].obj = q => queue'[n].call = onChange'[q].call
                      /\ \A r \in timers' : RetryTimer(r)' /\ r.obj = q => r.call = onChange'[q].call
                      /\ \A d \in Client : Live(d)' /\ owner'[d].obj = q => owner'[d].call = onChange'[q].call
    BY DEF WaitsFit
  <2>1. Connects(q) /\ onChange'[q].call = onChange[q].call /\ onChange[q].call \notin Left
    BY <1>3
  <2>2. /\ \A n \in DOMAIN queue : OpenPost(n) /\ queue[n].obj = q => queue[n].call = onChange'[q].call
        /\ \A r \in timers : RetryTimer(r) /\ r.obj = q => r.call = onChange'[q].call
        /\ \A d \in Client : Live(d) /\ owner[d].obj = q => owner[d].call = onChange'[q].call
    BY <2>1 DEF LinkInv, WaitsFit
  <2> QED
    BY <1>1, <1>3, <2>2
<1>8. Settled'
  <2> SUFFICES ASSUME NEW d \in Client, NEW q \in Object, client'[d] \in {"open", "closing"}, owner'[d].call \notin Left',
                      owner'[d].obj = q, Connects(q)'
               PROVE  FALSE
    BY DEF Settled
  <2>1. Live(d)'
    BY DEF Live
  <2>2. owner[d].call \notin Left /\ Live(d)
    BY <1>1, <1>3, <2>1
  <2>3. d = c
    BY <1>2, <2>2, NothingElse
  <2> QED
    BY <1>0, <1>1, <1>2, <2>3
<1> QED
  BY <1>1, <1>4, <1>5, <1>6, <1>7, <1>8 DEF LinkInv

\* A client is gone, and its Peripheral may attempt once more what it waits for.
LEMMA DownKeepsLinks ==
  ASSUME TypeOK, TypeOK', LinkInv, NEW c \in Client, NEW transient \in BOOLEAN, Down(c, transient)
  PROVE  LinkInv'
<1> USE DEF stack, callers
<1>a. StackOK /\ ClientsOK /\ PluginOK /\ MainOK /\ owner[c].obj \in Object
  BY TypesAreAll DEF AllOK, StackOK
<1>b. PICK o \in Object : o = owner[c].obj
  BY <1>a
<1> DEFINE mine == IF gatt[o] # 0 THEN gatt[o] ELSE IF pending[o] # 0 THEN pending[o] ELSE c
           again == transient /\ AnotherAttempt(o)
           p == Post("retry", o, 0, onChange[o].call, 0)
<1>1. /\ Live(c) /\ client' = [client EXCEPT ![c] = "lost", ![mine] = "closed"]
      /\ UNCHANGED <<owner, found, raced, queue>>
      /\ onChange' = [onChange EXCEPT ![o] = IF again THEN @ ELSE None]
      /\ timers' = timers \cup IF again THEN {p} ELSE {}
      /\ (registered' = registered /\ cut' = cut) \/ (Forget(c) /\ ~again)
  BY <1>b DEF Down, Live, AnotherAttempt, Connects
<1> HIDE DEF mine
<1>2. /\ \A d \in Client : Live(d)' => Live(d) /\ d # c
      /\ \A d \in Client : Live(d)' => (client'[d] = "opening" <=> client[d] = "opening")
  BY <1>a, <1>1 DEF StackOK, Live
<1>3. /\ \A q \in Object : Connects(q)' => Connects(q) /\ onChange'[q].call = onChange[q].call
      /\ Before(0) /\ cut \subseteq cut' /\ raced \subseteq raced'
  BY <1>a, <1>1, PostsKept DEF Connects, ClientsOK, Forget
<1>4. FoundFits'
  BY <1>1 DEF LinkInv, FoundFits, Forget
\* No other attempt or link is free.
<1>5. /\ \A d \in Client : Live(d)' => owner'[d].call \in Left'
      /\ \A n \in DOMAIN queue : OpenPost(n) => queue[n].call \in Left'
      /\ \A q \in timers : RetryTimer(q) => q.call \in Left'
  <2>1. \A i \in Left : i \in Left'
    BY <1>3 DEF Left
  <2>2. \A d \in Client : Live(d) /\ owner[d].call \notin Left => d = c
    BY <1>1, NothingElse
  <2>3. /\ \A n \in DOMAIN queue : OpenPost(n) => queue[n].call \in Left
        /\ \A q \in timers : RetryTimer(q) => q.call \in Left
    BY <1>1, NothingElse
  <2> QED
    BY <1>1, <1>2, <2>1, <2>2, <2>3
<1>6. \A n \in DOMAIN queue' : OpenPost(n)' => queue'[n].call \in Left'
  BY <1>1, <1>5 DEF OpenPost
<1>7. ASSUME ~again PROVE LinkInv'
  <2>1. timers' = timers
    BY <1>1, <1>7
  <2>2. \A q \in timers' : RetryTimer(q)' => RetryTimer(q) /\ q.call \in Left'
    BY <1>5, <2>1 DEF RetryTimer
  <2>3. \A d \in Client : Live(d)' => /\ Live(d) /\ owner'[d] = owner[d]
                                      /\ client'[d] = "opening" <=> client[d] = "opening"
    BY <1>1, <1>2
  <2> QED
    BY <1>3, <1>4, <1>5, <1>6, <2>2, <2>3, LinksKept
<1>8. ASSUME again PROVE LinkInv'
  <2>1. timers' = timers \cup {p} /\ Connects(o) /\ UNCHANGED <<registered, cut>>
    BY <1>1, <1>8 DEF AnotherAttempt
  <2>2. p.kind = "retry" /\ p.obj = o /\ p.call = onChange[o].call
    BY DEF Post
  <2> HIDE DEF p, again
  <2>3. Left' = Left
    BY <1>1, <2>1 DEF Left
  <2>4. /\ \A q \in timers' : RetryTimer(q)' => q = p \/ (q \in timers /\ RetryTimer(q))
        /\ \A q \in timers' : RetryTimer(q)' /\ q.call \notin Left' => q = p
    <3>1. \A q \in timers' : RetryTimer(q)' => q = p \/ (q \in timers /\ RetryTimer(q))
      BY <2>1 DEF RetryTimer
    <3> QED
      BY <1>5, <3>1
  \* If this one is, it was the client's.
  <2>5. ASSUME p.call \notin Left PROVE NoPost' /\ NoLive' /\ (\A q \in timers' : RetryTimer(q)' => q = p) /\ registered = o
    <3>1. owner[c].call = p.call
      BY <1>b, <1>1, <2>1, <2>2, <2>5 DEF LinkInv, WaitsFit
    <3>2. NoPost /\ NoRetry /\ (\A d \in Client : Live(d) => d = c) /\ registered = o
      BY <1>b, <1>1, <2>5, <3>1 DEF LinkInv, Alone, Known
    <3>3. NoPost' /\ NoLive'
      BY <1>1, <1>2, <3>2 DEF NoPost, NoLive, OpenPost
    <3> QED
      BY <2>4, <3>2, <3>3 DEF NoRetry
  <2>6. Alone'
    BY <1>5, <1>6, <2>3, <2>4, <2>5 DEF Alone
  <2>7. Known'
    <3>1. \A q \in timers' : RetryTimer(q)' /\ q.call \notin Left' => registered' = q.obj
      BY <2>1, <2>2, <2>3, <2>4, <2>5
    <3> QED
      BY <1>5, <1>6, <3>1 DEF Known
  <2>8. WaitsFit'
    <3> SUFFICES ASSUME NEW q \in Object, Connects(q)', onChange'[q].call \notin Left'
                 PROVE  /\ \A n \in DOMAIN queue' : OpenPost(n)' /\ queue'[n].obj = q => queue'[n].call = onChange'[q].call
                        /\ \A r \in timers' : RetryTimer(r)' /\ r.obj = q => r.call = onChange'[q].call
                        /\ \A d \in Client : Live(d)' /\ owner'[d].obj = q => owner'[d].call = onChange'[q].call
      BY DEF WaitsFit
    <3>1. Connects(q) /\ onChange'[q].call = onChange[q].call /\ onChange[q].call \notin Left
      BY <1>3, <2>3
    <3>2. /\ \A n \in DOMAIN queue : OpenPost(n) /\ queue[n].obj = q => queue[n].call = onChange'[q].call
          /\ \A r \in timers : RetryTimer(r) /\ r.obj = q => r.call = onChange'[q].call
          /\ \A d \in Client : Live(d) /\ owner[d].obj = q => owner[d].call = onChange'[q].call
      BY <3>1 DEF LinkInv, WaitsFit
    <3>3. \A n \in DOMAIN queue' : OpenPost(n)' /\ queue'[n].obj = q => queue'[n].call = onChange'[q].call
      BY <1>1, <3>2 DEF OpenPost
    <3>4. \A r \in timers' : RetryTimer(r)' /\ r.obj = q => r.call = onChange'[q].call
      BY <2>2, <2>4, <3>1, <3>2
    <3> QED
      BY <1>1, <1>2, <3>2, <3>3, <3>4
  <2>9. Settled'
    <3>1. \A d \in Client : client'[d] \in {"open", "closing"} => Live(d)'
      BY DEF Live
    <3> QED
      BY <1>5, <3>1 DEF Settled
  <2> QED
    BY <1>4, <2>6, <2>7, <2>8, <2>9 DEF LinkInv
<1> QED
  BY <1>7, <1>8

\* LinkInv is kept by every step.
LEMMA LinkStep == TypeOK /\ LocalsFit /\ LinkInv /\ [Next]_vars => LinkInv'
<1> SUFFICES ASSUME TypeOK, LocalsFit, LinkInv, [Next]_vars PROVE LinkInv'
  OBVIOUS
<1>0. TypeOK'
  BY TypeStep
<1>1. ASSUME NEW t \in Caller, NEW i \in CallId, Begin(t, i) PROVE LinkInv'
  BY <1>0, <1>1, ConnectKeepsLinks, CallersKeepLinks DEF Begin
<1>2. ASSUME NEW t \in Caller, Proceed(t) PROVE LinkInv'
  BY <1>0, <1>2, CallersKeepLinks DEF Proceed
<1>3. CASE RunDue
  BY <1>0, <1>3, OpenKeepsLinks, CloseKeepsLinks, OperationsKeepLinks DEF RunDue
<1>4. ASSUME NEW p \in timers, RunTimer(p) PROVE LinkInv'
  BY <1>0, <1>4, RetryKeepsLinks, FallbackKeepsLinks, OperationsKeepLinks DEF RunTimer
<1>5. ASSUME NEW p \in disconnecting, GoOn(p) PROVE LinkInv'
  BY <1>0, <1>5, GoOnKeepsLinks
<1>6. CASE Accept \/ Refuse
  BY <1>0, <1>6, OperationsKeepLinks
<1>7. CASE Advertise \/ UNCHANGED vars
  BY <1>0, <1>7, AdvertiseKeepsLinks
<1>8. ASSUME NEW c \in Client, Report(c) PROVE LinkInv'
  BY <1>0, <1>8, UpKeepsLinks, DownKeepsLinks, OperationsKeepLinks DEF Report
<1> QED
  BY <1>1, <1>2, <1>3, <1>4, <1>5, <1>6, <1>7, <1>8 DEF Next

\* The initial state has the types.
LEMMA InitTypes == Init => TypeOK /\ LocalsFit
<1> SUFFICES ASSUME Init PROVE TypeOK /\ LocalsFit
  OBVIOUS
<1> USE DEF Init
<1>1. StackOK /\ ClientsOK
  BY NumbersAndTasks DEF StackOK, ClientsOK
<1>2. OperationsOK /\ PluginOK
  BY NumbersAndTasks DEF OperationsOK, PluginOK
<1>3. MainOK /\ AnswersOK
  BY DEF MainOK, AnswersOK
<1>4. CallersOK
  BY NumbersAndTasks DEF CallersOK
<1>5. LocalsFit
  BY DEF LocalsFit
<1> QED
  BY <1>1, <1>2, <1>3, <1>4, <1>5, TypesAreAll DEF AllOK

\* There is no attempt or link at first.
LEMMA InitLinks == Init => LinkInv
<1> SUFFICES ASSUME Init PROVE LinkInv
  OBVIOUS
<1>1. DOMAIN queue = {} /\ timers = {} /\ (\A c \in Client : ~Live(c) /\ client[c] \notin {"open", "closing"}) /\ registered = 0
      /\ \A o \in Object : ~Connects(o)
  BY DEF Init, Live, Connects
<1> QED
  BY <1>1 DEF LinkInv, Alone, Known, FoundFits, WaitsFit, Settled

-----------------------------------------------------------------------------
(* Which clients are open                                                  *)

\* The clients that a Peripheral, a disconnect or something posted names were opened
\* for the same Peripheral.
OpenedFor(c, o) == c # 0 => client[c] # "unused" /\ owner[c].obj = o
NamesFit ==
  /\ \A o \in Object : OpenedFor(gatt[o], o) /\ OpenedFor(pending[o], o)
  /\ \A p \in timers \cup disconnecting : OpenedFor(p.client, p.obj)
  /\ \A n \in DOMAIN queue : OpenedFor(queue[n].client, queue[n].obj)

\* A client in use is neither closed nor lost, and one that is about to be cancelled
\* is not in use, unless a disconnect left its connect under way.
CutOrNot(c) == ~Live(c) \/ owner[c].call \in cut
UsedAreOpen ==
  \A o \in Object : (connected[o] => gatt[o] # 0) /\ (gatt[o] # 0 => Live(gatt[o]) \/ owner[gatt[o]].call \in cut)
CancelsFit == \A n \in DOMAIN queue : queue[n].kind = "cancel" => queue[n].client # 0 /\ CutOrNot(queue[n].client)

OpenInv == NamesFit /\ UsedAreOpen /\ CancelsFit

\* No client is opened twice.
LEMMA ClientsStayUsed ==
  ASSUME TypeOK, [Next]_vars
  PROVE  \A c \in Client : client[c] # "unused" => client'[c] # "unused" /\ owner'[c] = owner[c]
<1> USE DEF stack
<1>0. StackOK
  BY TypesAreAll DEF AllOK
<1>1. ASSUME queue # <<>>, OpenClient(Head(queue)) \/ CloseClient(Head(queue))
      PROVE  \A c \in Client : client[c] # "unused" => client'[c] # "unused" /\ owner'[c] = owner[c]
  BY <1>0, <1>1 DEF OpenClient, CloseClient, StackOK
<1>2. ASSUME NEW p \in timers, Fallback(p)
      PROVE  \A c \in Client : client[c] # "unused" => client'[c] # "unused" /\ owner'[c] = owner[c]
  BY <1>0, <1>2 DEF Fallback, StackOK
<1>3. ASSUME NEW d \in Client, Up(d) \/ \E transient \in BOOLEAN : Down(d, transient)
      PROVE  \A c \in Client : client[c] # "unused" => client'[c] # "unused" /\ owner'[c] = owner[c]
  BY <1>0, <1>3 DEF Up, Down, StackOK
<1>4. \/ UNCHANGED <<client, owner>>
      \/ queue # <<>> /\ (OpenClient(Head(queue)) \/ CloseClient(Head(queue)))
      \/ \E p \in timers : Fallback(p)
      \/ \E d \in Client : Up(d) \/ \E transient \in BOOLEAN : Down(d, transient)
  BY DEF Next, Begin, Proceed, Connect, Disconnect, StartOperation, RequestMtu, Operate, Fetch, Keep, Return, Advertise,
     RunDue, ReadGatt, RunTimer, Retry, TryAgain, Rediscover, GoOn, DisconnectUnused, DisconnectUsed, Accept, Refuse,
     Report, Complete, vars
<1> QED
  BY <1>1, <1>2, <1>3, <1>4

\* What is posted names a client that was opened for its Peripheral, and what is
\* cancelled is what the Peripheral of a disconnect was opening.
LEMMA QueueSteps ==
  ASSUME TypeOK, LocalsFit, NamesFit, [Next]_vars
  PROVE  \/ queue' = queue
         \/ queue # <<>> /\ queue' = Tail(queue)
         \/ \E p \in Task : /\ queue' = Append(queue, p) /\ OpenedFor(p.client, p.obj)
                            /\ p.kind = "cancel" => \E q \in disconnecting :
                                 DisconnectUnused(q) /\ p.client = pending[q.obj] /\ p.client # 0
<1> DEFINE Posts(p) == /\ p \in Task /\ queue' = Append(queue, p) /\ OpenedFor(p.client, p.obj)
                       /\ p.kind = "cancel" => \E q \in disconnecting :
                            DisconnectUnused(q) /\ p.client = pending[q.obj] /\ p.client # 0
<1>0. StackOK /\ ClientsOK /\ PluginOK /\ MainOK
  BY TypesAreAll DEF AllOK
<1>1. ASSUME NEW t \in Caller, NEW i \in CallId, Connect(t, i) PROVE queue' = queue \/ \E p : Posts(p)
  <2> DEFINE p == Post("open", Chosen, 0, i, 0)
  <2>1. p.client = 0 /\ p.kind = "open"
    BY DEF Post
  <2>2. Chosen \in Object
    BY <1>0, NumbersAndTasks DEF Chosen, PluginOK
  <2>3. p \in Task
    BY <2>2, NumbersAndTasks, PostsAreTasks
  <2>4. queue' = queue \/ queue' = Append(queue, p)
    BY <1>1 DEF Connect
  <2> HIDE DEF p
  <2> QED
    BY <2>1, <2>3, <2>4 DEF OpenedFor
<1>2. ASSUME NEW i \in CallId, NEW k \in Slot, NEW t \in Caller, Operate(t, k, i) PROVE queue' = queue \/ \E p : Posts(p)
  <2> DEFINE g == IF k = "discover" THEN gatt[registered] ELSE 0
             p == Post(k, registered, g, i, 0)
  <2>1. p.client = g /\ p.obj = registered /\ p.kind = k
    BY DEF Post
  <2>2. registered # 0 => registered \in Object /\ OpenedFor(g, registered) /\ g \in 0 .. MaxClients
    BY <1>0, NumbersAndTasks DEF NamesFit, OpenedFor, PluginOK, ClientsOK
  <2>3. registered # 0 => p \in Task
    BY <2>2, NumbersAndTasks, PostsAreTasks
  <2>4. queue' = queue \/ (registered # 0 /\ queue' = Append(queue, p))
    BY <1>2 DEF Operate
  <2>5. k # "cancel"
    BY DEF Slot
  <2> HIDE DEF p, g
  <2> QED
    BY <2>1, <2>2, <2>3, <2>4, <2>5
<1>3. ASSUME NEW q \in disconnecting, DisconnectUnused(q) PROVE queue' = queue \/ \E p : Posts(p)
  <2> DEFINE p == Post("cancel", q.obj, pending[q.obj], q.call, 0)
  <2>0. q \in Task /\ q.obj \in Object /\ q.call \in 0 .. MaxCalls /\ pending[q.obj] \in 0 .. MaxClients
    BY <1>0, NumbersAndTasks DEF PluginOK, ClientsOK
  <2>1. p.client = pending[q.obj] /\ p.obj = q.obj
    BY DEF Post
  <2>2. p \in Task
    BY <2>0, NumbersAndTasks, PostsAreTasks
  <2>3. queue' = queue \/ (pending[q.obj] # 0 /\ queue' = Append(queue, p))
    BY <1>3 DEF DisconnectUnused
  <2>4. OpenedFor(pending[q.obj], q.obj)
    BY <2>0 DEF NamesFit
  <2> HIDE DEF p
  <2> QED
    BY <1>3, <2>1, <2>2, <2>3, <2>4
<1>4. ASSUME NEW q \in disconnecting, DisconnectUsed(q) PROVE \E p : Posts(p)
  <2> DEFINE p == [q EXCEPT !.kind = "close"]
  <2>1. q \in Task
    BY <1>0 DEF PluginOK
  <2>2. p \in Task /\ p.client = q.client /\ p.obj = q.obj /\ p.kind = "close"
    BY <2>1 DEF Task
  <2>3. queue' = Append(queue, p) /\ OpenedFor(q.client, q.obj)
    BY <1>4 DEF DisconnectUsed, NamesFit
  <2> HIDE DEF p
  <2> QED
    BY <2>2, <2>3
<1>5. ASSUME NEW q \in timers, Retry(q) PROVE \E p : Posts(p)
  <2> DEFINE p == Post("open", q.obj, 0, q.call, 0)
  <2>1. p.client = 0 /\ p.kind = "open"
    BY DEF Post
  <2>2. p \in Task
    BY <1>0, NumbersAndTasks, PostsAreTasks DEF MainOK
  <2>3. queue' = Append(queue, p)
    BY <1>5 DEF Retry
  <2> HIDE DEF p
  <2> QED
    BY <2>1, <2>2, <2>3 DEF OpenedFor
<1>6. ASSUME NEW q \in timers, TryAgain(q) PROVE \E p : Posts(p)
  <2> DEFINE p == [q EXCEPT !.kind = "access"]
  <2>1. q \in Task
    BY <1>0 DEF MainOK
  <2>2. p \in Task /\ p.client = q.client /\ p.obj = q.obj /\ p.kind = "access"
    BY <2>1 DEF Task, Slot
  <2>3. queue' = Append(queue, p) /\ OpenedFor(q.client, q.obj)
    BY <1>6 DEF TryAgain, NamesFit
  <2> HIDE DEF p
  <2> QED
    BY <2>2, <2>3
<1>7. CASE RunDue
  BY <1>7 DEF RunDue, OpenClient, CloseClient, ReadGatt, Due
<1>8. \/ queue' = queue \/ RunDue
      \/ \E t \in Caller, i \in CallId : Connect(t, i) \/ \E k \in Slot : Operate(t, k, i)
      \/ \E q \in disconnecting : DisconnectUnused(q) \/ DisconnectUsed(q)
      \/ \E q \in timers : Retry(q) \/ TryAgain(q)
  BY DEF Next, Begin, Proceed, Disconnect, StartOperation, RequestMtu, Fetch, Keep, Return, Advertise, RunTimer,
     Rediscover, Fallback, GoOn, Accept, Refuse, Report, Up, Down, Complete, vars, main, Slot
<1> QED
  BY <1>1, <1>2, <1>3, <1>4, <1>5, <1>6, <1>7, <1>8 DEF RunDue

\* NamesFit is kept by every step.
LEMMA NamesStep ==
  ASSUME TypeOK, TypeOK', LocalsFit, NamesFit, [Next]_vars
  PROVE  NamesFit'
<1> USE DEF stack
<1>0. StackOK /\ ClientsOK /\ PluginOK /\ MainOK /\ ClientsOK' /\ PluginOK' /\ MainOK'
  BY TypesAreAll DEF AllOK
<1>1. \A c \in 0 .. MaxClients : c # 0 => c \in Client
  BY NumbersAndTasks DEF Client
<1>2. \A c \in 0 .. MaxClients, o \in Object : OpenedFor(c, o) => OpenedFor(c, o)'
  <2> SUFFICES ASSUME NEW c \in 0 .. MaxClients, NEW o \in Object, OpenedFor(c, o), c # 0
               PROVE  client'[c] # "unused" /\ owner'[c].obj = o
    BY DEF OpenedFor
  <2> QED
    BY <1>1, ClientsStayUsed DEF OpenedFor
\* The client that a Peripheral uses, and the one it opens.
<1>3. \A o \in Object : OpenedFor(gatt[o], o)'
  <2>1. ASSUME NEW c \in Client, Up(c), NEW o \in Object PROVE OpenedFor(gatt[o], o)'
    <3>1. owner[c].obj \in Object /\ client[c] # "unused" /\ owner' = owner /\ client'[c] # "unused"
      BY <1>0, <2>1 DEF Up, StackOK
    <3>2. CASE o = owner[c].obj
      <4>1. gatt'[o] = c
        BY <1>0, <2>1, <3>1, <3>2 DEF Up, ClientsOK
      <4> QED
        BY <3>1, <3>2, <4>1 DEF OpenedFor
    <3>3. CASE o # owner[c].obj
      <4>1. gatt'[o] = gatt[o] /\ gatt[o] \in 0 .. MaxClients /\ OpenedFor(gatt[o], o)
        BY <1>0, <2>1, <3>1, <3>3 DEF Up, ClientsOK, NamesFit
      <4>2. OpenedFor(gatt[o], o) => \A g : g = gatt[o] => (g # 0 => client'[g] # "unused" /\ owner'[g].obj = o)
        BY <1>2, <4>1 DEF OpenedFor
      <4> QED
        BY <4>1, <4>2 DEF OpenedFor
    <3> QED
      BY <3>2, <3>3
  <2>2. ASSUME NEW o \in Object, gatt'[o] = 0 \/ gatt'[o] = gatt[o] PROVE OpenedFor(gatt[o], o)'
    <3>1. gatt[o] \in 0 .. MaxClients /\ OpenedFor(gatt[o], o)
      BY <1>0 DEF ClientsOK, NamesFit
    <3> QED
      BY <1>2, <2>2, <3>1 DEF OpenedFor
  <2>3. ASSUME NEW p \in timers, Fallback(p), NEW o \in Object PROVE gatt'[o] = 0 \/ gatt'[o] = gatt[o]
    BY <1>0, <2>3 DEF Fallback, ClientsOK
  <2>4. ASSUME NEW c \in Client, NEW transient \in BOOLEAN, Down(c, transient), NEW o \in Object
        PROVE  gatt'[o] = 0 \/ gatt'[o] = gatt[o]
    BY <1>0, <2>4 DEF Down, ClientsOK
  <2>5. \/ gatt' = gatt \/ \E p \in timers : Fallback(p)
        \/ \E c \in Client : Up(c) \/ \E transient \in BOOLEAN : Down(c, transient)
    BY DEF Next, Begin, Proceed, Connect, Disconnect, StartOperation, RequestMtu, Operate, Fetch, Keep, Return, Advertise,
       RunDue, OpenClient, CloseClient, ReadGatt, RunTimer, Retry, TryAgain, Rediscover, GoOn, DisconnectUnused, DisconnectUsed,
       Accept, Refuse, Report, Complete, vars, peripheral
  <2> QED
    BY <2>1, <2>2, <2>3, <2>4, <2>5
<1>4. \A o \in Object : OpenedFor(pending[o], o)'
  <2>1. ASSUME queue # <<>>, NEW c \in Client, NEW o \in Object, LET p == Head(queue) IN
                 /\ p.obj \in Object
                 /\ client' = [client EXCEPT ![c] = "opening"]
                 /\ owner' = [owner EXCEPT ![c] = [obj |-> p.obj, call |-> p.call]]
                 /\ pending' = [pending EXCEPT ![p.obj] = c]
        PROVE  OpenedFor(pending[o], o)'
    <3> DEFINE p == Head(queue)
    <3>1. CASE o = p.obj
      BY <1>0, <2>1, <3>1 DEF OpenedFor, StackOK, ClientsOK
    <3>2. CASE o # p.obj
      <4>1. pending'[o] = pending[o] /\ pending[o] \in 0 .. MaxClients /\ OpenedFor(pending[o], o)
        BY <1>0, <2>1, <3>2 DEF ClientsOK, NamesFit
      <4> QED
        BY <1>2, <4>1 DEF OpenedFor
    <3> QED
      BY <3>1, <3>2
  <2>2. ASSUME NEW o \in Object, pending'[o] = 0 \/ pending'[o] = pending[o] PROVE OpenedFor(pending[o], o)'
    <3>1. pending[o] \in 0 .. MaxClients /\ OpenedFor(pending[o], o)
      BY <1>0 DEF ClientsOK, NamesFit
    <3> QED
      BY <1>2, <2>2, <3>1 DEF OpenedFor
  <2>3. ASSUME queue # <<>>, OpenClient(Head(queue)), NEW o \in Object PROVE OpenedFor(pending[o], o)'
    <3>1. Head(queue).obj \in Object
      BY <1>0, <2>3, Taken, NumbersAndTasks DEF MainOK
    <3>2. CASE UNCHANGED pending
      BY <2>2, <3>2
    <3> QED
      BY <2>1, <2>3, <3>1, <3>2 DEF OpenClient
  <2>4. ASSUME NEW p \in disconnecting, DisconnectUnused(p), NEW o \in Object PROVE pending'[o] = 0 \/ pending'[o] = pending[o]
    BY <1>0, <2>4 DEF DisconnectUnused, ClientsOK
  <2>5. ASSUME NEW c \in Client, Up(c) \/ \E transient \in BOOLEAN : Down(c, transient), NEW o \in Object
        PROVE  pending'[o] = 0 \/ pending'[o] = pending[o]
    BY <1>0, <2>5 DEF Up, Down, ClientsOK
  <2>6. \/ pending' = pending \/ (queue # <<>> /\ OpenClient(Head(queue))) \/ (\E p \in disconnecting : DisconnectUnused(p))
        \/ \E c \in Client : Up(c) \/ \E transient \in BOOLEAN : Down(c, transient)
    BY DEF Next, Begin, Proceed, Connect, Disconnect, StartOperation, RequestMtu, Operate, Fetch, Keep, Return, Advertise,
       RunDue, CloseClient, ReadGatt, RunTimer, Retry, TryAgain, Rediscover, Fallback, GoOn, DisconnectUsed,
       Accept, Refuse, Report, Complete, vars, peripheral
  <2> QED
    BY <2>2, <2>3, <2>4, <2>5, <2>6
\* What is posted, and the disconnects.
<1>5. ASSUME NEW p \in timers' \cup disconnecting' PROVE OpenedFor(p.client, p.obj)'
  <2>1. p.client \in 0 .. MaxClients /\ p.obj \in Object
    BY <1>0, NumbersAndTasks DEF PluginOK, MainOK
  <2>2. OpenedFor(p.client, p.obj) \/ p \in timers \cup disconnecting
    <3>1. ASSUME NEW t \in Caller, NEW i \in CallId, Disconnect(t, i), p \in disconnecting', p \notin disconnecting
          PROVE  OpenedFor(p.client, p.obj)
      BY <1>0, <3>1, NumbersAndTasks DEF Disconnect, Post, NamesFit, PluginOK
    <3>2. ASSUME NEW q \in disconnecting, DisconnectUsed(q), p \in timers', p \notin timers
          PROVE  OpenedFor(p.client, p.obj)
      <4>1. q \in Task /\ p = [q EXCEPT !.kind = "fallback"]
        BY <1>0, <3>2 DEF DisconnectUsed, PluginOK
      <4>2. p.client = q.client /\ p.obj = q.obj
        BY <4>1 DEF Task
      <4> QED
        BY <4>2 DEF NamesFit
    <3>3. ASSUME Refuse, p \in timers', p \notin timers PROVE p.client = 0
      BY <3>3 DEF Refuse, Post
    <3>4. ASSUME NEW c \in Client, NEW transient \in BOOLEAN, Down(c, transient), p \in timers', p \notin timers PROVE p.client = 0
      BY <3>4 DEF Down, Post
    <3>5. ASSUME NEW s \in inStack, Complete(s), p \in timers', p \notin timers PROVE OpenedFor(p.client, p.obj)
      <4>1. client[s.client] = "open"
        BY <3>5 DEF Complete
      <4>2. (\E o, i, n : p = Post("again", o, 0, i, n)) \/ p = Post("rediscover", owner[s.client].obj, s.client, 0, 0)
        BY <3>5 DEF Complete
      <4> QED
        BY <4>1, <4>2 DEF Post, OpenedFor
    <3>6. \/ timers' \subseteq timers \/ Refuse \/ (\E q \in disconnecting : DisconnectUsed(q))
          \/ (\E c \in Client, transient \in BOOLEAN : Down(c, transient)) \/ (\E s \in inStack : Complete(s))
      BY DEF Next, Begin, Proceed, Connect, Disconnect, StartOperation, RequestMtu, Operate, Fetch, Keep, Return, Advertise,
         RunDue, OpenClient, CloseClient, ReadGatt, RunTimer, Retry, TryAgain, Rediscover, Fallback, Elapsed, GoOn,
         DisconnectUnused, Accept, Report, Up, vars, main
    <3>7. disconnecting' \subseteq disconnecting \/ \E t \in Caller, i \in CallId : Disconnect(t, i)
      BY DEF Next, Begin, Proceed, Connect, StartOperation, RequestMtu, Operate, Fetch, Keep, Return, Advertise,
         RunDue, OpenClient, CloseClient, ReadGatt, RunTimer, Retry, TryAgain, Rediscover, Fallback, GoOn,
         DisconnectUnused, DisconnectUsed, Accept, Refuse, Report, Up, Down, Complete, vars, plugin
    <3> QED
      BY <3>1, <3>2, <3>3, <3>4, <3>5, <3>6, <3>7 DEF OpenedFor
  <2>3. OpenedFor(p.client, p.obj)
    BY <2>2 DEF NamesFit
  <2> QED
    BY <1>2, <2>1, <2>3
<1>6. ASSUME NEW n \in DOMAIN queue' PROVE OpenedFor(queue[n].client, queue[n].obj)'
  <2>1. PICK p \in Task : p = queue'[n]
    BY <1>0 DEF MainOK
  <2>2. OpenedFor(p.client, p.obj)
    <3>1. CASE queue' = queue
      BY <2>1, <3>1 DEF NamesFit
    <3>2. CASE queue # <<>> /\ queue' = Tail(queue)
      <4>1. n + 1 \in DOMAIN queue /\ queue'[n] = queue[n + 1]
        BY <1>0, <3>2, Taken DEF MainOK
      <4> QED
        BY <2>1, <4>1 DEF NamesFit
    <3>3. ASSUME NEW q \in Task, queue' = Append(queue, q), OpenedFor(q.client, q.obj) PROVE OpenedFor(p.client, p.obj)
      <4>1. queue'[n] = q \/ (n \in DOMAIN queue /\ queue'[n] = queue[n])
        BY <1>0, <3>3, Posted DEF MainOK
      <4> QED
        BY <2>1, <3>3, <4>1 DEF NamesFit
    <3> QED
      BY <3>1, <3>2, <3>3, QueueSteps
  <2>3. OpenedFor(p.client, p.obj)'
    BY <1>2, <2>2, NumbersAndTasks
  <2> QED
    BY <2>1, <2>3 DEF OpenedFor
<1> QED
  BY <1>3, <1>4, <1>5, <1>6 DEF NamesFit

\* What makes a client be no longer in use.
LEMMA LiveStep ==
  ASSUME TypeOK, NamesFit, [Next]_vars, NEW c \in Client, Live(c)
  PROVE  \/ Live(c)' /\ owner'[c] = owner[c]
         \/ queue # <<>> /\ Head(queue).kind = "cancel" /\ Head(queue).client = c
         \/ \E p \in timers : Fallback(p) /\ answer[p.call] = "open" /\ p.obj = owner[c].obj
         \/ \E d \in Client, transient \in BOOLEAN : Down(d, transient) /\ owner[d].obj = owner[c].obj
<1> USE DEF stack
<1>0. StackOK /\ ClientsOK /\ MainOK /\ owner'[c] = owner[c]
  BY TypesAreAll, ClientsStayUsed DEF AllOK, Live
<1>1. ASSUME queue # <<>>, OpenClient(Head(queue)) PROVE Live(c)'
  BY <1>0, <1>1 DEF OpenClient, StackOK, Live
<1>2. ASSUME queue # <<>>, CloseClient(Head(queue)) PROVE Live(c)' \/ (Head(queue).kind = "cancel" /\ Head(queue).client = c)
  <2>1. client'[c] \in {client[c], "closing"} \/ (Head(queue).kind = "cancel" /\ Head(queue).client = c)
    BY <1>0, <1>2 DEF CloseClient, StackOK
  <2> QED
    BY <2>1 DEF Live
<1>3. ASSUME NEW p \in timers, Fallback(p), client'[c] # client[c] PROVE answer[p.call] = "open" /\ p.obj = owner[c].obj
  <2>1. answer[p.call] = "open" /\ p.client = c
    BY <1>0, <1>3 DEF Fallback, StackOK
  <2>2. OpenedFor(p.client, p.obj) /\ c # 0
    BY DEF NamesFit, Client
  <2> QED
    BY <2>1, <2>2 DEF OpenedFor
<1>4. ASSUME NEW d \in Client, Up(d) PROVE Live(c)'
  BY <1>0, <1>4 DEF Up, StackOK, Live
<1>5. ASSUME NEW d \in Client, NEW transient \in BOOLEAN, Down(d, transient), client'[c] # client[c]
      PROVE  owner[d].obj = owner[c].obj
  <2>1. PICK o \in Object : o = owner[d].obj
    BY <1>0 DEF StackOK
  <2>2. c \in {d, gatt[o], pending[o]}
    BY <1>0, <1>5, <2>1 DEF Down, StackOK
  <2>3. OpenedFor(gatt[o], o) /\ OpenedFor(pending[o], o) /\ c # 0
    BY DEF NamesFit, Client
  <2> QED
    BY <2>1, <2>2, <2>3 DEF OpenedFor
<1>6. \/ client' = client
      \/ queue # <<>> /\ (OpenClient(Head(queue)) \/ CloseClient(Head(queue)))
      \/ \E p \in timers : Fallback(p)
      \/ \E d \in Client : Up(d) \/ \E transient \in BOOLEAN : Down(d, transient)
  BY DEF Next, Begin, Proceed, Connect, Disconnect, StartOperation, RequestMtu, Operate, Fetch, Keep, Return, Advertise,
     RunDue, ReadGatt, RunTimer, Retry, TryAgain, Rediscover, GoOn, DisconnectUnused, DisconnectUsed, Accept, Refuse,
     Report, Complete, vars
<1>7. client'[c] = client[c] => Live(c)'
  BY DEF Live
<1> QED
  BY <1>0, <1>1, <1>2, <1>3, <1>4, <1>5, <1>6, <1>7

\* What a disconnect left under way stays so.
LEMMA CutGrows == [Next]_vars => cut \subseteq cut'
BY DEF Next, Begin, Proceed, Connect, Disconnect, StartOperation, RequestMtu, Operate, Fetch, Keep, Return, Advertise,
   RunDue, OpenClient, CloseClient, ReadGatt, RunTimer, Retry, TryAgain, Rediscover, Fallback, GoOn, DisconnectUnused,
   DisconnectUsed, Accept, Refuse, Report, Up, Down, Complete, Forget, vars, plugin, history

\* CancelsFit is kept by every step.
LEMMA CancelsStep ==
  ASSUME TypeOK, TypeOK', LocalsFit, NamesFit, NamesFit', CancelsFit, [Next]_vars
  PROVE  CancelsFit'
<1>0. MainOK /\ MainOK' /\ StackOK /\ StackOK'
  BY TypesAreAll DEF AllOK
<1>1. cut \subseteq cut'
  BY CutGrows
\* A client that was used and is not in use now never is again.
<1>2. ASSUME NEW c \in Client, client[c] # "unused", CutOrNot(c) PROVE CutOrNot(c)'
  <2>1. client'[c] # "unused" /\ owner'[c] = owner[c]
    BY <1>2, ClientsStayUsed
  <2>2. ASSUME ~Live(c) PROVE ~Live(c)'
    <3>1. client[c] \in {"lost", "closed"}
      BY <1>0, <1>2, <2>2 DEF Live, StackOK
    <3>2. ASSUME queue # <<>>, OpenClient(Head(queue)) \/ CloseClient(Head(queue)) PROVE ~Live(c)'
      BY <1>0, <3>1, <3>2 DEF OpenClient, CloseClient, StackOK, Live
    <3>3. ASSUME NEW p \in timers, Fallback(p) PROVE ~Live(c)'
      BY <1>0, <3>1, <3>3 DEF Fallback, StackOK, Live
    <3>4. ASSUME NEW d \in Client, Up(d) \/ \E transient \in BOOLEAN : Down(d, transient) PROVE ~Live(c)'
      BY <1>0, <3>1, <3>4 DEF Up, Down, StackOK, Live
    <3>5. client' = client => ~Live(c)'
      BY <3>1 DEF Live
    <3>6. \/ client' = client
          \/ queue # <<>> /\ (OpenClient(Head(queue)) \/ CloseClient(Head(queue)))
          \/ \E p \in timers : Fallback(p)
          \/ \E d \in Client : Up(d) \/ \E transient \in BOOLEAN : Down(d, transient)
      BY DEF Next, Begin, Proceed, Connect, Disconnect, StartOperation, RequestMtu, Operate, Fetch, Keep, Return, Advertise,
         RunDue, ReadGatt, RunTimer, Retry, TryAgain, Rediscover, GoOn, DisconnectUnused, DisconnectUsed, Accept, Refuse,
         Report, Complete, vars, stack
    <3> QED
      BY <3>2, <3>3, <3>4, <3>5, <3>6
  <2> QED
    BY <1>1, <1>2, <2>1, <2>2 DEF CutOrNot
<1>3. ASSUME NEW n \in DOMAIN queue', queue'[n].kind = "cancel"
      PROVE  queue'[n].client # 0 /\ CutOrNot(queue[n].client)'
  <2>1. PICK p \in Task : p = queue'[n]
    BY <1>0 DEF MainOK
  <2>2. ASSUME NEW m \in DOMAIN queue, queue[m] = p PROVE p.client # 0 /\ CutOrNot(p.client)'
    <3>1. p.client # 0 /\ CutOrNot(p.client) /\ OpenedFor(p.client, p.obj)
      BY <1>3, <2>1, <2>2 DEF CancelsFit, NamesFit
    <3>2. p.client \in Client /\ client[p.client] # "unused"
      BY <3>1, NumbersAndTasks DEF OpenedFor, Client
    <3> QED
      BY <1>2, <3>1, <3>2
  <2>3. ASSUME queue' = Append(queue, p), NEW q \in disconnecting, DisconnectUnused(q),
               p.client = pending[q.obj], p.client # 0
        PROVE  CutOrNot(p.client)'
    <3>1. p.client \in Client
      BY <2>3, NumbersAndTasks DEF Client
    <3>2. Live(p.client) => owner[p.client].call \in cut'
      BY <2>3, <3>1, AreUnderWay DEF DisconnectUnused, Forget
    <3>3. UNCHANGED <<client, owner>>
      BY <2>3 DEF DisconnectUnused, stack
    <3> QED
      BY <3>2, <3>3 DEF CutOrNot, Live
  <2>4. CASE queue' = queue
    BY <2>1, <2>2, <2>4 DEF CutOrNot, Live
  <2>5. CASE queue # <<>> /\ queue' = Tail(queue)
    <3>1. n + 1 \in DOMAIN queue /\ queue'[n] = queue[n + 1]
      BY <1>0, <2>5, Taken DEF MainOK
    <3> QED
      BY <2>1, <2>2, <3>1 DEF CutOrNot, Live
  <2>6. ASSUME NEW q \in Task, queue' = Append(queue, q),
               q.kind = "cancel" => \E r \in disconnecting : DisconnectUnused(r) /\ q.client = pending[r.obj] /\ q.client # 0
        PROVE  queue'[n].client # 0 /\ CutOrNot(queue[n].client)'
    <3>1. p = q \/ (n \in DOMAIN queue /\ queue[n] = p)
      BY <1>0, <2>1, <2>6, Posted DEF MainOK
    <3>2. p.client # 0 /\ CutOrNot(p.client)'
      BY <1>3, <2>1, <2>2, <2>3, <2>6, <3>1
    <3> QED
      BY <2>1, <3>2 DEF CutOrNot, Live
  <2> QED
    BY <2>4, <2>5, <2>6, QueueSteps
<1> QED
  BY <1>3 DEF CancelsFit, CutOrNot, Live

\* UsedAreOpen is kept by every step.
LEMMA UsedStep ==
  ASSUME TypeOK, TypeOK', NamesFit, CancelsFit, UsedAreOpen, [Next]_vars
  PROVE  UsedAreOpen'
<1> USE DEF stack, peripheral
<1>0. StackOK /\ ClientsOK /\ MainOK /\ cut \subseteq cut'
  BY TypesAreAll, CutGrows DEF AllOK
<1>1. ASSUME NEW c \in Client, Up(c), NEW o \in Object, o = owner[c].obj PROVE gatt'[o] = c /\ Live(c)' /\ c # 0
  BY <1>0, <1>1 DEF Up, StackOK, ClientsOK, Live, Client
<1>2. ASSUME NEW p \in timers, Fallback(p), answer[p.call] = "open" PROVE gatt'[p.obj] = 0 /\ connected'[p.obj] = FALSE
  BY <1>0, <1>2, NumbersAndTasks DEF Fallback, ClientsOK, MainOK
<1>3. ASSUME NEW c \in Client, NEW transient \in BOOLEAN, Down(c, transient), NEW o \in Object, o = owner[c].obj
      PROVE  gatt'[o] = 0 /\ connected'[o] = FALSE
  BY <1>0, <1>3 DEF Down, ClientsOK
\* Otherwise a Peripheral keeps the client it uses, if it had one.
<1>4. ASSUME NEW o \in Object, \A c \in Client : Up(c) => o # owner[c].obj
      PROVE  \/ gatt'[o] = 0 /\ connected'[o] = FALSE
             \/ gatt'[o] = gatt[o] /\ (connected'[o] => connected[o])
  <2>1. ASSUME NEW c \in Client, Up(c) PROVE gatt'[o] = gatt[o] /\ connected'[o] = connected[o]
    BY <1>0, <1>4, <2>1 DEF Up, ClientsOK
  <2>2. ASSUME NEW c \in Client, NEW transient \in BOOLEAN, Down(c, transient), o # owner[c].obj
        PROVE  gatt'[o] = gatt[o] /\ connected'[o] = connected[o]
    BY <1>0, <2>2 DEF Down, ClientsOK
  <2>3. ASSUME NEW p \in timers, Fallback(p), answer[p.call] # "open" \/ o # p.obj
        PROVE  gatt'[o] = gatt[o] /\ connected'[o] = connected[o]
    BY <1>0, <2>3 DEF Fallback, ClientsOK
  <2>4. ASSUME NEW p \in disconnecting, DisconnectUnused(p) PROVE gatt'[o] = gatt[o] /\ (connected'[o] => connected[o])
    BY <1>0, <2>4 DEF DisconnectUnused, ClientsOK
  <2>5. \/ gatt' = gatt /\ connected' = connected
        \/ (\E p \in timers : Fallback(p)) \/ (\E p \in disconnecting : DisconnectUnused(p))
        \/ \E c \in Client : Up(c) \/ \E transient \in BOOLEAN : Down(c, transient)
    BY DEF Next, Begin, Proceed, Connect, Disconnect, StartOperation, RequestMtu, Operate, Fetch, Keep, Return, Advertise,
       RunDue, OpenClient, CloseClient, ReadGatt, RunTimer, Retry, TryAgain, Rediscover, GoOn, DisconnectUsed,
       Accept, Refuse, Report, Complete, vars
  <2> QED
    BY <1>2, <1>3, <2>1, <2>2, <2>3, <2>4, <2>5
<1>5. ASSUME NEW o \in Object, gatt'[o] = gatt[o], gatt[o] # 0, gatt'[o] # 0 PROVE Live(gatt[o])' \/ owner'[gatt[o]].call \in cut'
  <2>0. PICK c \in Client : c = gatt[o]
    BY <1>0, <1>5 DEF ClientsOK, Client
  <2>1. client[c] # "unused" /\ owner[c].obj = o
    BY <1>5, <2>0 DEF NamesFit, OpenedFor
  <2>2. owner'[c] = owner[c]
    BY <2>1, ClientsStayUsed
  <2>3. CASE owner[c].call \in cut
    BY <1>0, <2>0, <2>2, <2>3
  <2>4. CASE Live(c) /\ owner[c].call \notin cut
    <3>1. ASSUME queue # <<>>, Head(queue).kind = "cancel", Head(queue).client = c PROVE FALSE
      <4>1. 1 \in DOMAIN queue /\ queue[1] = Head(queue)
        BY <1>0, <3>1, Taken DEF MainOK
      <4> QED
        BY <2>4, <3>1, <4>1 DEF CancelsFit, CutOrNot
    <3>2. ASSUME NEW p \in timers, Fallback(p), answer[p.call] = "open", p.obj = o PROVE FALSE
      BY <1>2, <1>5, <3>2
    <3>3. ASSUME NEW d \in Client, NEW transient \in BOOLEAN, Down(d, transient), owner[d].obj = o PROVE FALSE
      BY <1>3, <1>5, <3>3
    <3>4. Live(c)'
      BY <2>1, <2>4, <3>1, <3>2, <3>3, LiveStep
    <3> QED
      BY <1>5, <2>0, <3>4 DEF Live
  <2> QED
    BY <1>5, <2>0, <2>3, <2>4 DEF UsedAreOpen
<1>6. ASSUME NEW o \in Object
      PROVE  (connected'[o] => gatt'[o] # 0) /\ (gatt'[o] # 0 => Live(gatt[o])' \/ owner'[gatt'[o]].call \in cut')
  <2>1. ASSUME NEW c \in Client, Up(c), o = owner[c].obj PROVE gatt'[o] # 0 /\ Live(gatt[o])'
    <3>1. gatt'[o] = c /\ Live(c)' /\ c # 0
      BY <1>1, <2>1
    <3> QED
      BY <3>1 DEF Live
  <2>2. CASE gatt'[o] = 0 /\ connected'[o] = FALSE
    BY <2>2
  <2>3. CASE gatt'[o] = gatt[o] /\ (connected'[o] => connected[o])
    BY <1>5, <2>3 DEF UsedAreOpen
  <2> QED
    BY <1>4, <2>1, <2>2, <2>3
<1> QED
  BY <1>6 DEF UsedAreOpen

\* The invariant is inductive, and holds at first.
LEMMA OpenStep == TypeOK /\ LocalsFit /\ OpenInv /\ [Next]_vars => OpenInv'
BY TypeStep, NamesStep, CancelsStep, UsedStep DEF OpenInv

\* No client is used at first.
LEMMA InitOpen == Init => OpenInv
<1> SUFFICES ASSUME Init PROVE OpenInv
  OBVIOUS
<1>1. DOMAIN queue = {} /\ timers = {} /\ disconnecting = {} /\ \A o \in Object : gatt[o] = 0 /\ pending[o] = 0 /\ ~connected[o]
  BY DEF Init
<1> QED
  BY <1>1 DEF OpenInv, NamesFit, OpenedFor, UsedAreOpen, CancelsFit

-----------------------------------------------------------------------------
(* Services                                                                *)

\* Call j is recorded nowhere, but as an operation of one of these kinds.
RecordedOnly(j, kinds) ==
  /\ \A o \in Object : onChange[o] # None => onChange[o].call # j
  /\ \A o \in Object, k \in Slot : slot[o][k] = j => k \in kinds
  /\ \A p \in timers \cup disconnecting : p.call # j
  /\ \A n \in DOMAIN queue : queue[n].call = j => queue[n].kind \in kinds
  /\ looper # None /\ looper.call = j => looper.kind \in kinds

\* A call of Kotlin is new, and then it is not.
LEMMA CallsAreNew ==
  ASSUME TypeOK, NEW t \in Caller, NEW i \in CallId,
         Connect(t, i) \/ Disconnect(t, i) \/ \E k \in Slot : Operate(t, k, i)
  PROVE  /\ answer[i] = "none" /\ answer'[i] # "none"
         /\ \A j \in CallId : j # i => answer'[j] = answer[j] \/ (answer[j] = "open" /\ answer'[j] = "failed")
         /\ ~Connect(t, i) => answer'[i] # "ok"
<1>0. AnswersOK
  BY TypesAreAll DEF AllOK
<1>1. answer[i] = "none"
  BY DEF Connect, Disconnect, Operate, NewCall
<1>2. Connect(t, i) => \E r \in {"ok", "open"} : Opened(i, r)
  BY DEF Connect
<1>3. Disconnect(t, i) => \E r \in {"open", "failed"} : Opened(i, r)
  BY DEF Disconnect
<1>4. ASSUME NEW k \in Slot, Operate(t, k, i)
      PROVE  \/ Opened(i, "failed")
             \/ \E d : answer' = [j \in CallId |-> IF j = i THEN "open" ELSE IF answer[j] = "open" /\ j \in d THEN "failed" ELSE answer[j]]
  <2> DEFINE d == IF k = "mtu" THEN {slot[registered][k]} ELSE {}
  <2>1. CASE registered # 0 /\ (k = "discover" => gatt[registered] # 0)
    <3>1. answer' = [j \in CallId |-> IF j = i THEN "open" ELSE IF answer[j] = "open" /\ j \in d THEN "failed" ELSE answer[j]]
      BY <1>4, <2>1, Zenon DEF Operate
    <3> QED
      BY <3>1, Zenon
  <2>2. CASE ~(registered # 0 /\ (k = "discover" => gatt[registered] # 0))
    <3>1. Opened(i, "failed")
      BY <1>4, <2>2, Zenon DEF Operate
    <3> QED
      BY <3>1
  <2> QED
    BY <2>1, <2>2
<1> QED
  BY <1>0, <1>1, <1>2, <1>3, <1>4 DEF Opened, AnswersOK

\* No step takes a call that is made for one of another kind.
LEMMA RecordedStep ==
  ASSUME TypeOK, TypeOK', LocalsFit, NEW j \in CallId, NEW kinds \in SUBSET {"discover"}, RecordedOnly(j, kinds), [Next]_vars,
         answer[j] # "none" \/ answer'[j] = "none"
  PROVE  RecordedOnly(j, kinds)'
<1> USE DEF stack, peripheral, plugin, main, callers
<1>0. /\ ClientsOK /\ OperationsOK /\ PluginOK /\ MainOK /\ StackOK /\ ClientsOK' /\ PluginOK' /\ MainOK' /\ j # 0
      /\ \A k \in kinds : k = "discover"
  BY TypesAreAll DEF AllOK, CallId
<1> DEFINE WaiterFits(o) == onChange'[o] = None \/ onChange'[o] = onChange[o] \/ onChange'[o].call # j
           PostFits(n) == queue'[n].call # j \/ \E m \in DOMAIN queue : queue'[n] = queue[m]
           TaskFits(p) == p \in timers \cup disconnecting \/ p.call # j
           SlotFits(o, k) == slot'[o][k] \in {slot[o][k], 0} \/ slot'[o][k] # j
<1>1. ASSUME NEW t \in Caller, NEW i \in CallId, NEW k \in Slot, Operate(t, k, i) PROVE i # j
  BY <1>1, CallsAreNew
<1>2. ASSUME NEW t \in Caller, NEW i \in CallId, Connect(t, i) PROVE i # j
  BY <1>2, CallsAreNew
<1>3. ASSUME NEW t \in Caller, NEW i \in CallId, Disconnect(t, i) PROVE i # j
  BY <1>3, CallsAreNew
\* What the Peripherals wait for.
<1>4. ASSUME NEW o \in Object PROVE WaiterFits(o)
  <2>1. ASSUME NEW q \in Object, NEW w, w.call # j, onChange' = [onChange EXCEPT ![q] = w]
        PROVE  onChange'[o] = onChange[o] \/ onChange'[o].call # j
    BY <1>0, <2>1 DEF ClientsOK
  <2>2. ASSUME NEW q \in Object, onChange' = [onChange EXCEPT ![q] = None]
        PROVE  onChange'[o] = onChange[o] \/ onChange'[o] = None
    BY <1>0, <2>2 DEF ClientsOK
  <2>3. ASSUME NEW t \in Caller, NEW i \in CallId, Connect(t, i) PROVE WaiterFits(o)
    <3>1. Chosen \in Object
      BY <1>0, NumbersAndTasks DEF Chosen, PluginOK
    <3>2. i # j
      BY <1>2, <2>3
    <3>3. onChange' = onChange \/ onChange' = [onChange EXCEPT ![Chosen] = [kind |-> "connect", call |-> i]]
      BY <2>3 DEF Connect
    <3>4. CASE onChange' = onChange
      BY <3>4
    <3>5. CASE onChange' = [onChange EXCEPT ![Chosen] = [kind |-> "connect", call |-> i]]
      <4>1. [kind |-> "connect", call |-> i].call # j
        BY <3>2
      <4> QED
        BY <2>1, <3>1, <3>5, <4>1
    <3> QED
      BY <3>3, <3>4, <3>5
  <2>4. ASSUME NEW p \in timers \cup disconnecting,
               \/ onChange' = [onChange EXCEPT ![p.obj] = [kind |-> "connect", call |-> p.call]]
               \/ onChange' = [onChange EXCEPT ![p.obj] = [kind |-> "disconnect", call |-> p.call]]
               \/ onChange' = [onChange EXCEPT ![p.obj] = None]
        PROVE WaiterFits(o)
    <3>1. p.obj \in Object /\ p.call # j
      BY <1>0, NumbersAndTasks DEF PluginOK, MainOK, RecordedOnly
    <3> QED
      BY <2>1, <2>2, <2>4, <3>1
  <2>5. ASSUME queue # <<>>, onChange' = [onChange EXCEPT ![Head(queue).obj] = None] PROVE WaiterFits(o)
    <3>1. Head(queue).obj \in Object
      BY <1>0, <2>5, Taken, NumbersAndTasks DEF MainOK
    <3> QED
      BY <2>2, <2>5, <3>1
  <2>6. ASSUME NEW c \in Client, Up(c) \/ \E transient \in BOOLEAN : Down(c, transient) PROVE WaiterFits(o)
    <3>1. PICK q \in Object : q = owner[c].obj
      BY <1>0 DEF StackOK
    <3>2. onChange' = [onChange EXCEPT ![q] = None] \/ onChange' = [onChange EXCEPT ![q] = @]
      BY <2>6, <3>1 DEF Up, Down
    <3> QED
      BY <1>0, <2>2, <3>2 DEF ClientsOK
  <2>7. \/ onChange' = onChange \/ (\E t \in Caller, i \in CallId : Connect(t, i))
        \/ (\E p \in disconnecting : DisconnectUsed(p)) \/ (\E p \in timers : Retry(p) \/ Fallback(p))
        \/ (queue # <<>> /\ OpenClient(Head(queue)))
        \/ \E c \in Client : Up(c) \/ \E transient \in BOOLEAN : Down(c, transient)
    BY DEF Next, Begin, Proceed, Disconnect, StartOperation, RequestMtu, Operate, Fetch, Keep, Return, Advertise,
       RunDue, CloseClient, ReadGatt, RunTimer, TryAgain, Rediscover, GoOn, DisconnectUnused, Accept, Refuse, Report, Complete, vars
  <2> QED
    BY <2>3, <2>4, <2>5, <2>6, <2>7 DEF DisconnectUsed, Retry, Fallback, OpenClient
\* What is posted.
<1>5. ASSUME NEW n \in DOMAIN queue' PROVE PostFits(n)
  <2>1. ASSUME NEW p \in Task, p.call # j, queue' = Append(queue, p) PROVE PostFits(n)
    BY <1>0, <2>1, Posted DEF MainOK
  <2>2. ASSUME queue # <<>>, queue' = Tail(queue) PROVE PostFits(n)
    BY <1>0, <2>2, Taken DEF MainOK
  <2>3. ASSUME NEW k \in {"open", "cancel"} \cup Slot, NEW o \in Object, NEW c \in 0 .. MaxClients, NEW i \in 0 .. MaxCalls, i # j,
               queue' = Append(queue, Post(k, o, c, i, 0))
        PROVE  PostFits(n)
    <3>1. Post(k, o, c, i, 0) \in Task
      BY NumbersAndTasks, PostIsTask DEF Slot
    <3>2. Post(k, o, c, i, 0).call # j
      BY <2>3 DEF Post
    <3> QED
      BY <2>1, <2>3, <3>1, <3>2
  <2>4. ASSUME NEW t \in Caller, NEW i \in CallId, Connect(t, i) PROVE PostFits(n)
    <3>1. Chosen \in Object /\ i # j /\ i \in 0 .. MaxCalls
      BY <1>0, <1>2, <2>4, NumbersAndTasks DEF Chosen, PluginOK
    <3>2. queue' = queue \/ queue' = Append(queue, Post("open", Chosen, 0, i, 0))
      BY <2>4 DEF Connect
    <3> QED
      BY <2>3, <3>1, <3>2, NumbersAndTasks
  <2>5. ASSUME NEW t \in Caller, NEW i \in CallId, NEW k \in Slot, Operate(t, k, i) PROVE PostFits(n)
    <3> DEFINE c == IF k = "discover" THEN gatt[registered] ELSE 0
    <3>1. i # j /\ i \in 0 .. MaxCalls
      BY <1>1, <2>5, NumbersAndTasks
    <3>2. registered # 0 => registered \in Object /\ c \in 0 .. MaxClients
      BY <1>0, NumbersAndTasks DEF PluginOK, ClientsOK
    <3>3. queue' = queue \/ (registered # 0 /\ queue' = Append(queue, Post(k, registered, c, i, 0)))
      BY <2>5 DEF Operate
    <3> HIDE DEF c
    <3> QED
      BY <2>3, <3>1, <3>2, <3>3
  <2>6. ASSUME NEW p \in disconnecting, DisconnectUnused(p) PROVE PostFits(n)
    <3>1. p.obj \in Object /\ p.call \in 0 .. MaxCalls /\ p.call # j /\ pending[p.obj] \in 0 .. MaxClients
      BY <1>0, NumbersAndTasks DEF PluginOK, ClientsOK, RecordedOnly
    <3>2. queue' = queue \/ queue' = Append(queue, Post("cancel", p.obj, pending[p.obj], p.call, 0))
      BY <2>6 DEF DisconnectUnused
    <3> QED
      BY <2>3, <3>1, <3>2
  <2>7. ASSUME NEW p \in timers \cup disconnecting, NEW k \in {"close", "access"}, queue' = Append(queue, [p EXCEPT !.kind = k]) PROVE PostFits(n)
    <3>1. p \in Task /\ p.call # j
      BY <1>0 DEF PluginOK, MainOK, RecordedOnly
    <3>2. [p EXCEPT !.kind = k] \in Task /\ [p EXCEPT !.kind = k].call # j
      BY <3>1 DEF Task, Slot
    <3> QED
      BY <2>1, <2>7, <3>2
  <2>8. ASSUME NEW p \in timers, Retry(p) PROVE PostFits(n)
    <3>1. p.obj \in Object /\ p.call \in 0 .. MaxCalls /\ p.call # j
      BY <1>0, NumbersAndTasks DEF MainOK, RecordedOnly
    <3> QED
      BY <2>3, <2>8, <3>1, NumbersAndTasks DEF Retry
  <2>9. \/ queue' = queue \/ (queue # <<>> /\ queue' = Tail(queue)) \/ (\E t \in Caller, i \in CallId : Connect(t, i))
        \/ (\E t \in Caller, i \in CallId, k \in Slot : Operate(t, k, i))
        \/ (\E p \in disconnecting : DisconnectUnused(p) \/ DisconnectUsed(p)) \/ (\E p \in timers : Retry(p) \/ TryAgain(p))
    BY DEF Next, Begin, Proceed, Disconnect, StartOperation, RequestMtu, Fetch, Keep, Return, Advertise,
       RunDue, Due, OpenClient, CloseClient, ReadGatt, RunTimer, Rediscover, Fallback, GoOn, Accept, Refuse, Report, Up, Down,
       Complete, vars, Slot
  <2> QED
    BY <2>2, <2>4, <2>5, <2>6, <2>7, <2>8, <2>9 DEF DisconnectUsed, TryAgain
\* The timers, and the disconnects.
<1>6. ASSUME NEW p \in timers' \cup disconnecting' PROVE TaskFits(p)
  <2>1. ASSUME NEW t \in Caller, NEW i \in CallId, Disconnect(t, i) PROVE TaskFits(p)
    <3>1. i # j
      BY <1>3, <2>1
    <3> QED
      BY <2>1, <3>1 DEF Disconnect, Post
  <2>2. ASSUME NEW q \in disconnecting, DisconnectUsed(q) PROVE TaskFits(p)
    <3>1. q \in Task /\ q.call # j
      BY <1>0 DEF PluginOK, RecordedOnly
    <3>2. [q EXCEPT !.kind = "fallback"].call # j
      BY <3>1 DEF Task
    <3> QED
      BY <2>2, <3>2 DEF DisconnectUsed
  <2>3. ASSUME Refuse, p \notin timers, p \in timers' PROVE p.call # j
    <3>1. looper # None /\ looper.kind = "access" /\ p.call = looper.call
      BY <2>3 DEF Refuse, Post
    <3>2. "access" \notin kinds
      BY <1>0
    <3> QED
      BY <3>1, <3>2 DEF RecordedOnly
  <2>4. ASSUME NEW c \in Client, NEW transient \in BOOLEAN, Down(c, transient), p \notin timers, p \in timers' PROVE p.call # j
    <3>1. PICK o \in Object : o = owner[c].obj
      BY <1>0 DEF StackOK
    <3>2. onChange[o] # None /\ p.call = onChange[o].call
      BY <2>4, <3>1 DEF Down, AnotherAttempt, Connects, Post
    <3> QED
      BY <3>2 DEF RecordedOnly
  <2>5. ASSUME NEW s \in inStack, Complete(s), p \notin timers, p \in timers' PROVE p.call # j
    <3>1. PICK o \in Object : o = owner[s.client].obj
      BY <1>0 DEF StackOK
    <3>2. p.call = 0 \/ (s.kind = "access" /\ p.call = slot[o][s.kind])
      BY <2>5, <3>1 DEF Complete, Post
    <3>3. "access" \notin kinds /\ "access" \in Slot
      BY <1>0 DEF Slot
    <3> QED
      BY <1>0, <3>2, <3>3 DEF RecordedOnly
  <2>6. \/ timers' \subseteq timers \/ Refuse \/ (\E q \in disconnecting : DisconnectUsed(q))
        \/ (\E c \in Client, transient \in BOOLEAN : Down(c, transient)) \/ (\E s \in inStack : Complete(s))
    BY DEF Next, Begin, Proceed, Connect, Disconnect, StartOperation, RequestMtu, Operate, Fetch, Keep, Return, Advertise,
       RunDue, OpenClient, CloseClient, ReadGatt, RunTimer, Retry, TryAgain, Rediscover, Fallback, Elapsed, GoOn,
       DisconnectUnused, Accept, Report, Up, vars
  <2>7. disconnecting' \subseteq disconnecting \/ \E t \in Caller, i \in CallId : Disconnect(t, i)
    BY DEF Next, Begin, Proceed, Connect, StartOperation, RequestMtu, Operate, Fetch, Keep, Return, Advertise,
       RunDue, OpenClient, CloseClient, ReadGatt, RunTimer, Retry, TryAgain, Rediscover, Fallback, GoOn,
       DisconnectUnused, DisconnectUsed, Accept, Refuse, Report, Up, Down, Complete, vars
  <2> QED
    BY <2>1, <2>2, <2>3, <2>4, <2>5, <2>6, <2>7
\* What the looper is in the middle of.
<1>7. looper' = looper \/ looper' = None \/ looper'.call # j \/ looper'.kind \in kinds
  <2>1. ASSUME queue # <<>>, ReadGatt(Head(queue)) PROVE <1>7
    <3>1. Head(queue) \in Task /\ 1 \in DOMAIN queue /\ queue[1] = Head(queue)
      BY <1>0, <2>1, Taken DEF MainOK
    <3>2. \A g : [Head(queue) EXCEPT !.client = g].call = Head(queue).call /\ [Head(queue) EXCEPT !.client = g].kind = Head(queue).kind
      BY <3>1 DEF Task
    <3>3. looper' = looper \/ \E g : looper' = [Head(queue) EXCEPT !.client = g]
      BY <2>1 DEF ReadGatt
    <3>4. Head(queue).call # j \/ Head(queue).kind \in kinds
      BY <3>1 DEF RecordedOnly
    <3> QED
      BY <3>2, <3>3, <3>4
  <2>2. looper' = looper \/ looper' = None \/ (queue # <<>> /\ ReadGatt(Head(queue)))
    BY DEF Next, Begin, Proceed, Connect, Disconnect, StartOperation, RequestMtu, Operate, Fetch, Keep, Return, Advertise,
       RunDue, OpenClient, CloseClient, RunTimer, Retry, TryAgain, Rediscover, Fallback, GoOn,
       DisconnectUnused, DisconnectUsed, Accept, Refuse, Report, Up, Down, Complete, vars
  <2> QED
    BY <2>1, <2>2
\* What waits for each kind of operation.
<1>8. ASSUME NEW o \in Object, NEW k \in Slot PROVE SlotFits(o, k)
  <2>0. \A m \in Slot : NoCalls[m] = 0
    BY DEF NoCalls
  <2>1. ASSUME NEW q \in Object, slot' = [slot EXCEPT ![q] = NoCalls] PROVE SlotFits(o, k)
    BY <1>0, <2>0, <2>1 DEF OperationsOK
  <2>2. ASSUME NEW q \in Object, NEW l \in Slot, NEW i, i = 0 \/ i # j, slot' = [slot EXCEPT ![q][l] = i] PROVE SlotFits(o, k)
    BY <1>0, <2>2 DEF OperationsOK
  <2>3. ASSUME NEW t \in Caller, NEW i \in CallId, NEW l \in Slot, Operate(t, l, i) PROVE SlotFits(o, k)
    <3>1. i # j
      BY <1>1, <2>3
    <3>2. registered # 0 => registered \in Object
      BY <1>0, NumbersAndTasks DEF PluginOK
    <3>3. slot' = slot \/ (registered # 0 /\ slot' = [slot EXCEPT ![registered][l] = i])
      <4>1. CASE registered # 0 /\ (l = "discover" => gatt[registered] # 0)
        <5>1. slot' = IF l = "access" THEN slot ELSE [slot EXCEPT ![registered][l] = i]
          BY <2>3, <4>1, Zenon DEF Operate
        <5> QED
          BY <4>1, <5>1, Zenon
      <4>2. CASE ~(registered # 0 /\ (l = "discover" => gatt[registered] # 0))
        <5>1. slot' = slot
          BY <2>3, <4>2, Zenon DEF Operate
        <5> QED
          BY <5>1
      <4> QED
        BY <4>1, <4>2
    <3>4. CASE slot' = slot
      BY <3>4
    <3>5. CASE registered # 0 /\ slot' = [slot EXCEPT ![registered][l] = i]
      BY <2>2, <3>1, <3>2, <3>5
    <3> QED
      BY <3>3, <3>4, <3>5
  <2>4. ASSUME NEW p \in timers \cup disconnecting, slot' = slot \/ slot' = [slot EXCEPT ![p.obj] = NoCalls] PROVE SlotFits(o, k)
    BY <1>0, <2>1, <2>4, NumbersAndTasks DEF PluginOK, MainOK
  <2>5. ASSUME NEW p \in timers, Rediscover(p) PROVE SlotFits(o, k)
    <3>1. p.obj \in Object /\ "discover" \in Slot
      BY <1>0, NumbersAndTasks DEF MainOK, Slot
    <3>2. slot' = slot \/ slot' = [slot EXCEPT ![p.obj]["discover"] = 0]
      BY <2>5 DEF Rediscover
    <3> QED
      BY <2>2, <3>1, <3>2
  <2>6. ASSUME queue # <<>>, ReadGatt(Head(queue)) PROVE SlotFits(o, k)
    <3>1. Head(queue).obj \in Object /\ "mtu" \in Slot
      BY <1>0, <2>6, Taken, NumbersAndTasks DEF MainOK, Slot
    <3>2. slot' = slot \/ slot' = [slot EXCEPT ![Head(queue).obj]["mtu"] = 0]
      BY <2>6 DEF ReadGatt
    <3> QED
      BY <2>2, <3>1, <3>2
  <2>7. CASE Accept
    <3>1. looper \in Task /\ looper.obj \in Object /\ "access" \in Slot /\ "access" \notin kinds
      BY <1>0, <2>7, NumbersAndTasks DEF Accept, MainOK, Slot
    <3>2. slot' = slot \/ (looper.kind = "access" /\ slot' = [slot EXCEPT ![looper.obj]["access"] = looper.call])
      BY <2>7 DEF Accept
    <3>3. looper.kind = "access" => looper.call # j
      BY <2>7, <3>1 DEF RecordedOnly, Accept
    <3> QED
      BY <2>2, <3>1, <3>2, <3>3
  <2>8. CASE Refuse
    <3>1. looper \in Task /\ looper.obj \in Object /\ looper.kind \in Slot
      BY <1>0, <2>8, NumbersAndTasks DEF Refuse, MainOK, LocalsFit
    <3>2. slot' = slot \/ slot' = [slot EXCEPT ![looper.obj][looper.kind] = 0]
      BY <2>8 DEF Refuse
    <3> QED
      BY <2>2, <3>1, <3>2
  <2>9. ASSUME NEW c \in Client, Up(c) \/ \E transient \in BOOLEAN : Down(c, transient) PROVE SlotFits(o, k)
    <3>1. PICK q \in Object : q = owner[c].obj
      BY <1>0 DEF StackOK
    <3>2. slot' = slot \/ slot' = [slot EXCEPT ![q] = NoCalls]
      BY <2>9, <3>1 DEF Up, Down
    <3> QED
      BY <2>1, <3>1, <3>2
  <2>10. ASSUME NEW s \in inStack, Complete(s) PROVE SlotFits(o, k)
    <3>1. PICK q \in Object : q = owner[s.client].obj
      BY <1>0 DEF StackOK
    <3>2. s.kind \in Slot /\ "access" \in Slot
      BY <1>0 DEF StackOK, Slot
    <3>3. slot' = slot \/ slot' = [slot EXCEPT ![q][s.kind] = 0] \/ slot' = [slot EXCEPT ![q]["access"] = 0]
      BY <2>10, <3>1 DEF Complete
    <3> QED
      BY <2>2, <3>1, <3>2, <3>3
  <2>11. \/ slot' = slot \/ (\E t \in Caller, i \in CallId, l \in Slot : Operate(t, l, i))
         \/ (\E p \in disconnecting : DisconnectUnused(p)) \/ (\E p \in timers : Fallback(p) \/ Rediscover(p))
         \/ (queue # <<>> /\ ReadGatt(Head(queue))) \/ Accept \/ Refuse
         \/ (\E c \in Client : Up(c) \/ \E transient \in BOOLEAN : Down(c, transient)) \/ (\E s \in inStack : Complete(s))
    BY DEF Next, Begin, Proceed, Connect, Disconnect, StartOperation, RequestMtu, Fetch, Keep, Return, Advertise, RunDue,
       OpenClient, CloseClient, RunTimer, Retry, TryAgain, GoOn, DisconnectUsed, Report, vars, Slot
  <2>12. slot' = slot => SlotFits(o, k)
    OBVIOUS
  <2> QED
    BY <2>3, <2>4, <2>5, <2>6, <2>7, <2>8, <2>9, <2>10, <2>11, <2>12 DEF DisconnectUnused, Fallback
<1> QED
  <2>1. \A o \in Object : onChange'[o] # None => onChange'[o].call # j
    BY <1>4 DEF RecordedOnly
  <2>2. \A o \in Object, k \in Slot : slot'[o][k] = j => k \in kinds
    BY <1>0, <1>8 DEF RecordedOnly
  <2>3. \A p \in timers' \cup disconnecting' : p.call # j
    BY <1>6 DEF RecordedOnly
  <2>4. \A n \in DOMAIN queue' : queue'[n].call = j => queue'[n].kind \in kinds
    BY <1>5 DEF RecordedOnly
  <2>5. looper' # None /\ looper'.call = j => looper'.kind \in kinds
    BY <1>7 DEF RecordedOnly
  <2> QED
    BY <2>1, <2>2, <2>3, <2>4, <2>5 DEF RecordedOnly

\* What is answered does not become new.
LEMMA AnswersStay ==
  ASSUME TypeOK, [Next]_vars
  PROVE  \A j \in CallId : answer[j] # "none" => answer'[j] # "none"
<1>1. ASSUME NEW good, NEW bad, Answer(good, bad) PROVE \A j \in CallId : answer[j] # "none" => answer'[j] # "none"
  BY <1>1, AnsweredOnce
<1>2. ASSUME NEW t \in Caller, NEW i \in CallId, Connect(t, i) \/ Disconnect(t, i) \/ \E k \in Slot : Operate(t, k, i)
      PROVE  \A j \in CallId : answer[j] # "none" => answer'[j] # "none"
  BY <1>2, CallsAreNew
<1>3. \/ answer' = answer \/ (\E good, bad : Answer(good, bad))
      \/ \E t \in Caller, i \in CallId : Connect(t, i) \/ Disconnect(t, i) \/ \E k \in Slot : Operate(t, k, i)
  BY DEF Next, Begin, Proceed, StartOperation, RequestMtu, Fetch, Keep, Return, Advertise, RunDue,
     OpenClient, CloseClient, ReadGatt, RunTimer, Retry, TryAgain, Rediscover, Fallback, GoOn, DisconnectUnused, DisconnectUsed,
     Accept, Refuse, Report, Up, Down, Complete, vars, Slot
<1> QED
  BY <1>1, <1>2, <1>3

\* A call that was not made is recorded nowhere; one that discovers is, but as such.
\* Only those that connect discover services.
Fresh == \A j \in CallId : answer[j] = "none" => RecordedOnly(j, {})
OfDiscover ==
  \A t \in Caller : pc[t] = "discover" =>
    doing[t] \in CallId /\ answer[doing[t]] # "none" /\ RecordedOnly(doing[t], {"discover"})
Discoverers == \A t \in Caller : pc[t] \in {"discover", "fetched"} => t \in Connector

\* What a step does to the callers.
LEMMA CallersMove ==
  ASSUME TypeOK, Discoverers, [Next]_vars, NEW t \in Caller
  PROVE  \/ pc'[t] = pc[t] /\ doing'[t] = doing[t]
         \/ \E i \in CallId : /\ Connect(t, i) \/ Disconnect(t, i) \/ \E k \in Slot : Operate(t, k, i)
                              /\ doing'[t] = i /\ pc'[t] # "fetched"
                              /\ pc'[t] = "discover" => Operate(t, "discover", i) /\ t \in Connector
         \/ Fetch(t) /\ pc[t] = "discover"
         \/ (Keep(t) \/ Return(t)) /\ pc'[t] = "idle"
<1>0. CallersOK
  BY TypesAreAll DEF AllOK
<1>1. ASSUME NEW u \in Caller, NEW k, NEW i, NewCall(u, k, i)
      PROVE  IF u = t THEN pc'[t] = k /\ doing'[t] = i ELSE pc'[t] = pc[t] /\ doing'[t] = doing[t]
  BY <1>0, <1>1 DEF NewCall, CallersOK
<1>2. ASSUME NEW i \in CallId, Connect(t, i) \/ Disconnect(t, i) PROVE pc'[t] \in {"connect", "disconnect"} /\ doing'[t] = i
  BY <1>1, <1>2 DEF Connect, Disconnect
<1>3. ASSUME NEW i \in CallId, NEW k \in Slot, Operate(t, k, i), k = "discover" => t \in Connector
      PROVE  pc'[t] # "fetched" /\ doing'[t] = i /\ (pc'[t] = "discover" => Operate(t, "discover", i) /\ t \in Connector)
  <2>1. NewCall(t, k, i)
    BY <1>3 DEF Operate
  <2> QED
    BY <1>1, <1>3, <2>1 DEF Slot
<1>4. ASSUME NEW i \in CallId, StartOperation(t, i) \/ RequestMtu(t, i)
      PROVE  \E k \in Slot : Operate(t, k, i) /\ (k = "discover" => t \in Connector)
  BY <1>4 DEF StartOperation, RequestMtu, Slot
<1>5. ASSUME NEW u \in Caller, u # t, NEW i \in CallId,
             Connect(u, i) \/ Disconnect(u, i) \/ StartOperation(u, i) \/ RequestMtu(u, i)
      PROVE  pc'[t] = pc[t] /\ doing'[t] = doing[t]
  <2>1. \E k : NewCall(u, k, i)
    BY <1>5 DEF Connect, Disconnect, StartOperation, RequestMtu, Operate
  <2> QED
    BY <1>1, <1>5, <2>1
<1>6. ASSUME NEW u \in Caller, u # t, Fetch(u) \/ Keep(u) \/ Return(u) PROVE pc'[t] = pc[t] /\ doing'[t] = doing[t]
  BY <1>0, <1>6 DEF Fetch, Keep, Return, CallersOK
<1>7. Fetch(t) \/ Keep(t) \/ Return(t) => (Fetch(t) /\ pc[t] = "discover") \/ ((Keep(t) \/ Return(t)) /\ pc'[t] = "idle")
  BY <1>0 DEF Fetch, Keep, Return, CallersOK
<1>8. \/ pc' = pc /\ doing' = doing
      \/ \E u \in Caller, i \in CallId : Connect(u, i) \/ Disconnect(u, i) \/ StartOperation(u, i) \/ RequestMtu(u, i)
      \/ \E u \in Caller : Fetch(u) \/ Keep(u) \/ Return(u)
  BY DEF Next, Begin, Proceed, Advertise, RunDue, OpenClient, CloseClient, ReadGatt, RunTimer, Retry, TryAgain, Rediscover,
     Fallback, GoOn, DisconnectUnused, DisconnectUsed, Accept, Refuse, Report, Up, Down, Complete, vars, callers
<1> QED
  BY <1>2, <1>3, <1>4, <1>5, <1>6, <1>7, <1>8

\* What is said of the calls that discover is kept by every step.
LEMMA RecordsStep ==
  ASSUME TypeOK, TypeOK', LocalsFit, Fresh, OfDiscover, Discoverers, [Next]_vars
  PROVE  Fresh' /\ OfDiscover' /\ Discoverers'
<1>1. ASSUME NEW j \in CallId, answer'[j] = "none" PROVE RecordedOnly(j, {})'
  <2>1. answer[j] = "none"
    BY <1>1, AnswersStay
  <2> QED
    BY <1>1, <2>1, RecordedStep DEF Fresh
<1>2. ASSUME NEW t \in Caller, NEW i \in CallId, Operate(t, "discover", i) PROVE RecordedOnly(i, {"discover"})'
  <2>0. OperationsOK /\ MainOK /\ PluginOK /\ ClientsOK /\ "discover" \in Slot
    BY TypesAreAll DEF AllOK, Slot
  <2>1. RecordedOnly(i, {})
    BY <1>2 DEF Fresh, Operate, NewCall
  <2>2. UNCHANGED <<onChange, timers, disconnecting, looper>>
    BY <1>2 DEF Operate, plugin
  <2>3. \/ queue' = queue /\ slot' = slot
        \/ \E c \in 0 .. MaxClients : /\ registered \in Object
             /\ queue' = Append(queue, Post("discover", registered, c, i, 0)) /\ slot' = [slot EXCEPT ![registered]["discover"] = i]
    <3>1. CASE registered # 0 /\ gatt[registered] # 0
      <4>1. registered \in Object /\ gatt[registered] \in 0 .. MaxClients
        BY <2>0, <3>1, NumbersAndTasks DEF PluginOK, ClientsOK
      <4>2. queue' = Append(queue, Post("discover", registered, gatt[registered], i, 0)) /\ slot' = [slot EXCEPT ![registered]["discover"] = i]
        BY <1>2, <3>1, Zenon DEF Operate
      <4> QED
        BY <4>1, <4>2
    <3>2. CASE ~(registered # 0 /\ gatt[registered] # 0)
      <4>1. queue' = queue /\ slot' = slot
        BY <1>2, <3>2, Zenon DEF Operate
      <4> QED
        BY <4>1
    <3> QED
      BY <3>1, <3>2
  <2>4. CASE queue' = queue /\ slot' = slot
    BY <2>1, <2>2, <2>4 DEF RecordedOnly
  <2>5. ASSUME NEW c \in 0 .. MaxClients, registered \in Object,
               queue' = Append(queue, Post("discover", registered, c, i, 0)), slot' = [slot EXCEPT ![registered]["discover"] = i]
        PROVE  RecordedOnly(i, {"discover"})'
    <3> DEFINE p == Post("discover", registered, c, i, 0)
    <3>1. p.kind = "discover"
      BY DEF Post
    <3>2. i \in 0 .. MaxCalls
      BY NumbersAndTasks
    <3>3. p \in Task
      BY <2>0, <2>5, <3>2, PostsAreTasks
    <3>4. \A n \in DOMAIN queue' : queue'[n] = p \/ (n \in DOMAIN queue /\ queue'[n] = queue[n])
      <4> HIDE DEF p
      <4> QED
        BY <2>0, <2>5, <3>3, Posted DEF MainOK, p
    <3>5. \A o \in Object, k \in Slot : slot'[o][k] = slot[o][k] \/ k = "discover"
      BY <2>0, <2>5 DEF OperationsOK
    <3> HIDE DEF p
    <3> QED
      BY <2>1, <2>2, <3>1, <3>4, <3>5 DEF RecordedOnly
  <2> QED
    BY <2>3, <2>4, <2>5
<1>3. ASSUME NEW t \in Caller, pc'[t] = "discover"
      PROVE  doing'[t] \in CallId /\ answer'[doing'[t]] # "none" /\ RecordedOnly(doing[t], {"discover"})'
  <2>0. pc'[t] # "idle" /\ pc'[t] # "fetched"
    BY <1>3
  <2>1. ASSUME NEW i \in CallId, i = doing'[t], Operate(t, "discover", i)
        PROVE  doing'[t] \in CallId /\ answer'[doing'[t]] # "none" /\ RecordedOnly(doing[t], {"discover"})'
    <3>1. RecordedOnly(i, {"discover"})' /\ answer'[i] # "none"
      BY <1>2, <2>1, CallsAreNew DEF Slot
    <3> QED
      BY <2>1, <3>1 DEF RecordedOnly
  <2>2. CASE pc[t] = "discover" /\ doing'[t] = doing[t]
    <3>1. PICK j \in CallId : j = doing[t]
      BY <2>2 DEF OfDiscover
    <3>2. RecordedOnly(j, {"discover"}) /\ answer[j] # "none"
      BY <2>2, <3>1 DEF OfDiscover
    <3>3. RecordedOnly(j, {"discover"})' /\ answer'[j] # "none"
      BY <3>2, RecordedStep, AnswersStay
    <3> QED
      BY <2>2, <3>1, <3>3 DEF RecordedOnly
  <2>3. Fetch(t) => pc'[t] # "discover"
    <3>1. CallersOK
      BY TypesAreAll DEF AllOK
    <3> QED
      BY <3>1 DEF Fetch, CallersOK
  <2> QED
    BY <1>3, <2>1, <2>2, <2>3, CallersMove
<1>4. ASSUME NEW t \in Caller, pc'[t] \in {"discover", "fetched"} PROVE t \in Connector
  BY <1>4, CallersMove DEF Discoverers
<1> QED
  BY <1>1, <1>3, <1>4 DEF Fresh, OfDiscover, Discoverers, RecordedOnly

\* A connect that is free and has no link yet.  As long as there is one, nothing of
\* an earlier link has been read to be cached.
Attempt ==
  \/ \E n \in DOMAIN queue : OpenPost(n) /\ queue[n].call \notin Left
  \/ \E p \in timers : RetryTimer(p) /\ p.call \notin Left
  \/ \E c \in Client : client[c] = "opening" /\ owner[c].call \notin Left
NothingRead ==
  /\ cache = 0
  /\ \A t \in Connector : (pc[t] = "fetched" => doing[t] = 0) /\ (pc[t] = "discover" => answer[doing[t]] # "ok")

\* The link that is up is free, and what is cached or is about to be is of it.
FreeLink == registered # 0 /\ gatt[registered] # 0 /\ owner[gatt[registered]].call \notin Left
OfThisLink(c) == c \in {0, gatt[registered]}
ServicesFit ==
  FreeLink =>
    /\ OfThisLink(cache)
    /\ \A t \in Connector :
         /\ pc[t] = "fetched" => OfThisLink(doing[t])
         /\ pc[t] = "discover" /\ answer[doing[t]] = "ok" => OfThisLink(services[registered])

ServicesInv == Fresh /\ OfDiscover /\ Discoverers /\ (Attempt => NothingRead) /\ ServicesFit

\* What is left under way stays so.
LEMMA LeftGrows == [Next]_vars => Left \subseteq Left'
<1> SUFFICES ASSUME [Next]_vars PROVE Left \subseteq Left'
  OBVIOUS
<1>1. raced \subseteq raced'
  BY DEF Next, Begin, Proceed, Connect, Disconnect, StartOperation, RequestMtu, Operate, Fetch, Keep, Return, Advertise,
     RunDue, OpenClient, CloseClient, ReadGatt, RunTimer, Retry, TryAgain, Rediscover, Fallback, GoOn, DisconnectUnused,
     DisconnectUsed, Accept, Refuse, Report, Up, Down, Complete, vars, plugin, history
<1> QED
  BY <1>1, CutGrows DEF Left

\* Nothing discovers services during an attempt: no client is open.
LEMMA NoneIsOpen ==
  ASSUME LinkInv, Attempt, NEW c \in Client
  PROVE  client[c] # "open"
<1>1. ASSUME client[c] = "open" PROVE FALSE
  <2>1. Live(c)
    BY <1>1 DEF Live
  <2>2. ASSUME NEW d \in Client, client[d] = "opening", owner[d].call \notin Left PROVE FALSE
    <3>1. Live(d)
      BY <2>2 DEF Live
    <3> QED
      BY <1>1, <2>1, <2>2, <3>1 DEF LinkInv, Alone
  <2> QED
    BY <2>1, <2>2 DEF LinkInv, Alone, NoLive, Attempt
<1> QED
  BY <1>1

\* An attempt goes on until there is a link; only a connect begins one.
LEMMA AttemptStep ==
  ASSUME TypeOK, TypeOK', LinkInv, [Next]_vars, \A t \in Caller, i \in CallId : ~Connect(t, i), Attempt'
  PROVE  Attempt
<1> USE DEF stack, plugin, main
<1>0. /\ StackOK /\ ClientsOK /\ MainOK /\ StackOK' /\ MainOK' /\ Left \subseteq Left'
  BY TypesAreAll, LeftGrows DEF AllOK
<1>1. ASSUME NEW n \in DOMAIN queue', OpenPost(n)', queue'[n].call \notin Left' PROVE Attempt
  <2>1. ASSUME NEW m \in DOMAIN queue, queue[m] = queue'[n] PROVE Attempt
    BY <1>0, <1>1, <2>1 DEF Attempt, OpenPost
  <2>2. ASSUME NEW p \in Task, p.kind # "open", queue' = Append(queue, p) PROVE Attempt
    <3>1. n \in DOMAIN queue /\ queue'[n] = queue[n]
      BY <1>0, <1>1, <2>2, Posted DEF OpenPost, MainOK
    <3> QED
      BY <2>1, <3>1
  <2>3. ASSUME NEW t \in Caller, NEW i \in CallId, NEW k \in Slot, Operate(t, k, i) PROVE Attempt
    <3> DEFINE c == IF k = "discover" THEN gatt[registered] ELSE 0
    <3>1. registered # 0 => registered \in Object /\ c \in 0 .. MaxClients /\ i \in 0 .. MaxCalls
      BY TypesAreAll, NumbersAndTasks DEF AllOK, PluginOK, ClientsOK
    <3>2. queue' = queue \/ (registered # 0 /\ queue' = Append(queue, Post(k, registered, c, i, 0)))
      BY <2>3 DEF Operate
    <3> HIDE DEF c
    <3>3. Post(k, registered, c, i, 0).kind # "open"
      BY DEF Post, Slot
    <3> QED
      BY <2>1, <2>2, <3>1, <3>2, <3>3, PostsAreTasks
  <2>4. ASSUME NEW p \in disconnecting, DisconnectUnused(p) PROVE Attempt
    <3>1. p.obj \in Object /\ p.call \in 0 .. MaxCalls /\ pending[p.obj] \in 0 .. MaxClients
      BY <1>0, TypesAreAll, NumbersAndTasks DEF AllOK, PluginOK, ClientsOK
    <3>2. queue' = queue \/ queue' = Append(queue, Post("cancel", p.obj, pending[p.obj], p.call, 0))
      BY <2>4 DEF DisconnectUnused
    <3>3. Post("cancel", p.obj, pending[p.obj], p.call, 0).kind # "open"
      BY DEF Post
    <3> QED
      BY <2>1, <2>2, <3>1, <3>2, <3>3, PostsAreTasks
  <2>5. ASSUME NEW p \in timers \cup disconnecting, NEW k \in {"close", "access"}, queue' = Append(queue, [p EXCEPT !.kind = k]) PROVE Attempt
    <3>1. p \in Task
      BY <1>0, TypesAreAll DEF AllOK, PluginOK, MainOK
    <3>2. [p EXCEPT !.kind = k] \in Task /\ [p EXCEPT !.kind = k].kind = k
      BY <3>1 DEF Task, Slot
    <3> QED
      BY <2>2, <2>5, <3>2
  <2>6. ASSUME NEW p \in timers, Retry(p) PROVE Attempt
    <3> DEFINE q == Post("open", p.obj, 0, p.call, 0)
    <3>1. q \in Task /\ q.call = p.call
      BY <1>0, NumbersAndTasks, PostsAreTasks DEF MainOK, Post
    <3>2. queue' = Append(queue, q)
      BY <2>6 DEF Retry
    <3> HIDE DEF q
    <3>3. queue'[n] = q \/ (n \in DOMAIN queue /\ queue'[n] = queue[n])
      BY <1>0, <3>1, <3>2, Posted DEF MainOK
    <3>4. CASE queue'[n] = q
      BY <1>0, <1>1, <2>6, <3>1, <3>4 DEF Attempt, RetryTimer, Retry
    <3> QED
      BY <2>1, <3>3, <3>4
  <2>7. ASSUME queue # <<>>, queue' = Tail(queue) PROVE Attempt
    <3>1. n + 1 \in DOMAIN queue /\ queue'[n] = queue[n + 1]
      BY <1>0, <2>7, Taken DEF MainOK
    <3> QED
      BY <2>1, <3>1
  <2>8. queue' = queue => Attempt
    BY <2>1 DEF OpenPost
  <2>9. \/ queue' = queue \/ (queue # <<>> /\ queue' = Tail(queue))
        \/ (\E t \in Caller, i \in CallId, k \in Slot : Operate(t, k, i))
        \/ (\E p \in disconnecting : DisconnectUnused(p) \/ DisconnectUsed(p)) \/ (\E p \in timers : Retry(p) \/ TryAgain(p))
    BY DEF Next, Begin, Proceed, Disconnect, StartOperation, RequestMtu, Fetch, Keep, Return, Advertise,
       RunDue, Due, OpenClient, CloseClient, ReadGatt, RunTimer, Rediscover, Fallback, GoOn, Accept, Refuse, Report, Up, Down,
       Complete, vars, Slot
  <2> QED
    BY <2>3, <2>4, <2>5, <2>6, <2>7, <2>8, <2>9 DEF DisconnectUsed, TryAgain
<1>2. ASSUME NEW p \in timers', RetryTimer(p)', p.call \notin Left' PROVE Attempt
  <2>1. CASE p \in timers
    BY <1>0, <1>2, <2>1 DEF Attempt, RetryTimer
  <2>2. ASSUME NEW c \in Client, NEW transient \in BOOLEAN, Down(c, transient), p \notin timers PROVE Attempt
    <3>1. PICK o \in Object : o = owner[c].obj
      BY <1>0 DEF StackOK
    <3>2. Connects(o) /\ p.call = onChange[o].call /\ Live(c)
      BY <1>2, <2>2, <3>1 DEF Down, AnotherAttempt, Post, Live
    <3>3. owner[c].call = p.call /\ p.call \notin Left
      BY <1>0, <1>2, <3>1, <3>2 DEF LinkInv, WaitsFit
    <3>4. client[c] = "opening"
      BY <3>1, <3>2, <3>3 DEF LinkInv, Settled, Live
    <3> QED
      BY <3>3, <3>4 DEF Attempt
  <2>3. ASSUME NEW q \in disconnecting, DisconnectUsed(q), p \notin timers PROVE FALSE
    <3>1. q \in Task
      BY TypesAreAll DEF AllOK, PluginOK
    <3>2. p = [q EXCEPT !.kind = "fallback"]
      BY <1>2, <2>3 DEF DisconnectUsed
    <3> QED
      BY <1>2, <3>1, <3>2 DEF Task, RetryTimer
  <2>4. ASSUME NEW s \in inStack, Complete(s), p \notin timers PROVE FALSE
    <3>1. (\E o, i, n : p = Post("again", o, 0, i, n)) \/ (\E o, c : p = Post("rediscover", o, c, 0, 0))
      BY <2>4, <1>2 DEF Complete, RetryTimer
    <3> QED
      BY <1>2, <3>1 DEF Post, RetryTimer
  <2>5. ASSUME Refuse, p \notin timers PROVE FALSE
    BY <1>2, <2>5 DEF Refuse, Post, RetryTimer
  <2>6. \/ timers' \subseteq timers \/ Refuse \/ (\E q \in disconnecting : DisconnectUsed(q))
        \/ (\E c \in Client, transient \in BOOLEAN : Down(c, transient)) \/ (\E s \in inStack : Complete(s))
    BY DEF Next, Begin, Proceed, Connect, Disconnect, StartOperation, RequestMtu, Operate, Fetch, Keep, Return, Advertise,
       RunDue, OpenClient, CloseClient, ReadGatt, RunTimer, Retry, TryAgain, Rediscover, Fallback, Elapsed, GoOn,
       DisconnectUnused, Accept, Report, Up, vars
  <2> QED
    BY <2>1, <2>2, <2>3, <2>4, <2>5, <2>6
<1>3. ASSUME NEW c \in Client, client'[c] = "opening", owner'[c].call \notin Left' PROVE Attempt
  <2>1. CASE client[c] = "opening"
    <3>1. owner'[c] = owner[c]
      BY <2>1, ClientsStayUsed
    <3> QED
      BY <1>0, <1>3, <2>1, <3>1 DEF Attempt
  <2>2. ASSUME queue # <<>>, OpenClient(Head(queue)), client[c] # "opening" PROVE Attempt
    <3>1. Head(queue).kind = "open" /\ owner'[c].call = Head(queue).call
      BY <1>0, <1>3, <2>2 DEF OpenClient, StackOK
    <3>2. 1 \in DOMAIN queue /\ queue[1] = Head(queue)
      BY <1>0, <2>2, Taken DEF MainOK
    <3> QED
      BY <1>0, <1>3, <3>1, <3>2 DEF Attempt, OpenPost
  <2>3. ASSUME \/ queue # <<>> /\ CloseClient(Head(queue))
               \/ \E p \in timers : Fallback(p)
               \/ \E d \in Client : Up(d) \/ \E transient \in BOOLEAN : Down(d, transient)
        PROVE  client[c] = "opening"
    <3>1. ASSUME queue # <<>>, CloseClient(Head(queue)) PROVE client[c] = "opening"
      BY <1>0, <1>3, <3>1 DEF CloseClient, StackOK
    <3>2. ASSUME NEW p \in timers, Fallback(p) PROVE client[c] = "opening"
      BY <1>0, <1>3, <3>2 DEF Fallback, StackOK
    <3>3. ASSUME NEW d \in Client, Up(d) \/ \E transient \in BOOLEAN : Down(d, transient) PROVE client[c] = "opening"
      BY <1>0, <1>3, <3>3 DEF Up, Down, StackOK
    <3> QED
      BY <2>3, <3>1, <3>2, <3>3
  <2>4. \/ client' = client
        \/ queue # <<>> /\ (OpenClient(Head(queue)) \/ CloseClient(Head(queue)))
        \/ \E p \in timers : Fallback(p)
        \/ \E d \in Client : Up(d) \/ \E transient \in BOOLEAN : Down(d, transient)
    BY DEF Next, Begin, Proceed, Connect, Disconnect, StartOperation, RequestMtu, Operate, Fetch, Keep, Return, Advertise,
       RunDue, ReadGatt, RunTimer, Retry, TryAgain, Rediscover, GoOn, DisconnectUnused, DisconnectUsed, Accept, Refuse,
       Report, Complete, vars
  <2> QED
    BY <1>3, <2>1, <2>2, <2>3, <2>4
<1> QED
  BY <1>1, <1>2, <1>3 DEF Attempt

\* A discovery succeeds only when the stack has read the services of an open client.
LEMMA DiscoverySucceeds ==
  ASSUME TypeOK, [Next]_vars, NEW j \in CallId, RecordedOnly(j, {"discover"}),
         answer[j] # "none", answer[j] # "ok", answer'[j] = "ok"
  PROVE  \E s \in inStack : Complete(s) /\ services' = [services EXCEPT ![owner[s.client].obj] = s.client]
<1>0. PluginOK /\ MainOK /\ StackOK /\ AnswersOK
  BY TypesAreAll DEF AllOK
<1>1. ASSUME NEW good, NEW bad, Answer(good, bad) PROVE j \in good
  BY <1>1 DEF Answer
<1>2. ASSUME NEW p \in timers \cup disconnecting, NEW bad, Answer({p.call}, bad) PROVE FALSE
  BY <1>1, <1>2 DEF RecordedOnly
<1>3. ASSUME NEW c \in Client, Up(c) \/ \E transient \in BOOLEAN : Down(c, transient) PROVE FALSE
  <2>1. PICK o \in Object : o = owner[c].obj
    BY <1>0 DEF StackOK
  <2>2. \/ answer' = answer
        \/ \E bad : Answer({}, bad)
        \/ onChange[o] # None /\ \E bad : Answer({onChange[o].call}, bad)
    BY <1>3, <2>1 DEF Up, Down
  <2> QED
    BY <1>1, <2>2 DEF RecordedOnly
<1>4. ASSUME NEW s \in inStack, Complete(s)
      PROVE  services' = [services EXCEPT ![owner[s.client].obj] = s.client]
  <2>1. PICK o \in Object : o = owner[s.client].obj
    BY <1>0 DEF StackOK
  <2>2. \A bad : ~Answer({}, bad)
    BY <1>1
  <2>3. /\ Answer({slot[o][s.kind]}, {})
        /\ services' = IF s.kind = "discover" THEN [services EXCEPT ![o] = s.client] ELSE services
    BY <1>4, <2>1, <2>2 DEF Complete
  <2>4. j = slot[o][s.kind] /\ s.kind \in Slot
    BY <1>0, <1>1, <2>3 DEF StackOK
  <2>5. s.kind = "discover"
    BY <2>4 DEF RecordedOnly
  <2> QED
    BY <2>1, <2>3, <2>5
<1>5. ASSUME NEW t \in Caller, NEW i \in CallId, Connect(t, i) \/ Disconnect(t, i) \/ \E k \in Slot : Operate(t, k, i) PROVE FALSE
  BY <1>5, CallsAreNew
<1>6. \/ answer' = answer
      \/ \E bad : Answer({}, bad)
      \/ \E p \in timers \cup disconnecting : \E bad : Answer({p.call}, bad)
      \/ (\E c \in Client : Up(c) \/ \E transient \in BOOLEAN : Down(c, transient)) \/ (\E s \in inStack : Complete(s))
      \/ \E t \in Caller, i \in CallId : Connect(t, i) \/ Disconnect(t, i) \/ \E k \in Slot : Operate(t, k, i)
  BY DEF Next, Begin, Proceed, StartOperation, RequestMtu, Fetch, Keep, Return, Advertise, RunDue,
     OpenClient, CloseClient, ReadGatt, RunTimer, Retry, TryAgain, Rediscover, Fallback, GoOn, DisconnectUnused, DisconnectUsed,
     Accept, Refuse, Report, vars, Slot
<1> QED
  BY <1>1, <1>2, <1>3, <1>4, <1>5, <1>6

\* What becomes of the Peripheral of the address, of the client it uses and of the
\* services it read, unless a task connects.
LEMMA RegisteredStep ==
  ASSUME TypeOK, TypeOK', NamesFit, [Next]_vars, \A t \in Caller, i \in CallId : ~Connect(t, i), FreeLink'
  PROVE  /\ registered' = registered /\ registered \in Object
         /\ \/ \E c \in Client : Up(c) /\ owner[c].obj = registered /\ gatt'[registered] = c /\ owner' = owner
            \/ FreeLink /\ gatt'[registered] = gatt[registered]
<1> USE DEF stack, peripheral, plugin
<1>0. ClientsOK /\ PluginOK /\ StackOK /\ MainOK /\ Left \subseteq Left'
  BY TypesAreAll, LeftGrows DEF AllOK
<1>1. registered' \in {registered, 0}
  BY DEF Next, Begin, Proceed, Disconnect, StartOperation, RequestMtu, Operate, Fetch, Keep, Return, Advertise,
     RunDue, OpenClient, CloseClient, ReadGatt, RunTimer, Retry, TryAgain, Rediscover, Fallback, GoOn, DisconnectUnused,
     DisconnectUsed, Accept, Refuse, Report, Up, Down, Complete, Forget, vars
<1>2. registered' = registered /\ registered \in Object /\ registered # 0
  BY <1>0, <1>1, NumbersAndTasks DEF FreeLink, PluginOK
<1>3. PICK o \in Object : o = registered
  BY <1>2
<1>4. ASSUME NEW c \in Client, Up(c), owner[c].obj = o PROVE gatt'[o] = c /\ owner' = owner
  BY <1>0, <1>4 DEF Up, ClientsOK
<1>5. ASSUME \A c \in Client : Up(c) => o # owner[c].obj PROVE gatt'[o] \in {0, gatt[o]}
  <2>1. ASSUME NEW c \in Client, Up(c) \/ \E transient \in BOOLEAN : Down(c, transient) PROVE gatt'[o] \in {0, gatt[o]}
    BY <1>0, <1>5, <2>1 DEF Up, Down, ClientsOK
  <2>2. ASSUME NEW p \in timers, Fallback(p) PROVE gatt'[o] \in {0, gatt[o]}
    BY <1>0, <2>2 DEF Fallback, ClientsOK
  <2>3. \/ gatt' = gatt \/ (\E p \in timers : Fallback(p)) \/ \E c \in Client : Up(c) \/ \E transient \in BOOLEAN : Down(c, transient)
    BY DEF Next, Begin, Proceed, Connect, Disconnect, StartOperation, RequestMtu, Operate, Fetch, Keep, Return, Advertise,
       RunDue, OpenClient, CloseClient, ReadGatt, RunTimer, Retry, TryAgain, Rediscover, GoOn, DisconnectUnused, DisconnectUsed,
       Accept, Refuse, Report, Complete, vars
  <2> QED
    BY <2>1, <2>2, <2>3
<1>6. ASSUME gatt'[o] = gatt[o] PROVE FreeLink
  <2>1. gatt[o] # 0 /\ owner'[gatt[o]].call \notin Left'
    BY <1>2, <1>3, <1>6 DEF FreeLink
  <2>2. gatt[o] \in Client /\ client[gatt[o]] # "unused"
    BY <1>0, <2>1 DEF ClientsOK, Client, NamesFit, OpenedFor
  <2>3. owner'[gatt[o]] = owner[gatt[o]]
    BY <2>2, ClientsStayUsed
  <2> QED
    BY <1>0, <1>2, <1>3, <2>1, <2>3 DEF FreeLink
<1>7. gatt'[o] # 0
  BY <1>2, <1>3 DEF FreeLink
<1> QED
  BY <1>2, <1>3, <1>4, <1>5, <1>6, <1>7

\* The only open client is that of the link that is up and free.
LEMMA FreeIsOpen ==
  ASSUME TypeOK, LinkInv, OpenInv, FreeLink, NEW c \in Client, Live(c)
  PROVE  c = gatt[registered] /\ owner[c].obj = registered
<1>0. registered \in Object /\ ClientsOK
  BY TypesAreAll, NumbersAndTasks DEF AllOK, PluginOK, FreeLink
<1>1. PICK d \in Client : d = gatt[registered]
  BY <1>0 DEF FreeLink, ClientsOK, Client
<1>2. Live(d) /\ owner[d].obj = registered /\ owner[d].call \notin Left
  BY <1>0, <1>1 DEF FreeLink, OpenInv, UsedAreOpen, NamesFit, OpenedFor, Left
<1> QED
  BY <1>1, <1>2 DEF LinkInv, Alone

\* What the services need is inductive.
LEMMA ServicesStep ==
  TypeOK /\ LocalsFit /\ LinkInv /\ OpenInv /\ ServicesInv /\ [Next]_vars => ServicesInv'
<1> SUFFICES ASSUME TypeOK, LocalsFit, LinkInv, OpenInv, ServicesInv, [Next]_vars PROVE ServicesInv'
  OBVIOUS
<1>0. /\ TypeOK' /\ CallersOK /\ CallersOK' /\ StackOK /\ OperationsOK /\ ClientsOK /\ Connector \subseteq Caller
      /\ Fresh /\ OfDiscover /\ Discoverers /\ NamesFit
  BY TypeStep, TypesAreAll DEF AllOK, Caller, ServicesInv, OpenInv
<1>1. Fresh' /\ OfDiscover' /\ Discoverers'
  BY <1>0, RecordsStep
<1>2. ASSUME NEW t \in Caller, NEW i \in CallId, Connect(t, i) PROVE NothingRead' /\ ServicesFit'
  <2>1. t \in Connector /\ pc'[t] = "connect" /\ cache' = 0
    BY <1>0, <1>2 DEF Connect, NewCall, ForgetServices, CallersOK
  <2>2. \A u \in Connector : u = t
    BY <2>1, LockAssumption
  <2> QED
    BY <2>1, <2>2 DEF NothingRead, ServicesFit, OfThisLink
<1>3. ASSUME \A t \in Caller, i \in CallId : ~Connect(t, i)
      PROVE  (Attempt' => NothingRead') /\ ServicesFit'
  \* What a connector discovers, fetches and keeps.
  <2>1. ASSUME NEW t \in Connector, pc'[t] = "discover", answer'[doing'[t]] = "ok"
        PROVE  /\ pc[t] = "discover"
               /\ \/ answer[doing[t]] = "ok"
                  \/ \E s \in inStack : Complete(s) /\ services' = [services EXCEPT ![owner[s.client].obj] = s.client]
    <3>1. ~\E i \in CallId : Operate(t, "discover", i) /\ doing'[t] = i
      BY <1>0, <1>3, <2>1, CallsAreNew DEF Slot
    <3>2. Fetch(t) => pc'[t] # "discover"
      BY <1>0 DEF Fetch, CallersOK
    <3>3. pc[t] = "discover" /\ doing'[t] = doing[t]
      BY <1>0, <2>1, <3>1, <3>2, CallersMove
    <3>4. PICK j \in CallId : j = doing[t] /\ answer[j] # "none" /\ RecordedOnly(j, {"discover"})
      BY <1>0, <3>3 DEF OfDiscover
    <3> QED
      BY <2>1, <3>3, <3>4, DiscoverySucceeds
  <2>2. ASSUME NEW t \in Connector, pc'[t] = "fetched"
        PROVE  \/ pc[t] = "fetched" /\ doing'[t] = doing[t]
               \/ pc[t] = "discover" /\ answer[doing[t]] = "ok" /\ registered # 0 /\ doing'[t] = services[registered]
    <3>1. Fetch(t) => pc[t] = "discover" /\ answer[doing[t]] = "ok" /\ registered # 0 /\ doing'[t] = services[registered]
      BY <1>0, <2>2 DEF Fetch, CallersOK
    <3> QED
      BY <1>0, <2>2, <3>1, CallersMove
  <2>3. cache' \in {cache, 0} \/ \E t \in Connector : pc[t] = "fetched" /\ cache' = doing[t]
    <3>1. ASSUME NEW t \in Caller, Keep(t) PROVE t \in Connector /\ pc[t] = "fetched" /\ cache' = doing[t]
      BY <1>0, <3>1 DEF Keep, Discoverers
    <3>2. cache' \in {cache, 0} \/ \E t \in Caller : Keep(t)
      BY <1>3 DEF Next, Begin, Proceed, Disconnect, StartOperation, RequestMtu, Operate, Fetch, Return, Advertise,
         RunDue, OpenClient, CloseClient, ReadGatt, RunTimer, Retry, TryAgain, Rediscover, Fallback, GoOn, DisconnectUnused,
         DisconnectUsed, Accept, Refuse, Report, Up, Down, Complete, ForgetServices, vars, callers
    <3> QED
      BY <3>1, <3>2
  <2>4. ASSUME NEW s \in inStack, Complete(s) PROVE s.client \in Client /\ client[s.client] = "open"
    BY <1>0, <2>4 DEF Complete, StackOK
  <2>5. ASSUME Attempt PROVE NothingRead'
    <3>1. NothingRead /\ \A s \in inStack : ~Complete(s)
      BY <2>4, <2>5, NoneIsOpen DEF ServicesInv
    <3>2. cache' = 0
      BY <2>3, <3>1 DEF NothingRead
    <3>3. ASSUME NEW t \in Connector PROVE (pc'[t] = "fetched" => doing'[t] = 0) /\ (pc'[t] = "discover" => answer'[doing'[t]] # "ok")
      BY <2>1, <2>2, <3>1 DEF NothingRead
    <3> QED
      BY <3>2, <3>3 DEF NothingRead
  <2>6. Attempt' => NothingRead'
    BY <1>0, <1>3, <2>5, AttemptStep
  <2>7. ASSUME FreeLink' PROVE ServicesFit'
    <3>0. registered' = registered /\ registered \in Object /\ Left \subseteq Left'
      BY <1>0, <1>3, <2>7, RegisteredStep, LeftGrows
    <3>1. ASSUME NEW c \in Client, Up(c), gatt'[registered] = c, owner' = owner PROVE ServicesFit'
      <4>1. client[c] = "opening" /\ owner[c].call \notin Left
        BY <2>7, <3>0, <3>1 DEF Up, FreeLink
      <4>2. NothingRead'
        BY <2>5, <4>1 DEF Attempt
      <4> QED
        BY <4>2 DEF NothingRead, ServicesFit, OfThisLink
    <3>2. ASSUME FreeLink, gatt'[registered] = gatt[registered] PROVE ServicesFit'
      <4> DEFINE g == gatt[registered]
      <4>1. /\ cache \in {0, g}
            /\ \A t \in Connector : /\ pc[t] = "fetched" => doing[t] \in {0, g}
                                    /\ pc[t] = "discover" /\ answer[doing[t]] = "ok" => services[registered] \in {0, g}
        BY <3>2 DEF ServicesInv, ServicesFit, OfThisLink
      <4>2. gatt'[registered'] = g
        BY <3>0, <3>2
      <4> HIDE DEF g
      <4>3. cache' \in {0, g}
        BY <2>3, <4>1
      <4>4. ASSUME NEW s \in inStack, Complete(s)
            PROVE  /\ services'[registered] \in {services[registered], 0, g}
                   /\ services' = [services EXCEPT ![owner[s.client].obj] = s.client] => services'[registered] = g
        <5>1. s.client = g /\ owner[s.client].obj = registered
          <6>1. Live(s.client) /\ s.client \in Client
            BY <2>4, <4>4 DEF Live
          <6> QED
            BY <3>2, <6>1, FreeIsOpen DEF g
        <5>2. \/ services' = services \/ services' = [services EXCEPT ![registered] = 0]
              \/ services' = [services EXCEPT ![registered] = s.client]
          BY <4>4, <5>1 DEF Complete
        <5> QED
          BY <1>0, <3>0, <5>1, <5>2 DEF OperationsOK
      <4>5. services'[registered] \in {services[registered], 0, g}
        <5>1. services' = services \/ \E s \in inStack : Complete(s)
          BY DEF Next, Begin, Proceed, Connect, Disconnect, StartOperation, RequestMtu, Operate, Fetch, Keep, Return, Advertise,
             RunDue, OpenClient, CloseClient, ReadGatt, RunTimer, Retry, TryAgain, Rediscover, Fallback, GoOn, DisconnectUnused,
             DisconnectUsed, Accept, Refuse, Report, Up, Down, vars, peripheral
        <5> QED
          BY <4>4, <5>1
      <4>6. ASSUME NEW t \in Connector
            PROVE  /\ pc'[t] = "fetched" => doing'[t] \in {0, g}
                   /\ pc'[t] = "discover" /\ answer'[doing'[t]] = "ok" => services'[registered'] \in {0, g}
        BY <2>1, <2>2, <3>0, <4>1, <4>4, <4>5
      <4> QED
        BY <4>2, <4>3, <4>6 DEF ServicesFit, OfThisLink
    <3> QED
      BY <1>0, <1>3, <2>7, <3>0, <3>1, <3>2, RegisteredStep
  <2> QED
    BY <2>6, <2>7 DEF ServicesFit
<1> QED
  BY <1>1, <1>2, <1>3 DEF ServicesInv

\* Nobody has called at first.
LEMMA InitServices == Init => ServicesInv
<1> SUFFICES ASSUME Init PROVE ServicesInv
  OBVIOUS
<1>1. /\ DOMAIN queue = {} /\ timers = {} /\ disconnecting = {} /\ looper = None /\ registered = 0
      /\ \A o \in Object : onChange[o] = None /\ \A k \in Slot : slot[o][k] = 0
      /\ \A c \in Client : client[c] = "unused"
      /\ \A t \in Caller : pc[t] = "idle"
  BY DEF Init, NoCalls
<1>2. Fresh
  BY <1>1 DEF Fresh, RecordedOnly, CallId
<1>3. ~Attempt /\ ~FreeLink
  BY <1>1 DEF Attempt, FreeLink
<1> QED
  BY <1>1, <1>2, <1>3 DEF ServicesInv, OfDiscover, Discoverers, ServicesFit

-----------------------------------------------------------------------------
(* Theorems                                                                *)

\* Every state of the Peripherals, the plugin, the main looper, the stack and the
\* callers is one of those declared: a call, a client and a Peripheral that something
\* names is one there is.
THEOREM AndroidTypeCorrect == Spec => []TypeOK
<1>1. TypeOK /\ LocalsFit /\ [Next]_vars => TypeOK' /\ LocalsFit'
  BY TypeStep, LocalsStep
<1> QED
  BY <1>1, InitTypes, PTL DEF Spec

\* No link is out of reach, for any number of clients, calls, attempts and users, and
\* however many disconnects run at a time or give up: whatever BlecPlugin.kt and
\* Peripheral.kt do, in whatever order the main looper and the stack run, a disconnect
\* finds the client that holds the link, or it is about to be closed, or its connect is
\* one that a disconnect left under way or that another connect overlapped.
THEOREM ReachCorrect == Spec => []NoClientOutOfReach
<1> DEFINE I == TypeOK /\ LocalsFit /\ LinkInv
<1>1. Init => I
  BY InitTypes, InitLinks
<1>2. I /\ [Next]_vars => I'
  BY TypeStep, LocalsStep, LinkStep
<1>3. I => NoClientOutOfReach
  <2> SUFFICES ASSUME I, NEW c \in Client, Live(c), owner[c].call \notin Left PROVE InReach(c)
    BY DEF NoClientOutOfReach, Left
  <2>1. registered = owner[c].obj /\ c = IF client[c] = "opening" THEN pending[registered] ELSE gatt[registered]
    BY DEF LinkInv, Known
  <2>2. registered # 0
    BY <2>1, TypesAreAll, NumbersAndTasks DEF AllOK, StackOK
  <2> QED
    BY <2>1, <2>2 DEF InReach
<1> QED
  BY <1>1, <1>2, <1>3, PTL DEF Spec

\* isConnected of Peripheral.kt is right: a Peripheral that says it is connected uses a
\* client that is neither closed nor lost, unless that client's connect is one that a
\* disconnect left under way.
THEOREM ConnectedCorrect == Spec => []ConnectedIsOpen
<1> DEFINE I == TypeOK /\ LocalsFit /\ OpenInv
<1>1. Init => I
  BY InitTypes, InitOpen
<1>2. I /\ [Next]_vars => I'
  BY TypeStep, LocalsStep, OpenStep
<1>3. I => ConnectedIsOpen
  BY DEF OpenInv, UsedAreOpen, ConnectedIsOpen
<1> QED
  BY <1>1, <1>2, <1>3, PTL DEF Spec

\* The services that are cached are those of the link that is up: whatever becomes of a
\* discovery, of the link it began on and of the disconnect that passes it,
\* discover_services never keeps what an earlier link left in a Peripheral, unless the
\* link that is up came from a connect that a disconnect or another connect met.
THEOREM ServicesCorrect == Spec => []ServicesAreOfThisLink
<1> DEFINE I == TypeOK /\ LocalsFit /\ LinkInv /\ OpenInv /\ ServicesInv
<1>1. Init => I
  BY InitTypes, InitLinks, InitOpen, InitServices
<1>2. I /\ [Next]_vars => I'
  BY TypeStep, LocalsStep, LinkStep, OpenStep, ServicesStep
<1>3. I => ServicesAreOfThisLink
  BY DEF ServicesInv, ServicesFit, OfThisLink, FreeLink, ServicesAreOfThisLink, Left
<1> QED
  BY <1>1, <1>2, <1>3, PTL DEF Spec

=============================================================================
