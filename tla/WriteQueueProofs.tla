-------------------------- MODULE WriteQueueProofs --------------------------
(***************************************************************************)
(* Proofs about WriteQueue, for any number of writes, attempts and losses  *)
(* of the link, any answers of the stack, and callers that may cancel.     *)
(***************************************************************************)
EXTENDS WriteQueue, WellFoundedInduction, SequenceTheorems, TLAPS

-----------------------------------------------------------------------------
(* The inductive invariant.                                                *)

\* A queue whose numbers rise.
Rising(q) == \A i, j \in DOMAIN q : i < j => q[i] < q[j]

\* The looper sends the active write, unless a binder thread has failed all writes
\* under it; that write has then been answered.
LoopFits ==
  /\ current # NoWrite <=> main = "send"
  /\ main = "send" => active \in {current, NoWrite}
  /\ main = "send" /\ active = NoWrite => outcome[current] # "none"

\* Nothing has happened to a write that has not been appended, and the write that the
\* stack is busy with has been sent.
Numbered ==
  /\ active <= count /\ current <= count /\ stack <= count
  /\ \A w \in Write : w > count =>
       outcome[w] = "none" /\ sends[w] = 0 /\ ~ op[w].sent /\ op[w].attempt = 0
  /\ stack # NoWrite => sends[stack] > 0

\* The queue is in the order of the calls.  Its writes come after the one that is
\* active, sent or with the stack, and were never sent.
InLine ==
  /\ Rising(queue)
  /\ \A v \in Range(queue) :
       /\ v <= count /\ active < v /\ current < v /\ stack < v
       /\ sends[v] = 0 /\ ~ op[v].sent

\* A write that can still be sent has attempts left to count.
AttemptsBounded ==
  \A w \in (Waiting \cup {current}) \ {NoWrite} : op[w].attempt <= MaxAttempts

\* A call that found nothing to do leaves no queue behind that nobody looks at.
SomeoneLooks ==
  main = "decide" /\ active = NoWrite /\ queue # <<>> => wakeups > 0 \/ starting # {}

\* The parts together, with the properties that they carry.
Inv ==
  /\ TypeOK /\ LoopFits /\ Numbered /\ InLine /\ AttemptsBounded /\ SomeoneLooks
  /\ NoStalledQueue /\ SentWriteIsAnswered /\ InOrder

-----------------------------------------------------------------------------
\* A set of numbers that is not empty has a least one.
LEMMA Least ==
  ASSUME NEW T, T \subseteq Nat, T # {}
  PROVE \E n \in T : \A m \in T : n <= m
<1>1. PICK x \in T : \A y \in T : ~(<<y, x>> \in OpToRel(<, Nat))
  BY NatLessThanWellFounded, WFMin
<1>2. \A y \in T : ~(y < x)
  BY <1>1 DEF OpToRel
<1> QED
  BY <1>2

\* What the first n writes of q leave, given what fewer of them leave.
Keep(q, f, n) ==
  IF n = 0 THEN <<>> ELSE IF q[n] \in expired THEN f[n - 1] ELSE Append(f[n - 1], q[n])

\* The recursion of Live has a solution.
LEMMA KeepExists ==
  ASSUME NEW q, NEW len \in Nat
  PROVE  \E f : f = [n \in 0 .. len |-> Keep(q, f, n)]
<1> DEFINE bad == {k \in Nat : ~ \E f : f = [n \in 0 .. k |-> Keep(q, f, n)]}
<1>1. SUFFICES ASSUME bad # {} PROVE FALSE
  OBVIOUS
<1>2. PICK k \in bad : \A m \in bad : k <= m
  BY <1>1, Least
<1>3. CASE k = 0
  <2> DEFINE f == [n \in 0 .. 0 |-> <<>>]
  <2>1. f = [n \in 0 .. 0 |-> Keep(q, f, n)]
    BY DEF Keep
  <2> QED
    BY <1>2, <1>3, <2>1
<1>4. CASE k # 0
  <2>1. k - 1 \in Nat /\ k - 1 \notin bad
    BY <1>2, <1>4
  <2>2. PICK f : f = [n \in 0 .. (k - 1) |-> Keep(q, f, n)]
    BY <2>1
  <2> DEFINE g == [n \in 0 .. k |-> Keep(q, f, n)]
  <2>3. \A n \in 0 .. (k - 1) : g[n] = f[n]
    BY <2>1, <2>2
  <2>4. \A n \in 0 .. k : Keep(q, g, n) = Keep(q, f, n)
    <3> HIDE DEF g
    <3> QED
    BY <1>2, <2>3 DEF Keep
  <2>5. g = [n \in 0 .. k |-> Keep(q, g, n)]
    BY <2>4
  <2> QED
    BY <1>2, <2>5
<1> QED
  BY <1>3, <1>4

\* What is left of a queue: its writes that have not expired, in their order.
LEMMA LiveIs ==
  ASSUME NEW q \in Seq(Write)
  PROVE  \E f : f = [n \in 0 .. Len(q) |-> Keep(q, f, n)] /\ Live(q) = f[Len(q)]
<1>1. PICK f : f = CHOOSE g : g = [n \in 0 .. Len(q) |-> Keep(q, g, n)]
  OBVIOUS
<1>2. Live(q) = f[Len(q)]
  BY <1>1 DEF Live, Keep
<1>3. Len(q) \in Nat
  OBVIOUS
<1>4. f = [n \in 0 .. Len(q) |-> Keep(q, f, n)]
  BY <1>1, <1>3, KeepExists
<1> QED
  BY <1>2, <1>4

\* An appended element is all that joins the range.
LEMMA RangeOfAppend ==
  ASSUME NEW S, NEW s \in Seq(S), NEW e \in S
  PROVE  Range(Append(s, e)) = Range(s) \cup {e}
<1>1. DOMAIN s = 1 .. Len(s) /\ DOMAIN Append(s, e) = 1 .. (Len(s) + 1) /\ Len(s) \in Nat
  OBVIOUS
<1>2. (\A i \in 1 .. Len(s) : Append(s, e)[i] = s[i]) /\ Append(s, e)[Len(s) + 1] = e
  OBVIOUS
<1>3. \A x \in Range(s) : x \in Range(Append(s, e))
  BY <1>1, <1>2 DEF Range
<1>4. e \in Range(Append(s, e))
  BY <1>1, <1>2 DEF Range
<1>5. \A i \in DOMAIN Append(s, e) : Append(s, e)[i] \in Range(s) \cup {e}
  BY <1>1, <1>2 DEF Range
<1> QED
  BY <1>3, <1>4, <1>5 DEF Range

\* Dropping what has expired keeps the order and everything else.
LEMMA LiveFacts ==
  ASSUME NEW q \in Seq(Write), Rising(q)
  PROVE  /\ Live(q) \in Seq(Write) /\ Rising(Live(q))
         /\ Range(Live(q)) = Range(q) \ expired
<1> Write \subseteq Int
  BY DEF Write
<1>1. PICK f : f = [n \in 0 .. Len(q) |-> Keep(q, f, n)] /\ Live(q) = f[Len(q)]
  BY LiveIs
<1>2. f[0] = <<>> /\ \A n \in 1 .. Len(q) :
        f[n] = IF q[n] \in expired THEN f[n - 1] ELSE Append(f[n - 1], q[n])
  <2>1. \A n \in 0 .. Len(q) : f[n] = Keep(q, f, n)
    BY <1>1
  <2> QED
    BY <2>1 DEF Keep
<1> DEFINE Good(n) == /\ f[n] \in Seq(Write) /\ Rising(f[n])
                      /\ Range(f[n]) = {q[i] : i \in 1 .. n} \ expired
           bad == {n \in 0 .. Len(q) : ~ Good(n)}
<1>3. Good(0)
  BY <1>2 DEF Rising, Range
<1>4. ASSUME NEW n \in 1 .. Len(q), Good(n - 1) PROVE Good(n)
  <2> DEFINE s == f[n - 1]
  <2> HIDE DEF s
  <2>0. s \in Seq(Write) /\ Rising(s) /\ Range(s) = {q[i] : i \in 1 .. (n - 1)} \ expired
    BY <1>4 DEF s
  <2>1. q[n] \in Write
    OBVIOUS
  <2>2. CASE q[n] \in expired
    BY <1>2, <1>4, <2>2
  <2>3. CASE q[n] \notin expired
    <3>1. f[n] = Append(s, q[n])
      BY <1>2, <2>3 DEF s
    <3>2. \A i \in DOMAIN s : s[i] < q[n]
      BY <2>0 DEF Rising, Range
    <3>3. Append(s, q[n]) \in Seq(Write) /\ Rising(Append(s, q[n]))
      BY <2>0, <2>1, <3>2 DEF Rising
    <3>4. Range(Append(s, q[n])) = Range(s) \cup {q[n]}
      BY <2>0, <2>1, RangeOfAppend
    <3>5. Range(Append(s, q[n])) = {q[i] : i \in 1 .. n} \ expired
      BY <2>0, <2>3, <3>4
    <3> QED
      BY <3>1, <3>3, <3>5
  <2> QED
    BY <2>2, <2>3
<1>5. bad = {}
  <2>1. SUFFICES ASSUME bad # {} PROVE FALSE
    OBVIOUS
  <2>2. PICK n \in bad : \A m \in bad : n <= m
    <3> HIDE DEF Good
    <3>1. bad \subseteq Nat
      OBVIOUS
    <3> HIDE DEF bad
    <3> QED
      BY <3>1, <2>1, Least
  <2> HIDE DEF Good
  <2>3. n # 0 /\ n - 1 \in 0 .. Len(q) /\ n - 1 \notin bad
    BY <2>2, <1>3
  <2> QED
    BY <2>2, <2>3, <1>4
<1>6. Good(Len(q))
  BY <1>5
<1>7. Range(q) = {q[i] : i \in 1 .. Len(q)}
  BY DEF Range
<1> QED
  BY <1>1, <1>6, <1>7

\* What waits has been appended.
LEMMA WaitingFits ==
  ASSUME TypeOK, Numbered, InLine
  PROVE  /\ Range(queue) \subseteq Write /\ Waiting = Range(queue) \cup ({active} \ {NoWrite})
         /\ \A w \in Waiting : w \in Write /\ w <= count
         /\ active # NoWrite => active \in Write
         /\ current # NoWrite => current \in Write
         /\ stack # NoWrite => stack \in Write
<1>1. Range(queue) \subseteq Write
  BY DEF TypeOK, Range
<1> QED
  BY <1>1 DEF TypeOK, Numbered, InLine, Waiting

\* A call of writeCharacteristic appends the write with the next number.
LEMMA EnqueueQueue ==
  ASSUME TypeOK, Numbered, InLine, NEW c \in Char, NEW kind \in Kinds, Enqueue(c, kind)
  PROVE  /\ queue' \in Seq(Write) /\ Rising(queue') /\ queue' # <<>>
         /\ Range(queue') = Range(queue) \cup {count + 1} /\ count + 1 \in Write
<1>1. count + 1 \in Write /\ queue \in Seq(Write) /\ queue' = Append(queue, count + 1)
  BY BoundsAssumption DEF Enqueue, TypeOK, Write
<1>2. \A i \in DOMAIN queue : queue[i] <= count
  BY DEF InLine, Range
<1>3. count \in Int /\ Write \subseteq Int
  BY BoundsAssumption DEF TypeOK, Write
<1>4. Rising(Append(queue, count + 1))
  <2>1. Rising(queue) /\ DOMAIN queue = 1 .. Len(queue) /\ Len(queue) \in Nat
    BY <1>1 DEF InLine
  <2>2. /\ DOMAIN Append(queue, count + 1) = 1 .. (Len(queue) + 1)
        /\ \A i \in 1 .. Len(queue) : Append(queue, count + 1)[i] = queue[i]
        /\ Append(queue, count + 1)[Len(queue) + 1] = count + 1
    BY <1>1
  <2>3. \A i \in 1 .. Len(queue) : queue[i] < count + 1
    <3>1. \A i \in 1 .. Len(queue) : queue[i] \in Write
      BY <1>1
    <3>2. \A i \in 1 .. Len(queue) : queue[i] \in Int /\ queue[i] <= count
      BY <1>2, <1>3, <2>1, <3>1
    <3> QED
      BY <1>3, <3>2
  <2> QED
    BY <2>1, <2>2, <2>3 DEF Rising
<1>5. Append(queue, count + 1) \in Seq(Write) /\ Append(queue, count + 1) # <<>>
  BY <1>1
<1> QED
  BY <1>1, <1>4, <1>5, RangeOfAppend

\* The first write of a rising queue is the oldest.
LEMMA HeadAndTail ==
  ASSUME NEW q \in Seq(Write), Rising(q), q # <<>>
  PROVE  /\ Head(q) \in Range(q) /\ Tail(q) \in Seq(Write) /\ Rising(Tail(q))
         /\ Range(Tail(q)) = Range(q) \ {Head(q)}
         /\ \A v \in Range(Tail(q)) : Head(q) < v
<1>1. Write \subseteq Int
  BY DEF Write
<1>2. Len(q) \in Nat \ {0} /\ DOMAIN q = 1 .. Len(q) /\ \A i \in 1 .. Len(q) : q[i] \in Write
  OBVIOUS
<1>3. /\ Head(q) = q[1] /\ Tail(q) \in Seq(Write) /\ DOMAIN Tail(q) = 1 .. (Len(q) - 1)
      /\ \A i \in 1 .. (Len(q) - 1) : Tail(q)[i] = q[i + 1]
  OBVIOUS
<1>a. \A i \in 1 .. (Len(q) - 1) : i + 1 \in 1 .. Len(q) /\ 1 < i + 1
  BY <1>2
<1>4. Rising(Tail(q))
  BY <1>1, <1>2, <1>3, <1>a DEF Rising
<1>5. \A v \in Range(Tail(q)) : v \in Range(q) /\ Head(q) < v
  <2>1. \A i \in 1 .. (Len(q) - 1) : Tail(q)[i] \in Range(q) /\ Head(q) < Tail(q)[i]
    BY <1>2, <1>3, <1>a DEF Rising, Range
  <2> QED
    BY <1>3, <2>1 DEF Range
<1>6. \A i \in 1 .. Len(q) : q[i] # Head(q) =>
        i - 1 \in 1 .. (Len(q) - 1) /\ Tail(q)[i - 1] = q[i]
  BY <1>2, <1>3
<1>7. Range(q) \ {Head(q)} \subseteq Range(Tail(q))
  <2>1. ASSUME NEW v \in Range(q), v # Head(q) PROVE v \in Range(Tail(q))
    <3>1. PICK i \in 1 .. Len(q) : q[i] = v
      BY <1>2 DEF Range
    <3>2. i - 1 \in DOMAIN Tail(q) /\ Tail(q)[i - 1] = v
      BY <1>3, <1>6, <2>1, <3>1
    <3> QED
      BY <3>2 DEF Range
  <2> QED
    BY <2>1
<1>8. Head(q) \in Range(q) /\ Head(q) \in Int
  <2>1. 1 \in DOMAIN q
    BY <1>2
  <2> QED
    BY <1>1, <1>2, <1>3, <2>1 DEF Range
<1>9. Head(q) \notin Range(Tail(q))
  BY <1>5, <1>8
<1> QED
  BY <1>3, <1>4, <1>5, <1>7, <1>8, <1>9

\* The looper keeps an active write, finds none, or takes one that has not expired and
\* drops those before it that have.
LEMMA PickQueue ==
  ASSUME TypeOK, InLine, Pick
  PROVE  /\ queue' \in Seq(Write) /\ Rising(queue')
         /\ active' \in Write \cup {NoWrite}
         /\ \/ active # NoWrite /\ UNCHANGED <<queue, active>>
            \/ active = NoWrite /\ active' = NoWrite /\ queue' = <<>> /\ Range(queue') = {}
               /\ Range(queue) \subseteq expired
            \/ /\ active = NoWrite /\ active' \in Range(queue) \ expired
               /\ Range(queue') = (Range(queue) \ expired) \ {active'}
               /\ \A v \in Range(queue') : active' < v
<1>1. queue \in Seq(Write) /\ Rising(queue) /\ active \in Write \cup {NoWrite}
  BY DEF TypeOK, InLine
<1>2. CASE active # NoWrite
  BY <1>1, <1>2 DEF Pick
<1>3. CASE active = NoWrite /\ Live(queue) = <<>>
  <2>1. queue' = <<>> /\ active' = NoWrite
    BY <1>3 DEF Pick
  <2>2. Range(<<>>) = {} /\ Rising(<<>>) /\ <<>> \in Seq(Write)
    BY DEF Range, Rising
  <2> QED
    BY <1>1, <1>3, <2>1, <2>2, LiveFacts
<1>4. CASE active = NoWrite /\ Live(queue) # <<>>
  <2>1. queue' = Tail(Live(queue)) /\ active' = Head(Live(queue))
    BY <1>4 DEF Pick
  <2>2. /\ Live(queue) \in Seq(Write) /\ Rising(Live(queue))
        /\ Range(Live(queue)) = Range(queue) \ expired
    BY <1>1, LiveFacts
  <2>3. Head(Live(queue)) \in Write
    BY <1>4, <2>2
  <2> QED
    BY <1>4, <2>1, <2>2, <2>3, HeadAndTail
<1> QED
  BY <1>2, <1>3, <1>4

\* A stack that is busy leaves the queue without the writes that have expired.
LEMMA BusyQueue ==
  ASSUME TypeOK, InLine, Busy
  PROVE  queue' \in Seq(Write) /\ Rising(queue') /\ Range(queue') = Range(queue) \ expired
BY LiveFacts DEF TypeOK, InLine, Busy

\* What fails all writes empties the queue.
LEMMA FailIs ==
  ASSUME TypeOK, FailPendingWrites
  PROVE  /\ queue' = <<>> /\ queue' \in Seq(Write) /\ Rising(queue') /\ Range(queue') = {}
         /\ active' = NoWrite /\ elapsed' = FALSE /\ Waiting' = {}
        /\ UNCHANGED <<delivered, sends>> /\ overdue' \subseteq Write /\ overdue \subseteq overdue'
         /\ outcome' \in [Write -> {"none", "resolved", "rejected"}]
         /\ \A w \in Write : outcome'[w] = IF w \in Waiting /\ outcome[w] = "none"
                                            THEN "rejected" ELSE outcome[w]
<1>1. queue' = <<>> /\ active' = NoWrite /\ elapsed' = FALSE /\ Answer(Waiting, "rejected")
  BY DEF FailPendingWrites
<1>2. Range(<<>>) = {} /\ Rising(<<>>) /\ <<>> \in Seq(Write)
  BY DEF Range, Rising
<1>3. Waiting' = {}
  BY <1>1, <1>2 DEF Waiting
<1>4. /\ outcome' \in [Write -> {"none", "resolved", "rejected"}]
      /\ \A w \in Write : outcome'[w] = IF w \in Waiting /\ outcome[w] = "none"
                                         THEN "rejected" ELSE outcome[w]
  BY <1>1 DEF TypeOK, Answer
<1>5. overdue' \subseteq Write /\ overdue \subseteq overdue'
  BY DEF FailPendingWrites, TypeOK
<1>6. UNCHANGED <<delivered, sends>>
  BY DEF FailPendingWrites
<1> QED
  BY <1>1, <1>2, <1>3, <1>4, <1>5, <1>6

-----------------------------------------------------------------------------
\* An outcome keeps its type, and the first answer to an invoke is its last.
LEMMA OutcomeStep ==
  ASSUME TypeOK, [Next]_vars
  PROVE  (outcome' \in [Write -> {"none", "resolved", "rejected"}]
                /\ \A v \in Write : outcome[v] # "none" => outcome'[v] = outcome[v])
<1> USE DEF NoWrite, link, history
<1>0. Write \subseteq Nat \ {0} /\ MaxAttempts \in Nat /\ \A v \in Write : v \in Int /\ 0 < v
  BY BoundsAssumption DEF Write
<1>1. CASE StartProcess
  BY <1>0, <1>1 DEF StartProcess, TypeOK
<1>2. CASE Pick
  BY <1>0, <1>2 DEF Pick, TypeOK
<1>3. CASE NothingToDo
  BY <1>0, <1>3 DEF NothingToDo, TypeOK
<1>4. CASE KeepWaiting
  BY <1>0, <1>4 DEF KeepWaiting, TypeOK
<1>5. CASE GiveUpWaiting
  BY <1>5 DEF GiveUpWaiting, Answer, TypeOK
<1>6. CASE PrepareSend
  BY <1>0, <1>6 DEF PrepareSend, TypeOK
<1>7. CASE NoGatt
  BY <1>7, FailIs DEF NoGatt
<1>8. CASE Accept
  BY <1>0, <1>8 DEF Accept, TypeOK
<1>9. CASE Busy
  BY <1>9 DEF Busy, EndOrRetry, EndWrite, RetryWrite, Answer, TypeOK
<1>10. CASE StartFails
  BY <1>10 DEF StartFails, EndOrRetry, EndWrite, RetryWrite, Answer, TypeOK
<1>11. CASE HandleCallback
  BY <1>11 DEF HandleCallback, Answered, Answer, TypeOK
<1>12. ASSUME NEW c \in Char, NEW kind \in Kinds, Enqueue(c, kind)
       PROVE  (outcome' \in [Write -> {"none", "resolved", "rejected"}]
                /\ \A v \in Write : outcome[v] # "none" => outcome'[v] = outcome[v])
  BY <1>12, EnqueueQueue DEF Enqueue, Answer, TypeOK
<1>13. ASSUME NEW w \in Write, PostStart(w)
       PROVE  (outcome' \in [Write -> {"none", "resolved", "rejected"}]
                /\ \A v \in Write : outcome[v] # "none" => outcome'[v] = outcome[v])
  BY <1>0, <1>13 DEF PostStart, TypeOK
<1>14. ASSUME NEW st \in Statuses, StackAnswers(st)
       PROVE  (outcome' \in [Write -> {"none", "resolved", "rejected"}]
                /\ \A v \in Write : outcome[v] # "none" => outcome'[v] = outcome[v])
  BY <1>0, <1>14 DEF StackAnswers, TypeOK
<1>15. CASE LinkDown
  BY <1>0, <1>15 DEF LinkDown, TypeOK
<1>16. CASE LinkFails
  BY <1>16, FailIs DEF LinkFails
<1>17. CASE DisconnectWithoutGatt
  BY <1>17, FailIs DEF DisconnectWithoutGatt
<1>18. CASE ConnectGatt
  BY <1>0, <1>18 DEF ConnectGatt, TypeOK
<1>19. CASE LinkUp
  BY <1>0, <1>19 DEF LinkUp, TypeOK
<1>20. CASE Elapse
  BY <1>0, <1>20 DEF Elapse, TypeOK
<1>21. ASSUME NEW w \in Write, Expire(w)
       PROVE  (outcome' \in [Write -> {"none", "resolved", "rejected"}]
                /\ \A v \in Write : outcome[v] # "none" => outcome'[v] = outcome[v])
  BY <1>0, <1>21 DEF Expire, TypeOK
<1>22. CASE UNCHANGED vars
  BY <1>22 DEF vars, TypeOK
<1> QED
  BY <1>1, <1>2, <1>3, <1>4, <1>5, <1>6, <1>7, <1>8, <1>9, <1>10, <1>11, <1>12, <1>13,
     <1>14, <1>15, <1>16, <1>17, <1>18, <1>19, <1>20, <1>21, <1>22
  DEF Next, Process, Caller, Stack, Link, Clock

\* The record of a write keeps its type: its attempts stay bounded.
LEMMA OpStep ==
  ASSUME TypeOK, LoopFits, Numbered, InLine, AttemptsBounded, [Next]_vars
  PROVE  op' \in [Write -> PendingWrite]
<1> USE DEF NoWrite, link, history
<1>0. Write \subseteq Nat \ {0} /\ MaxAttempts \in Nat /\ \A v \in Write : v \in Int /\ 0 < v
  BY BoundsAssumption DEF Write
<1>w. Range(queue) \subseteq Write /\ \A w \in Waiting : w \in Write /\ w <= count
  BY WaitingFits
<1>1. CASE StartProcess
  BY <1>1 DEF StartProcess, TypeOK
<1>2. CASE Pick
  BY <1>2 DEF Pick, TypeOK
<1>3. CASE NothingToDo
  BY <1>3 DEF NothingToDo, TypeOK
<1>4. CASE KeepWaiting
  BY <1>4 DEF KeepWaiting, TypeOK
<1>5. CASE GiveUpWaiting
  BY <1>5 DEF GiveUpWaiting, TypeOK
<1>6. CASE PrepareSend
  BY <1>6 DEF PrepareSend, TypeOK, PendingWrite
<1>7. CASE NoGatt
  <2>1. active \in Write
    BY <1>7 DEF NoGatt, TypeOK
  <2> QED
    BY <1>7, <2>1 DEF NoGatt, TypeOK, PendingWrite
<1>8. CASE Accept
  BY <1>8 DEF Accept, TypeOK, PendingWrite
<1>9. CASE Busy
  BY <1>0, <1>w, <1>9 DEF Busy, TypeOK, LoopFits
<1>10. CASE StartFails
  <2>1. current \in Write /\ op[current].attempt \in 0 .. MaxAttempts
    BY <1>10 DEF StartFails, TypeOK, PendingWrite, LoopFits, AttemptsBounded
  <2>2. op[current].attempt + 1 \in 0 .. MaxAttempts + 1
    BY <1>0, <2>1
  <2> QED
    BY <1>10, <2>1, <2>2 DEF StartFails, TypeOK, PendingWrite
<1>11. CASE HandleCallback
  <2>1. CASE active = NoWrite \/ op[active].char # op[Head(posted).of].char
    BY <1>11, <2>1 DEF HandleCallback, TypeOK
  <2>2. CASE ~ (active = NoWrite \/ op[active].char # op[Head(posted).of].char)
    <3>1. active \in Write /\ op[active] \in PendingWrite
      BY <2>2 DEF TypeOK
    <3>2. op[active].attempt \in 0 .. MaxAttempts + 1
      BY <3>1 DEF PendingWrite
    <3>3. op[active].attempt < MaxAttempts => op[active].attempt + 1 \in 0 .. MaxAttempts + 1
      BY <1>0, <3>2
    <3>4. Answered(Head(posted).status)
      BY <1>11, <2>2 DEF HandleCallback
    <3>5. \/ UNCHANGED op
          \/ op' = [op EXCEPT ![active].sent = FALSE]
          \/ /\ op[active].attempt < MaxAttempts
             /\ op' = [op EXCEPT ![active].sent = FALSE, ![active].attempt = @ + 1]
      BY <3>4 DEF Answered
    <3>6. [op EXCEPT ![active].sent = FALSE] \in [Write -> PendingWrite]
      BY <3>1 DEF TypeOK, PendingWrite
    <3>7. op[active].attempt < MaxAttempts =>
            [op EXCEPT ![active].sent = FALSE, ![active].attempt = @ + 1]
               \in [Write -> PendingWrite]
      BY <3>1, <3>3 DEF TypeOK, PendingWrite
    <3> QED
      BY <3>5, <3>6, <3>7 DEF TypeOK
  <2> QED
    BY <2>1, <2>2
<1>12. ASSUME NEW c \in Char, NEW kind \in Kinds, Enqueue(c, kind)
       PROVE  op' \in [Write -> PendingWrite]
  <2>1. count + 1 \in Write
    BY <1>12, EnqueueQueue
  <2>2. kind.withResponse \in BOOLEAN /\ kind.skip \in BOOLEAN
    BY KindAssumption
  <2>3. op' = [op EXCEPT ![count + 1] = [@ EXCEPT !.char = c,
                            !.withResponse = kind.withResponse, !.skip = kind.skip]]
    BY <1>12, <2>1 DEF Enqueue, TypeOK
  <2>4. [op[count + 1] EXCEPT !.char = c, !.withResponse = kind.withResponse,
                              !.skip = kind.skip] \in PendingWrite
    BY <2>1, <2>2 DEF TypeOK, PendingWrite
  <2> QED
    BY <2>1, <2>3, <2>4 DEF TypeOK
<1>13. ASSUME NEW w \in Write, PostStart(w)
       PROVE  op' \in [Write -> PendingWrite]
  BY <1>13 DEF PostStart, TypeOK
<1>14. ASSUME NEW st \in Statuses, StackAnswers(st)
       PROVE  op' \in [Write -> PendingWrite]
  BY <1>14 DEF StackAnswers, TypeOK
<1>15. CASE LinkDown
  BY <1>15 DEF LinkDown, TypeOK
<1>16. CASE LinkFails
  BY <1>16, FailIs DEF LinkFails, TypeOK
<1>17. CASE DisconnectWithoutGatt
  BY <1>17, FailIs DEF DisconnectWithoutGatt, TypeOK
<1>18. CASE ConnectGatt
  BY <1>18 DEF ConnectGatt, TypeOK
<1>19. CASE LinkUp
  BY <1>19 DEF LinkUp, TypeOK
<1>20. CASE Elapse
  BY <1>20 DEF Elapse, TypeOK
<1>21. ASSUME NEW w \in Write, Expire(w)
       PROVE  op' \in [Write -> PendingWrite]
  BY <1>21 DEF Expire, TypeOK
<1>22. CASE UNCHANGED vars
  BY <1>22 DEF vars, TypeOK
<1> QED
  BY <1>1, <1>2, <1>3, <1>4, <1>5, <1>6, <1>7, <1>8, <1>9, <1>10, <1>11, <1>12, <1>13,
     <1>14, <1>15, <1>16, <1>17, <1>18, <1>19, <1>20, <1>21, <1>22
  DEF Next, Process, Caller, Stack, Link, Clock

\* No step leaves the types.
LEMMA TypeStep ==
  ASSUME TypeOK, LoopFits, Numbered, InLine, AttemptsBounded, [Next]_vars
  PROVE  TypeOK'
<1> USE DEF NoWrite, link, history
<1>a. /\ outcome' \in [Write -> {"none", "resolved", "rejected"}]
      /\ op' \in [Write -> PendingWrite]
  BY OutcomeStep, OpStep
<1>0. Write \subseteq Nat \ {0} /\ MaxAttempts \in Nat /\ \A v \in Write : v \in Int /\ 0 < v
  BY BoundsAssumption DEF Write
<1>1. CASE StartProcess
  BY <1>1 DEF StartProcess, TypeOK
<1>2. CASE Pick
  BY <1>2, PickQueue DEF Pick, TypeOK
<1>3. CASE NothingToDo
  BY <1>3 DEF NothingToDo, TypeOK
<1>4. CASE KeepWaiting
  BY <1>4 DEF KeepWaiting, TypeOK
<1>5. CASE GiveUpWaiting
  BY <1>a, <1>5 DEF GiveUpWaiting, TypeOK
<1>6. CASE PrepareSend
  BY <1>a, <1>6 DEF PrepareSend, TypeOK
<1>7. CASE NoGatt
  BY <1>a, <1>7, FailIs DEF NoGatt, TypeOK
<1>8. CASE Accept
  <2>1. sends' \in [Write -> Nat] /\ stack' \in Write \cup {NoWrite}
    BY <1>8 DEF Accept, TypeOK, LoopFits
  <2>2. elapsed' = FALSE /\ wakeups' = wakeups + 1 /\ main' = "idle" /\ current' = NoWrite
    BY <1>8 DEF Accept
  <2>3. wakeups + 1 \in Nat
    BY DEF TypeOK
  <2> QED
    BY <1>a, <1>8, <2>1, <2>2, <2>3 DEF Accept, TypeOK
<1>9. CASE Busy
  <2>1. queue' \in Seq(Write)
    BY <1>9, BusyQueue
  <2>2. /\ active' \in Write \cup {NoWrite} /\ current' \in Write \cup {NoWrite}
        /\ main' \in {"idle", "pick"} /\ wakeups' \in Nat
    BY <1>9 DEF Busy, EndOrRetry, EndWrite, RetryWrite, TypeOK
  <2> QED
    BY <1>a, <1>9, <2>1, <2>2 DEF Busy, TypeOK
<1>10. CASE StartFails
  BY <1>a, <1>0, <1>10 DEF StartFails, EndOrRetry, EndWrite, RetryWrite, TypeOK
<1>11. CASE HandleCallback
  <2>1. posted' \in Seq(Callback)
    BY <1>11 DEF HandleCallback, TypeOK
  <2>2. /\ active' \in Write \cup {NoWrite} /\ elapsed' \in BOOLEAN
        /\ main' \in {"idle", "pick"}
    BY <1>11 DEF HandleCallback, Answered, TypeOK
  <2> QED
    BY <1>a, <1>11, <2>1, <2>2 DEF HandleCallback, TypeOK
<1>12. ASSUME NEW c \in Char, NEW kind \in Kinds, Enqueue(c, kind)
       PROVE  TypeOK'
  <2>1. queue' \in Seq(Write) /\ count + 1 \in Write
    BY <1>12, EnqueueQueue
  <2>2. count' \in 0 .. MaxWrites /\ starting' \subseteq Write
    BY <1>12, <2>1 DEF Enqueue, TypeOK, Write
  <2> QED
    BY <1>a, <1>12, <2>1, <2>2 DEF Enqueue, TypeOK
<1>13. ASSUME NEW w \in Write, PostStart(w)
       PROVE  TypeOK'
  BY <1>a, <1>13 DEF PostStart, TypeOK
<1>14. ASSUME NEW st \in Statuses, StackAnswers(st)
       PROVE  TypeOK'
  <2>1. stack \in Write /\ sends[stack] > 0
    BY <1>14 DEF StackAnswers, TypeOK, Numbered
  <2>2. [of |-> stack, status |-> st] \in Callback
    BY <2>1 DEF Callback
  <2>3. posted' \in Seq(Callback)
    BY <1>14, <2>2 DEF StackAnswers, TypeOK
  <2>4. /\ delivered \cup {stack} \subseteq Write /\ sends \in [Write -> Nat]
        /\ sends[stack] - 1 \in Nat
    BY <2>1 DEF TypeOK
  <2>5. delivered' \subseteq Write /\ sends' \in [Write -> Nat]
    BY <1>14, <2>4 DEF StackAnswers
  <2> QED
    BY <1>14, <2>3, <2>5 DEF StackAnswers, TypeOK
<1>15. CASE LinkDown
  <2>1. failing' \in Nat /\ losses' \in 0 .. MaxLosses
    BY <1>15, BoundsAssumption DEF LinkDown, TypeOK
  <2> QED
    BY <1>15, <2>1 DEF LinkDown, TypeOK
<1>16. CASE LinkFails
  <2>1. failing' \in Nat
    BY <1>16 DEF LinkFails, TypeOK
  <2> QED
    BY <1>16, <2>1, FailIs DEF LinkFails, TypeOK
<1>17. CASE DisconnectWithoutGatt
  BY <1>17, FailIs DEF DisconnectWithoutGatt, TypeOK
<1>18. CASE ConnectGatt
  BY <1>18 DEF ConnectGatt, TypeOK
<1>19. CASE LinkUp
  BY <1>19 DEF LinkUp, TypeOK
<1>20. CASE Elapse
  BY <1>20 DEF Elapse, TypeOK
<1>21. ASSUME NEW w \in Write, Expire(w)
       PROVE  TypeOK'
  BY <1>21 DEF Expire, TypeOK
<1>22. CASE UNCHANGED vars
  BY <1>22 DEF vars, TypeOK
<1> QED
  BY <1>1, <1>2, <1>3, <1>4, <1>5, <1>6, <1>7, <1>8, <1>9, <1>10, <1>11, <1>12, <1>13,
     <1>14, <1>15, <1>16, <1>17, <1>18, <1>19, <1>20, <1>21, <1>22
  DEF Next, Process, Caller, Stack, Link, Clock

\* The looper goes on with the active write, and what fails it under the looper
\* answers it.
LEMMA LoopStep ==
  ASSUME TypeOK, LoopFits, Numbered, InLine, AttemptsBounded, SentWriteIsAnswered, [Next]_vars
  PROVE  LoopFits'
<1> USE DEF NoWrite, link, history
<1>0. Write \subseteq Nat \ {0} /\ MaxAttempts \in Nat /\ \A v \in Write : v \in Int /\ 0 < v
  BY BoundsAssumption DEF Write
<1>w. Range(queue) \subseteq Write /\ \A w \in Waiting : w \in Write /\ w <= count
  BY WaitingFits
<1>1. CASE StartProcess
  BY <1>1 DEF StartProcess, LoopFits
<1>2. CASE Pick
  BY <1>2, PickQueue DEF Pick, LoopFits
<1>3. CASE NothingToDo
  BY <1>3 DEF NothingToDo, LoopFits
<1>4. CASE KeepWaiting
  BY <1>4 DEF KeepWaiting, LoopFits
<1>5. CASE GiveUpWaiting
  BY <1>5 DEF GiveUpWaiting, LoopFits
<1>6. CASE PrepareSend
  BY <1>6 DEF PrepareSend, LoopFits
<1>7. CASE NoGatt
  BY <1>7, FailIs DEF NoGatt, LoopFits
<1>8. CASE Accept
  BY <1>8 DEF Accept, LoopFits
<1>9. CASE Busy
  BY <1>0, <1>w, <1>9, BusyQueue
  DEF Busy, EndOrRetry, EndWrite, RetryWrite, LoopFits, Waiting
<1>10. CASE StartFails
  BY <1>0, <1>w, <1>10 DEF StartFails, EndOrRetry, EndWrite, RetryWrite, LoopFits, Waiting
<1>11. CASE HandleCallback
  BY <1>w, <1>11 DEF HandleCallback, LoopFits
<1>12. ASSUME NEW c \in Char, NEW kind \in Kinds, Enqueue(c, kind)
       PROVE  LoopFits'
  BY <1>12, EnqueueQueue DEF Enqueue, Answer, TypeOK, LoopFits
<1>13. ASSUME NEW w \in Write, PostStart(w)
       PROVE  LoopFits'
  BY <1>13 DEF PostStart, LoopFits
<1>14. ASSUME NEW st \in Statuses, StackAnswers(st)
       PROVE  LoopFits'
  BY <1>14 DEF StackAnswers, LoopFits
<1>15. CASE LinkDown
  BY <1>15 DEF LinkDown, LoopFits
<1>16. CASE LinkFails
  BY <1>16, FailIs DEF LinkFails, TypeOK, LoopFits, Waiting
<1>17. CASE DisconnectWithoutGatt
  BY <1>17, FailIs DEF DisconnectWithoutGatt, TypeOK, LoopFits, Waiting
<1>18. CASE ConnectGatt
  BY <1>18 DEF ConnectGatt, LoopFits
<1>19. CASE LinkUp
  BY <1>19 DEF LinkUp, LoopFits
<1>20. CASE Elapse
  BY <1>20 DEF Elapse, LoopFits
<1>21. ASSUME NEW w \in Write, Expire(w)
       PROVE  LoopFits'
  BY <1>21 DEF Expire, LoopFits
<1>22. CASE UNCHANGED vars
  BY <1>22 DEF vars, LoopFits
<1> QED
  BY <1>1, <1>2, <1>3, <1>4, <1>5, <1>6, <1>7, <1>8, <1>9, <1>10, <1>11, <1>12, <1>13,
     <1>14, <1>15, <1>16, <1>17, <1>18, <1>19, <1>20, <1>21, <1>22
  DEF Next, Process, Caller, Stack, Link, Clock

\* A step touches only writes that have been appended.
LEMMA NumberedStep ==
  ASSUME TypeOK, LoopFits, Numbered, InLine, AttemptsBounded, [Next]_vars
  PROVE  Numbered'
<1> USE DEF NoWrite, link, history
<1>0. Write \subseteq Nat \ {0} /\ MaxAttempts \in Nat /\ \A v \in Write : v \in Int /\ 0 < v
  BY BoundsAssumption DEF Write
<1>w. Range(queue) \subseteq Write /\ \A w \in Waiting : w \in Write /\ w <= count
  BY WaitingFits
<1>1. CASE StartProcess
  BY <1>w, <1>1 DEF StartProcess, Numbered
<1>2. CASE Pick
  BY <1>w, <1>2, PickQueue DEF Pick, Numbered, InLine
<1>3. CASE NothingToDo
  BY <1>w, <1>3 DEF NothingToDo, Numbered
<1>4. CASE KeepWaiting
  BY <1>w, <1>4 DEF KeepWaiting, Numbered
<1>5. CASE GiveUpWaiting
  BY <1>0, <1>w, <1>5 DEF GiveUpWaiting, Answer, LoopFits, Numbered
<1>6. CASE PrepareSend
  BY <1>w, <1>6 DEF PrepareSend, Numbered
<1>7. CASE NoGatt
  <2>1. \A w \in Write : w > count => outcome'[w] = "none"
    <3>1. \A w \in Write : w > count => w \notin Waiting
      BY <1>0, <1>w DEF TypeOK
    <3> QED
      BY <1>7, <3>1, FailIs DEF NoGatt, Numbered
  <2>2. active' = NoWrite
    BY <1>7, FailIs DEF NoGatt
  <2>3. UNCHANGED sends
    BY <1>7, FailIs DEF NoGatt
  <2> QED
    BY <1>7, <2>1, <2>2, <2>3 DEF NoGatt, Numbered, TypeOK
<1>8. CASE Accept
  BY <1>0, <1>w, <1>8 DEF Accept, TypeOK, Numbered
<1>9. CASE Busy
  BY <1>0, <1>w, <1>9, BusyQueue
  DEF Busy, EndOrRetry, EndWrite, RetryWrite, Answer, TypeOK, LoopFits, Numbered, InLine
<1>10. CASE StartFails
  BY <1>0, <1>w, <1>10
  DEF StartFails, EndOrRetry, EndWrite, RetryWrite, Answer, TypeOK, LoopFits, Numbered,
      InLine
<1>11. CASE HandleCallback
  <2>1. \A w \in Write : w > count => w # active
    BY <1>0 DEF Numbered, TypeOK
  <2>2. \A w \in Write : w > count => outcome'[w] = outcome[w] /\ op'[w] = op[w]
    BY <1>11, <2>1 DEF HandleCallback, Answered, Answer, TypeOK
  <2>3. active' \in {active, NoWrite}
    BY <1>11 DEF HandleCallback, Answered
  <2>4. 0 <= count
    BY DEF TypeOK
  <2> QED
    BY <1>11, <2>2, <2>3, <2>4 DEF HandleCallback, Numbered
<1>12. ASSUME NEW c \in Char, NEW kind \in Kinds, Enqueue(c, kind)
       PROVE  Numbered'
  <2>1. count + 1 \in Write /\ count' = count + 1
    BY <1>12, EnqueueQueue DEF Enqueue
  <2>2. \A w \in Write : w > count + 1 => w # count + 1 /\ w > count
    BY <1>0 DEF TypeOK
  <2>3. \A w \in Write : w > count + 1 => outcome'[w] = outcome[w] /\ op'[w] = op[w]
    BY <1>12, <2>1, <2>2 DEF Enqueue, Answer, TypeOK
  <2> QED
    BY <1>0, <1>12, <2>1, <2>2, <2>3 DEF Enqueue, Numbered, TypeOK
<1>13. ASSUME NEW w \in Write, PostStart(w)
       PROVE  Numbered'
  BY <1>w, <1>13 DEF PostStart, Numbered
<1>14. ASSUME NEW st \in Statuses, StackAnswers(st)
       PROVE  Numbered'
  BY <1>w, <1>14 DEF StackAnswers, TypeOK, Numbered
<1>15. CASE LinkDown
  BY <1>w, <1>15 DEF LinkDown, TypeOK, Numbered
<1>16. CASE LinkFails
  <2>1. \A w \in Write : w > count => outcome'[w] = "none"
    <3>1. \A w \in Write : w > count => w \notin Waiting
      BY <1>0, <1>w DEF TypeOK
    <3> QED
      BY <1>16, <3>1, FailIs DEF LinkFails, Numbered
  <2>2. active' = NoWrite
    BY <1>16, FailIs DEF LinkFails
  <2>3. UNCHANGED sends
    BY <1>16, FailIs DEF LinkFails
  <2> QED
    BY <1>16, <2>1, <2>2, <2>3 DEF LinkFails, Numbered, TypeOK
<1>17. CASE DisconnectWithoutGatt
  <2>1. \A w \in Write : w > count => outcome'[w] = "none"
    <3>1. \A w \in Write : w > count => w \notin Waiting
      BY <1>0, <1>w DEF TypeOK
    <3> QED
      BY <1>17, <3>1, FailIs DEF DisconnectWithoutGatt, Numbered
  <2>2. active' = NoWrite
    BY <1>17, FailIs DEF DisconnectWithoutGatt
  <2>3. UNCHANGED sends
    BY <1>17, FailIs DEF DisconnectWithoutGatt
  <2> QED
    BY <1>17, <2>1, <2>2, <2>3 DEF DisconnectWithoutGatt, Numbered, TypeOK
<1>18. CASE ConnectGatt
  BY <1>w, <1>18 DEF ConnectGatt, Numbered
<1>19. CASE LinkUp
  BY <1>w, <1>19 DEF LinkUp, Numbered
<1>20. CASE Elapse
  BY <1>w, <1>20 DEF Elapse, Numbered
<1>21. ASSUME NEW w \in Write, Expire(w)
       PROVE  Numbered'
  BY <1>w, <1>21 DEF Expire, Numbered
<1>22. CASE UNCHANGED vars
  BY <1>22 DEF vars, Numbered
<1> QED
  BY <1>1, <1>2, <1>3, <1>4, <1>5, <1>6, <1>7, <1>8, <1>9, <1>10, <1>11, <1>12, <1>13,
     <1>14, <1>15, <1>16, <1>17, <1>18, <1>19, <1>20, <1>21, <1>22
  DEF Next, Process, Caller, Stack, Link, Clock

\* Nothing overtakes in the queue: a write that is sent again stays active.
LEMMA InLineStep ==
  ASSUME TypeOK, LoopFits, Numbered, InLine, AttemptsBounded, [Next]_vars
  PROVE  InLine'
<1> USE DEF NoWrite, link, history
<1>0. Write \subseteq Nat \ {0} /\ MaxAttempts \in Nat /\ \A v \in Write : v \in Int /\ 0 < v
  BY BoundsAssumption DEF Write
<1>w. Range(queue) \subseteq Write /\ \A w \in Waiting : w \in Write /\ w <= count
  BY WaitingFits
<1>1. CASE StartProcess
  BY <1>w, <1>1 DEF StartProcess, InLine
<1>2. CASE Pick
  BY <1>w, <1>2, PickQueue DEF Pick, InLine
<1>3. CASE NothingToDo
  BY <1>w, <1>3 DEF NothingToDo, InLine
<1>4. CASE KeepWaiting
  BY <1>w, <1>4 DEF KeepWaiting, InLine
<1>5. CASE GiveUpWaiting
  BY <1>0, <1>w, <1>5 DEF GiveUpWaiting, InLine
<1>6. CASE PrepareSend
  BY <1>w, <1>6 DEF PrepareSend, InLine
<1>7. CASE NoGatt
  BY <1>w, <1>7, FailIs DEF NoGatt, InLine
<1>8. CASE Accept
  BY <1>0, <1>w, <1>8 DEF Accept, InLine
<1>9. CASE Busy
  <2>1. Rising(queue') /\ Range(queue') \subseteq Range(queue)
    BY <1>9, BusyQueue
  <2>2. /\ active' \in {active, NoWrite} /\ current' = NoWrite
        /\ UNCHANGED <<op, stack, count, sends>>
    BY <1>9 DEF Busy, EndOrRetry, EndWrite, RetryWrite
  <2>3. \A v \in Range(queue) : NoWrite < v
    BY <1>0, <1>w
  <2> QED
    BY <2>1, <2>2, <2>3 DEF InLine
<1>10. CASE StartFails
  BY <1>0, <1>w, <1>10
  DEF StartFails, EndOrRetry, EndWrite, RetryWrite, LoopFits, Numbered, InLine
<1>11. CASE HandleCallback
  BY <1>0, <1>w, <1>11
  DEF HandleCallback, Answered, Answer, TypeOK, PendingWrite, LoopFits, Numbered, InLine
<1>12. ASSUME NEW c \in Char, NEW kind \in Kinds, Enqueue(c, kind)
       PROVE  InLine'
  <2>1. /\ Rising(queue') /\ count + 1 \in Write /\ count' = count + 1
        /\ Range(queue') = Range(queue) \cup {count + 1}
    BY <1>12, EnqueueQueue DEF Enqueue
  <2>2. UNCHANGED <<active, current, stack, sends>>
    BY <1>12 DEF Enqueue
  <2>3. \A v \in Write : op'[v].sent = op[v].sent
    BY <1>12 DEF Enqueue, TypeOK, PendingWrite
  <2>4. count \in Int /\ count + 1 > count
    BY DEF TypeOK
  <2>5. /\ active < count + 1 /\ current < count + 1 /\ stack < count + 1
        /\ sends[count + 1] = 0 /\ ~ op[count + 1].sent
    BY <1>0, <2>1, <2>4 DEF Numbered, TypeOK
  <2>6. \A v \in Range(queue) : v <= count + 1
    <3>1. \A v \in Range(queue) : v \in Int /\ v <= count
      BY <1>0, <1>w DEF InLine
    <3> QED
      BY <2>4, <3>1
  <2> QED
    BY <1>w, <2>1, <2>2, <2>3, <2>4, <2>5, <2>6 DEF InLine
<1>13. ASSUME NEW w \in Write, PostStart(w)
       PROVE  InLine'
  BY <1>w, <1>13 DEF PostStart, InLine
<1>14. ASSUME NEW st \in Statuses, StackAnswers(st)
       PROVE  InLine'
  <2>1. stack' = NoWrite /\ UNCHANGED <<queue, active, current, count, op>>
    BY <1>14 DEF StackAnswers
  <2>2. \A v \in Range(queue) : NoWrite < v /\ stack # v
    <3>1. \A v \in Range(queue) : v \in Int /\ NoWrite < v /\ stack < v
      BY <1>0, <1>w DEF InLine
    <3>2. stack \in Int
      BY <1>0 DEF TypeOK
    <3> QED
      BY <3>1, <3>2
  <2>3. \A v \in Write : v # stack => sends'[v] = sends[v]
    BY <1>14 DEF StackAnswers, TypeOK
  <2> QED
    BY <1>w, <2>1, <2>2, <2>3 DEF InLine
<1>15. CASE LinkDown
  <2>1. stack' = NoWrite /\ UNCHANGED <<queue, active, current, count, op, sends>>
    BY <1>15 DEF LinkDown
  <2>2. \A v \in Range(queue) : NoWrite < v
    BY <1>0, <1>w
  <2> QED
    BY <2>1, <2>2 DEF InLine
<1>16. CASE LinkFails
  BY <1>w, <1>16, FailIs DEF LinkFails, InLine
<1>17. CASE DisconnectWithoutGatt
  BY <1>w, <1>17, FailIs DEF DisconnectWithoutGatt, InLine
<1>18. CASE ConnectGatt
  BY <1>w, <1>18 DEF ConnectGatt, InLine
<1>19. CASE LinkUp
  BY <1>w, <1>19 DEF LinkUp, InLine
<1>20. CASE Elapse
  BY <1>w, <1>20 DEF Elapse, InLine
<1>21. ASSUME NEW w \in Write, Expire(w)
       PROVE  InLine'
  BY <1>w, <1>21 DEF Expire, InLine
<1>22. CASE UNCHANGED vars
  BY <1>22 DEF vars, InLine
<1> QED
  BY <1>1, <1>2, <1>3, <1>4, <1>5, <1>6, <1>7, <1>8, <1>9, <1>10, <1>11, <1>12, <1>13,
     <1>14, <1>15, <1>16, <1>17, <1>18, <1>19, <1>20, <1>21, <1>22
  DEF Next, Process, Caller, Stack, Link, Clock

\* A write that has used its attempts is answered and leaves.
LEMMA AttemptsStep ==
  ASSUME TypeOK, LoopFits, Numbered, InLine, AttemptsBounded, [Next]_vars
  PROVE  AttemptsBounded'
<1> USE DEF NoWrite, link, history
<1>0. Write \subseteq Nat \ {0} /\ MaxAttempts \in Nat /\ \A v \in Write : v \in Int /\ 0 < v
  BY BoundsAssumption DEF Write
<1>w. Range(queue) \subseteq Write /\ \A w \in Waiting : w \in Write /\ w <= count
  BY WaitingFits
<1>1. CASE StartProcess
  BY <1>0, <1>w, <1>1 DEF StartProcess, Waiting, AttemptsBounded
<1>2. CASE Pick
  BY <1>0, <1>w, <1>2, PickQueue DEF Pick, Waiting, AttemptsBounded
<1>3. CASE NothingToDo
  BY <1>0, <1>w, <1>3 DEF NothingToDo, Waiting, AttemptsBounded
<1>4. CASE KeepWaiting
  BY <1>0, <1>w, <1>4 DEF KeepWaiting, Waiting, AttemptsBounded
<1>5. CASE GiveUpWaiting
  BY <1>0, <1>w, <1>5 DEF GiveUpWaiting, Waiting, AttemptsBounded
<1>6. CASE PrepareSend
  BY <1>0, <1>w, <1>6 DEF PrepareSend, Waiting, AttemptsBounded
<1>7. CASE NoGatt
  BY <1>0, <1>w, <1>7, FailIs DEF NoGatt, AttemptsBounded
<1>8. CASE Accept
  BY <1>0, <1>w, <1>8 DEF Accept, Waiting, AttemptsBounded
<1>9. CASE Busy
  BY <1>0, <1>w, <1>9, BusyQueue
  DEF Busy, EndOrRetry, EndWrite, RetryWrite, LoopFits, Numbered, InLine, Waiting,
      AttemptsBounded
<1>10. CASE StartFails
  BY <1>0, <1>w, <1>10
  DEF StartFails, EndOrRetry, EndWrite, RetryWrite, TypeOK, PendingWrite, LoopFits,
      Numbered, InLine, Waiting, AttemptsBounded
<1>11. CASE HandleCallback
  <2>1. CASE active = NoWrite \/ op[active].char # op[Head(posted).of].char
    BY <1>11, <2>1 DEF HandleCallback, AttemptsBounded, Waiting
  <2>2. CASE ~ (active = NoWrite \/ op[active].char # op[Head(posted).of].char)
    <3>1. Answered(Head(posted).status) /\ UNCHANGED <<queue, current>> /\ current = NoWrite
      BY <1>11, <2>2 DEF HandleCallback, LoopFits
    <3>2. active' \in {active, NoWrite}
      BY <3>1 DEF Answered
    <3>3. active \in Write /\ active \in Waiting /\ op[active].attempt \in Nat
      BY <2>2 DEF TypeOK, PendingWrite, Waiting
    <3>4. \A w \in Write : w # active => op'[w] = op[w]
      BY <3>1 DEF Answered, TypeOK
    <3>5. active' = active => op'[active].attempt <= MaxAttempts
      BY <1>0, <2>2, <3>1, <3>3 DEF Answered, TypeOK, PendingWrite
    <3>6. (Waiting \cup {current})' \subseteq Waiting \cup {NoWrite}
      BY <3>1, <3>2 DEF Waiting
    <3>7. active \notin Range(queue)
      BY <1>0, <1>w, <3>3 DEF InLine
    <3>8. active \in Waiting' => active' = active
      BY <3>1, <3>2, <3>7, <2>2 DEF Waiting
    <3> QED
      BY <1>w, <3>1, <3>4, <3>5, <3>6, <3>8 DEF AttemptsBounded
  <2> QED
    BY <2>1, <2>2
<1>12. ASSUME NEW c \in Char, NEW kind \in Kinds, Enqueue(c, kind)
       PROVE  AttemptsBounded'
  <2>1. count + 1 \in Write /\ Range(queue') = Range(queue) \cup {count + 1}
    BY <1>12, EnqueueQueue
  <2>2. \A w \in Write : op'[w].attempt = op[w].attempt
    BY <1>12 DEF Enqueue, TypeOK, PendingWrite
  <2>3. op[count + 1].attempt = 0
    BY <1>0, <2>1 DEF Numbered, TypeOK
  <2>4. (Waiting \cup {current})' = Waiting \cup {current} \cup {count + 1}
    BY <1>12, <2>1 DEF Enqueue, Waiting
  <2>5. current # NoWrite => current \in Write
    BY DEF TypeOK
  <2> QED
    <3>1. \A w \in (Waiting \cup {current} \cup {count + 1}) \ {NoWrite} :
            w \in Write /\ op[w].attempt <= MaxAttempts
      BY <1>0, <1>w, <2>1, <2>3, <2>5 DEF AttemptsBounded
    <3> QED
      BY <2>2, <2>4, <3>1 DEF AttemptsBounded
<1>13. ASSUME NEW w \in Write, PostStart(w)
       PROVE  AttemptsBounded'
  BY <1>0, <1>w, <1>13 DEF PostStart, Waiting, AttemptsBounded
<1>14. ASSUME NEW st \in Statuses, StackAnswers(st)
       PROVE  AttemptsBounded'
  BY <1>0, <1>w, <1>14 DEF StackAnswers, Waiting, AttemptsBounded
<1>15. CASE LinkDown
  BY <1>0, <1>w, <1>15 DEF LinkDown, Waiting, AttemptsBounded
<1>16. CASE LinkFails
  BY <1>0, <1>w, <1>16, FailIs DEF LinkFails, AttemptsBounded
<1>17. CASE DisconnectWithoutGatt
  BY <1>0, <1>w, <1>17, FailIs DEF DisconnectWithoutGatt, AttemptsBounded
<1>18. CASE ConnectGatt
  BY <1>0, <1>w, <1>18 DEF ConnectGatt, Waiting, AttemptsBounded
<1>19. CASE LinkUp
  BY <1>0, <1>w, <1>19 DEF LinkUp, Waiting, AttemptsBounded
<1>20. CASE Elapse
  BY <1>0, <1>w, <1>20 DEF Elapse, Waiting, AttemptsBounded
<1>21. ASSUME NEW w \in Write, Expire(w)
       PROVE  AttemptsBounded'
  BY <1>0, <1>w, <1>21 DEF Expire, Waiting, AttemptsBounded
<1>22. CASE UNCHANGED vars
  BY <1>22 DEF vars, Waiting, AttemptsBounded
<1> QED
  BY <1>1, <1>2, <1>3, <1>4, <1>5, <1>6, <1>7, <1>8, <1>9, <1>10, <1>11, <1>12, <1>13,
     <1>14, <1>15, <1>16, <1>17, <1>18, <1>19, <1>20, <1>21, <1>22
  DEF Next, Process, Caller, Stack, Link, Clock

\* Who appends to an idle queue has a call to post.
LEMMA LooksStep ==
  ASSUME TypeOK, LoopFits, Numbered, InLine, AttemptsBounded, SomeoneLooks, [Next]_vars
  PROVE  SomeoneLooks'
<1> USE DEF NoWrite, link, history
<1>0. Write \subseteq Nat \ {0} /\ MaxAttempts \in Nat /\ \A v \in Write : v \in Int /\ 0 < v
  BY BoundsAssumption DEF Write
<1>w. Range(queue) \subseteq Write /\ \A w \in Waiting : w \in Write /\ w <= count
  BY WaitingFits
<1>1. CASE StartProcess
  BY <1>1 DEF StartProcess, SomeoneLooks
<1>2. CASE Pick
  BY <1>0, <1>w, <1>2, PickQueue DEF Pick, SomeoneLooks
<1>3. CASE NothingToDo
  BY <1>3 DEF NothingToDo, SomeoneLooks
<1>4. CASE KeepWaiting
  BY <1>4 DEF KeepWaiting, SomeoneLooks
<1>5. CASE GiveUpWaiting
  BY <1>5 DEF GiveUpWaiting, SomeoneLooks
<1>6. CASE PrepareSend
  BY <1>6 DEF PrepareSend, SomeoneLooks
<1>7. CASE NoGatt
  BY <1>7, FailIs DEF NoGatt, SomeoneLooks
<1>8. CASE Accept
  BY <1>8 DEF Accept, SomeoneLooks
<1>9. CASE Busy
  BY <1>0, <1>w, <1>9, BusyQueue DEF Busy, EndOrRetry, EndWrite, RetryWrite, SomeoneLooks
<1>10. CASE StartFails
  BY <1>0, <1>w, <1>10 DEF StartFails, EndOrRetry, EndWrite, RetryWrite, SomeoneLooks
<1>11. CASE HandleCallback
  BY <1>w, <1>11 DEF HandleCallback, SomeoneLooks
<1>12. ASSUME NEW c \in Char, NEW kind \in Kinds, Enqueue(c, kind)
       PROVE  SomeoneLooks'
  BY <1>12, EnqueueQueue DEF Enqueue, SomeoneLooks
<1>13. ASSUME NEW w \in Write, PostStart(w)
       PROVE  SomeoneLooks'
  BY <1>13 DEF PostStart, TypeOK, SomeoneLooks
<1>14. ASSUME NEW st \in Statuses, StackAnswers(st)
       PROVE  SomeoneLooks'
  BY <1>14 DEF StackAnswers, SomeoneLooks
<1>15. CASE LinkDown
  BY <1>15 DEF LinkDown, SomeoneLooks
<1>16. CASE LinkFails
  BY <1>16, FailIs DEF LinkFails, SomeoneLooks
<1>17. CASE DisconnectWithoutGatt
  BY <1>17, FailIs DEF DisconnectWithoutGatt, SomeoneLooks
<1>18. CASE ConnectGatt
  BY <1>18 DEF ConnectGatt, SomeoneLooks
<1>19. CASE LinkUp
  BY <1>19 DEF LinkUp, SomeoneLooks
<1>20. CASE Elapse
  BY <1>20 DEF Elapse, SomeoneLooks
<1>21. ASSUME NEW w \in Write, Expire(w)
       PROVE  SomeoneLooks'
  BY <1>21 DEF Expire, SomeoneLooks
<1>22. CASE UNCHANGED vars
  BY <1>22 DEF vars, SomeoneLooks
<1> QED
  BY <1>1, <1>2, <1>3, <1>4, <1>5, <1>6, <1>7, <1>8, <1>9, <1>10, <1>11, <1>12, <1>13,
     <1>14, <1>15, <1>16, <1>17, <1>18, <1>19, <1>20, <1>21, <1>22
  DEF Next, Process, Caller, Stack, Link, Clock

\* A step that stops looking at the queue leaves it empty or leaves a call behind.
LEMMA StallStep ==
  ASSUME TypeOK, LoopFits, Numbered, InLine, AttemptsBounded, SomeoneLooks,
         NoStalledQueue, [Next]_vars
  PROVE  NoStalledQueue'
<1> USE DEF NoWrite, link, history
<1>0. Write \subseteq Nat \ {0} /\ MaxAttempts \in Nat /\ \A v \in Write : v \in Int /\ 0 < v
  BY BoundsAssumption DEF Write
<1>w. Range(queue) \subseteq Write /\ \A w \in Waiting : w \in Write /\ w <= count
  BY WaitingFits
<1>1. CASE StartProcess
  BY <1>w, <1>1 DEF StartProcess, NoStalledQueue
<1>2. CASE Pick
  BY <1>w, <1>2, PickQueue DEF Pick, NoStalledQueue
<1>3. CASE NothingToDo
  <2>1. CASE queue = <<>>
    BY <1>3, <2>1 DEF NothingToDo, NoStalledQueue, Waiting, Range
  <2>2. CASE queue # <<>>
    BY <1>3, <2>2 DEF NothingToDo, NoStalledQueue, SomeoneLooks
  <2> QED
    BY <2>1, <2>2
<1>4. CASE KeepWaiting
  BY <1>w, <1>4 DEF KeepWaiting, TypeOK, NoStalledQueue
<1>5. CASE GiveUpWaiting
  BY <1>0, <1>w, <1>5 DEF GiveUpWaiting, NoStalledQueue
<1>6. CASE PrepareSend
  BY <1>w, <1>6 DEF PrepareSend, NoStalledQueue
<1>7. CASE NoGatt
  BY <1>w, <1>7, FailIs DEF NoGatt, NoStalledQueue
<1>8. CASE Accept
  BY <1>w, <1>8 DEF Accept, TypeOK, NoStalledQueue
<1>9. CASE Busy
  BY <1>0, <1>w, <1>9, BusyQueue
  DEF Busy, EndOrRetry, EndWrite, RetryWrite, TypeOK, SomeoneLooks, NoStalledQueue, Waiting
<1>10. CASE StartFails
  BY <1>0, <1>w, <1>10
  DEF StartFails, EndOrRetry, EndWrite, RetryWrite, TypeOK, SomeoneLooks, NoStalledQueue,
      Waiting
<1>11. CASE HandleCallback
  BY <1>0, <1>w, <1>11 DEF HandleCallback, NoStalledQueue, Waiting
<1>12. ASSUME NEW c \in Char, NEW kind \in Kinds, Enqueue(c, kind)
       PROVE  NoStalledQueue'
  BY <1>0, <1>w, <1>12, EnqueueQueue DEF Enqueue, NoStalledQueue, Waiting
<1>13. ASSUME NEW w \in Write, PostStart(w)
       PROVE  NoStalledQueue'
  BY <1>w, <1>13 DEF PostStart, TypeOK, NoStalledQueue
<1>14. ASSUME NEW st \in Statuses, StackAnswers(st)
       PROVE  NoStalledQueue'
  BY <1>w, <1>14 DEF StackAnswers, NoStalledQueue, Waiting
<1>15. CASE LinkDown
  BY <1>w, <1>15 DEF LinkDown, TypeOK, NoStalledQueue
<1>16. CASE LinkFails
  BY <1>w, <1>16, FailIs DEF LinkFails, NoStalledQueue
<1>17. CASE DisconnectWithoutGatt
  BY <1>w, <1>17, FailIs DEF DisconnectWithoutGatt, NoStalledQueue
<1>18. CASE ConnectGatt
  BY <1>w, <1>18 DEF ConnectGatt, NoStalledQueue, Waiting
<1>19. CASE LinkUp
  BY <1>w, <1>19 DEF LinkUp, NoStalledQueue, Waiting
<1>20. CASE Elapse
  BY <1>w, <1>20 DEF Elapse, NoStalledQueue, Waiting
<1>21. ASSUME NEW w \in Write, Expire(w)
       PROVE  NoStalledQueue'
  BY <1>w, <1>21 DEF Expire, NoStalledQueue, Waiting
<1>22. CASE UNCHANGED vars
  BY <1>22 DEF vars, NoStalledQueue, Waiting
<1> QED
  BY <1>1, <1>2, <1>3, <1>4, <1>5, <1>6, <1>7, <1>8, <1>9, <1>10, <1>11, <1>12, <1>13,
     <1>14, <1>15, <1>16, <1>17, <1>18, <1>19, <1>20, <1>21, <1>22
  DEF Next, Process, Caller, Stack, Link, Clock

\* A step that takes a write out of the queue, or marks it as sent, answers its invoke
\* or leaves it with the queue.
LEMMA AnsweredStep ==
  ASSUME TypeOK, LoopFits, Numbered, InLine, AttemptsBounded, SentWriteIsAnswered, [Next]_vars
  PROVE  SentWriteIsAnswered'
<1> USE DEF NoWrite, link, history
<1>0. Write \subseteq Nat \ {0} /\ MaxAttempts \in Nat /\ \A v \in Write : v \in Int /\ 0 < v
  BY BoundsAssumption DEF Write
<1>w. Range(queue) \subseteq Write /\ \A w \in Waiting : w \in Write /\ w <= count
  BY WaitingFits
<1>f. /\ \A v \in Write : outcome[v] # "none" => outcome'[v] = outcome[v]
      /\ Appended \subseteq Write
  BY BoundsAssumption, OutcomeStep DEF TypeOK, Appended, Write
<1>1. CASE StartProcess
  BY <1>0, <1>w, <1>1 DEF StartProcess, Waiting, SentWriteIsAnswered, Appended
<1>2. CASE Pick
  BY <1>0, <1>w, <1>2, PickQueue DEF Pick, InLine, Waiting, SentWriteIsAnswered, Appended
<1>3. CASE NothingToDo
  BY <1>0, <1>w, <1>3 DEF NothingToDo, Waiting, SentWriteIsAnswered, Appended
<1>4. CASE KeepWaiting
  BY <1>0, <1>w, <1>4 DEF KeepWaiting, Waiting, SentWriteIsAnswered, Appended
<1>5. CASE GiveUpWaiting
  <2>1. active \in Write /\ outcome'[active] # "none"
    BY <1>5 DEF GiveUpWaiting, Answer, TypeOK
  <2>2. Waiting \subseteq Waiting' \cup {active}
    BY <1>5 DEF GiveUpWaiting, Waiting
  <2>3. UNCHANGED <<count, expired, sends>>
    BY <1>5 DEF GiveUpWaiting
  <2> QED
    BY <1>f, <2>1, <2>2, <2>3 DEF SentWriteIsAnswered, Appended
<1>6. CASE PrepareSend
  BY <1>0, <1>w, <1>6 DEF PrepareSend, Waiting, SentWriteIsAnswered, Appended
<1>7. CASE NoGatt
  <2>1. Waiting' = {} /\ \A v \in Write : v \in Waiting => outcome'[v] # "none"
    BY <1>7, FailIs DEF NoGatt
  <2> QED
    BY <1>f, <1>7, <2>1, FailIs DEF NoGatt, SentWriteIsAnswered, Appended
<1>8. CASE Accept
  BY <1>0, <1>w, <1>8 DEF Accept, LoopFits, Waiting, SentWriteIsAnswered, Appended
<1>9. CASE Busy
  <2>1. Range(queue') = Range(queue) \ expired
    BY <1>9, BusyQueue
  <2>2. \A v \in Range(queue) : v \in expired => outcome'[v] # "none"
    BY <1>w, <1>9 DEF Busy, EndOrRetry, EndWrite, RetryWrite, Answer
  <2>3. current \in Write /\ (active' = active \/ outcome'[current] # "none")
    BY <1>9 DEF Busy, EndOrRetry, EndWrite, RetryWrite, Answer, TypeOK, LoopFits
  <2>4. active' = active \/ active = current
    BY <1>9 DEF Busy, EndOrRetry, EndWrite, RetryWrite
  <2>5. \A v \in Waiting : v \in Waiting' \/ outcome'[v] # "none"
    BY <2>1, <2>2, <2>3, <2>4 DEF Waiting
  <2>6. UNCHANGED <<count, expired, sends>>
    BY <1>9 DEF Busy
  <2> QED
    BY <1>f, <2>5, <2>6 DEF SentWriteIsAnswered, Appended
<1>10. CASE StartFails
  <2>1. current \in Write /\ (active' = active \/ outcome'[current] # "none")
    BY <1>10 DEF StartFails, EndOrRetry, EndWrite, RetryWrite, Answer, TypeOK, LoopFits
  <2>2. active' = active \/ active = current
    BY <1>10 DEF StartFails, EndOrRetry, EndWrite, RetryWrite
  <2>3. UNCHANGED <<queue, count, expired, sends>>
    BY <1>10 DEF StartFails
  <2>4. \A v \in Waiting : v \in Waiting' \/ outcome'[v] # "none"
    BY <2>1, <2>2, <2>3 DEF Waiting
  <2> QED
    BY <1>f, <2>3, <2>4 DEF SentWriteIsAnswered, Appended
<1>11. CASE HandleCallback
  <2>1. active' = active \/ outcome'[active] # "none"
    BY <1>11 DEF HandleCallback, Answered, Answer, TypeOK
  <2>2. UNCHANGED <<queue, count, expired, sends>>
    BY <1>11 DEF HandleCallback
  <2>3. \A v \in Waiting : v \in Waiting' \/ outcome'[v] # "none"
    BY <2>1, <2>2 DEF Waiting
  <2> QED
    BY <1>f, <2>2, <2>3 DEF SentWriteIsAnswered, Appended
<1>12. ASSUME NEW c \in Char, NEW kind \in Kinds, Enqueue(c, kind)
       PROVE  SentWriteIsAnswered'
  <2>1. /\ Range(queue') = Range(queue) \cup {count + 1} /\ count + 1 \in Write
        /\ count' = count + 1 /\ UNCHANGED <<active, expired, sends>>
    BY <1>12, EnqueueQueue DEF Enqueue
  <2>2. Waiting' = Waiting \cup {count + 1}
    BY <2>1 DEF Waiting
  <2>3. \A v \in 1 .. (count + 1) : v \in 1 .. count \/ v = count + 1
    BY DEF TypeOK
  <2> QED
    BY <1>f, <2>1, <2>2, <2>3 DEF SentWriteIsAnswered, Appended
<1>13. ASSUME NEW w \in Write, PostStart(w)
       PROVE  SentWriteIsAnswered'
  BY <1>0, <1>w, <1>13 DEF PostStart, Waiting, SentWriteIsAnswered, Appended
<1>14. ASSUME NEW st \in Statuses, StackAnswers(st)
       PROVE  SentWriteIsAnswered'
  BY <1>0, <1>w, <1>14
  DEF StackAnswers, TypeOK, Numbered, Waiting, SentWriteIsAnswered, Appended
<1>15. CASE LinkDown
  BY <1>0, <1>w, <1>15 DEF LinkDown, Waiting, SentWriteIsAnswered, Appended
<1>16. CASE LinkFails
  <2>1. Waiting' = {} /\ \A v \in Write : v \in Waiting => outcome'[v] # "none"
    BY <1>16, FailIs DEF LinkFails
  <2> QED
    BY <1>f, <1>16, <2>1, FailIs DEF LinkFails, SentWriteIsAnswered, Appended
<1>17. CASE DisconnectWithoutGatt
  <2>1. Waiting' = {} /\ \A v \in Write : v \in Waiting => outcome'[v] # "none"
    BY <1>17, FailIs DEF DisconnectWithoutGatt
  <2> QED
    BY <1>f, <1>17, <2>1, FailIs DEF DisconnectWithoutGatt, SentWriteIsAnswered, Appended
<1>18. CASE ConnectGatt
  BY <1>0, <1>w, <1>18 DEF ConnectGatt, Waiting, SentWriteIsAnswered, Appended
<1>19. CASE LinkUp
  BY <1>0, <1>w, <1>19 DEF LinkUp, Waiting, SentWriteIsAnswered, Appended
<1>20. CASE Elapse
  BY <1>0, <1>w, <1>20 DEF Elapse, Waiting, SentWriteIsAnswered, Appended
<1>21. ASSUME NEW w \in Write, Expire(w)
       PROVE  SentWriteIsAnswered'
  BY <1>0, <1>w, <1>21 DEF Expire, Waiting, SentWriteIsAnswered, Appended
<1>22. CASE UNCHANGED vars
  BY <1>22 DEF vars, Waiting, SentWriteIsAnswered, Appended
<1> QED
  BY <1>1, <1>2, <1>3, <1>4, <1>5, <1>6, <1>7, <1>8, <1>9, <1>10, <1>11, <1>12, <1>13,
     <1>14, <1>15, <1>16, <1>17, <1>18, <1>19, <1>20, <1>21, <1>22
  DEF Next, Process, Caller, Stack, Link, Clock

\* Only the active write is sent, and all writes before it have left the queue.
LEMMA OrderStep ==
  ASSUME TypeOK, LoopFits, Numbered, InLine, AttemptsBounded, InOrder, [Next]_vars
  PROVE  InOrder'
<1> USE DEF NoWrite, link, history
<1>0. Write \subseteq Nat \ {0} /\ MaxAttempts \in Nat /\ \A v \in Write : v \in Int /\ 0 < v
  BY BoundsAssumption DEF Write
<1>w. Range(queue) \subseteq Write /\ \A w \in Waiting : w \in Write /\ w <= count
  BY WaitingFits
<1>1. CASE StartProcess
  BY <1>0, <1>w, <1>1 DEF StartProcess, Waiting, InOrder, Appended
<1>2. CASE Pick
  BY <1>0, <1>w, <1>2, PickQueue DEF Pick, Waiting, InOrder, Appended
<1>3. CASE NothingToDo
  BY <1>0, <1>w, <1>3 DEF NothingToDo, Waiting, InOrder, Appended
<1>4. CASE KeepWaiting
  BY <1>0, <1>w, <1>4 DEF KeepWaiting, Waiting, InOrder, Appended
<1>5. CASE GiveUpWaiting
  BY <1>0, <1>w, <1>5 DEF GiveUpWaiting, Waiting, InOrder, Appended
<1>6. CASE PrepareSend
  BY <1>0, <1>w, <1>6 DEF PrepareSend, Waiting, InOrder, Appended
<1>7. CASE NoGatt
  BY <1>0, <1>w, <1>7, FailIs DEF NoGatt, InOrder, Appended
<1>8. CASE Accept
  BY <1>0, <1>w, <1>8 DEF Accept, LoopFits, InLine, Waiting, InOrder, Appended
<1>9. CASE Busy
  BY <1>0, <1>w, <1>9, BusyQueue
  DEF Busy, EndOrRetry, EndWrite, RetryWrite, Numbered, InLine, Waiting, InOrder, Appended
<1>10. CASE StartFails
  BY <1>0, <1>w, <1>10
  DEF StartFails, EndOrRetry, EndWrite, RetryWrite, Numbered, InLine, Waiting, InOrder,
      Appended
<1>11. CASE HandleCallback
  BY <1>0, <1>w, <1>11 DEF HandleCallback, Answered, Waiting, InOrder, Appended
<1>12. ASSUME NEW c \in Char, NEW kind \in Kinds, Enqueue(c, kind)
       PROVE  InOrder'
  <2>1. /\ Range(queue') = Range(queue) \cup {count + 1} /\ count + 1 \in Write
        /\ count' = count + 1 /\ UNCHANGED <<active, sends, stack>>
    BY <1>12, EnqueueQueue DEF Enqueue
  <2>2. Waiting' = Waiting \cup {count + 1}
    BY <2>1 DEF Waiting
  <2>3. \A v \in 1 .. (count + 1) : v \in 1 .. count \/ v = count + 1
    BY DEF TypeOK
  <2>4. sends[count + 1] = 0 /\ stack # count + 1
    BY <2>1 DEF Numbered, TypeOK
  <2> QED
    BY <2>1, <2>2, <2>3, <2>4 DEF InOrder, Appended
<1>13. ASSUME NEW w \in Write, PostStart(w)
       PROVE  InOrder'
  BY <1>0, <1>w, <1>13 DEF PostStart, Waiting, InOrder, Appended
<1>14. ASSUME NEW st \in Statuses, StackAnswers(st)
       PROVE  InOrder'
  <2>1. stack' = NoWrite /\ UNCHANGED <<queue, active, count>>
    BY <1>14 DEF StackAnswers
  <2>2. \A v \in Write : v # stack => sends'[v] = sends[v]
    BY <1>14 DEF StackAnswers, TypeOK
  <2>3. Appended \subseteq Write /\ Waiting' = Waiting
    BY BoundsAssumption, <2>1 DEF TypeOK, Appended, Write, Waiting
  <2> QED
    BY <2>1, <2>2, <2>3 DEF InOrder, Appended
<1>15. CASE LinkDown
  BY <1>0, <1>w, <1>15 DEF LinkDown, Waiting, InOrder, Appended
<1>16. CASE LinkFails
  BY <1>0, <1>w, <1>16, FailIs DEF LinkFails, InOrder, Appended
<1>17. CASE DisconnectWithoutGatt
  BY <1>0, <1>w, <1>17, FailIs DEF DisconnectWithoutGatt, InOrder, Appended
<1>18. CASE ConnectGatt
  BY <1>0, <1>w, <1>18 DEF ConnectGatt, Waiting, InOrder, Appended
<1>19. CASE LinkUp
  BY <1>0, <1>w, <1>19 DEF LinkUp, Waiting, InOrder, Appended
<1>20. CASE Elapse
  BY <1>0, <1>w, <1>20 DEF Elapse, Waiting, InOrder, Appended
<1>21. ASSUME NEW w \in Write, Expire(w)
       PROVE  InOrder'
  BY <1>0, <1>w, <1>21 DEF Expire, Waiting, InOrder, Appended
<1>22. CASE UNCHANGED vars
  BY <1>22 DEF vars, Waiting, InOrder, Appended
<1> QED
  BY <1>1, <1>2, <1>3, <1>4, <1>5, <1>6, <1>7, <1>8, <1>9, <1>10, <1>11, <1>12, <1>13,
     <1>14, <1>15, <1>16, <1>17, <1>18, <1>19, <1>20, <1>21, <1>22
  DEF Next, Process, Caller, Stack, Link, Clock

-----------------------------------------------------------------------------
(* Callbacks name a characteristic, and may be taken for those of another    *)
(* write to it.                                                              *)

\* The posted callbacks of w.
CallbacksOf(w) == {k \in DOMAIN posted : posted[k].of = w}

\* A posted callback is one of a write that was appended before all that wait, unless
\* it waits itself, and one with success means that the write was delivered.
NamesFit ==
  \A k \in DOMAIN posted :
    /\ posted[k].of \in Appended
    /\ \A w \in Waiting : posted[k].of <= w
    /\ posted[k].status = "ok" => posted[k].of \in delivered

\* The looper is about to send a write that it has not sent since it took it.
SendsUnsent == current # NoWrite => ~ op[current].sent

\* The wait is over for the active write while the looper does not send it, and its
\* callback does not come any more, unless the write is marked.
ElapsedFits ==
  elapsed => /\ active # NoWrite /\ main # "send"
             /\ active \in overdue \/ ~ Owed(active)

\* The wait for its callback, or that of an earlier write to the same characteristic,
\* ended too early.
Doubtful(w) == w \in overdue \/ MayBeMistaken(w)

\* A callback that is due for a write that is not active comes too late.
LateOnes == \A w \in Write : Owed(w) /\ w # active => Doubtful(w)

\* The looper has w, or waits for it, and has not marked it as sent.
CanBeSent(w) == w \in Waiting \cup {current} /\ ~ op[w].sent

\* Of a write there is one trace at a time: it can still be sent, the stack is busy with
\* it, or its one callback is posted.
OneCallback(w) ==
  /\ CanBeSent(w) => stack # w /\ CallbacksOf(w) = {}
  /\ stack = w => CallbacksOf(w) = {}
  /\ \A j, k \in CallbacksOf(w) : j = k

\* If that is a refusal, no accepted send is left.
OneSend(w) ==
  /\ sends[w] <= 1
  /\ CanBeSent(w) => sends[w] = 0
  /\ w = active => \A k \in CallbacksOf(w) : posted[k].status # "ok" => sends[w] = 0

OneTrace(w) == OneCallback(w) /\ (op[w].withResponse => OneSend(w))

\* No callback was taken for one of w, and w is not sent again before its own.
Clean(w) == ~ MayBeMistaken(w) /\ (w \in overdue => op[w].withResponse)

OneTraceEach == \A w \in Appended : Clean(w) => OneTrace(w)

\* What is due for a write.
LEMMA OwedIs ==
  \A w : Owed(w) <=> w = stack \/ w = current \/ CallbacksOf(w) # {}
BY DEF Owed, CallbacksOf

\* The answer to a callback changes only what decides when the active write is sent.
LEMMA AnsweredKeeps ==
  ASSUME TypeOK, active \in Write, NEW st, Answered(st)
  PROVE  \A w \in Write : /\ op'[w].withResponse = op[w].withResponse /\ op'[w].skip = op[w].skip
                          /\ op'[w].char = op[w].char
                          /\ w # active => op'[w] = op[w]
<1>1. \A w \in Write : op[w] \in PendingWrite
  BY DEF TypeOK
<1>2. CASE UNCHANGED op
  BY <1>2
<1>3. CASE op' = [op EXCEPT ![active].sent = FALSE]
  BY <1>1, <1>3 DEF TypeOK, PendingWrite
<1>4. CASE op' = [op EXCEPT ![active].sent = FALSE, ![active].attempt = @ + 1]
  <2>1. \A w \in Write : w # active => op'[w] = op[w]
    BY <1>4 DEF TypeOK
  <2>2. op'[active] = [op[active] EXCEPT !.sent = FALSE, !.attempt = @ + 1]
    BY <1>4 DEF TypeOK
  <2>3. /\ op'[active].withResponse = op[active].withResponse
        /\ op'[active].skip = op[active].skip /\ op'[active].char = op[active].char
    BY <1>1, <2>2 DEF PendingWrite
  <2> QED
    BY <2>1, <2>3
<1> QED
  BY <1>2, <1>3, <1>4 DEF Answered

\* What fails all writes marks the active one, if its callback is due.
LEMMA FailMarks ==
  ASSUME FailPendingWrites
  PROVE  \A w \in Write : w = active /\ Owed(w) => w \in overdue'
BY DEF FailPendingWrites, Write, NoWrite

\* So does the end of a wait.
LEMMA ElapseMarks ==
  ASSUME Elapse
  PROVE  \A w \in Write : w = active /\ Owed(w) => w \in overdue'
BY DEF Elapse

\* A step marks writes and appends one at most; what was appended keeps its kind.
LEMMA KeptStep ==
  ASSUME TypeOK, LoopFits, Numbered, InLine, [Next]_vars
  PROVE  /\ overdue \subseteq overdue' /\ delivered \subseteq delivered'
         /\ count' \in {count, count + 1}
         /\ \A v \in Appended : /\ op'[v].char = op[v].char /\ op'[v].skip = op[v].skip
                                /\ op'[v].withResponse = op[v].withResponse
<1> DEFINE Kept == \A v \in Appended : /\ op'[v].char = op[v].char /\ op'[v].skip = op[v].skip
                                       /\ op'[v].withResponse = op[v].withResponse
<1> DEFINE Goal == /\ overdue \subseteq overdue' /\ delivered \subseteq delivered'
                   /\ count' \in {count, count + 1} /\ Kept
<1> SUFFICES Goal
  OBVIOUS
<1> USE DEF NoWrite, link, history
<1>0. Write \subseteq Nat \ {0} /\ MaxAttempts \in Nat /\ \A v \in Write : v \in Int /\ 0 < v
  BY BoundsAssumption DEF Write
<1>w. Range(queue) \subseteq Write /\ \A w \in Waiting : w \in Write /\ w <= count
  BY WaitingFits
<1>p. Appended \subseteq Write
  BY BoundsAssumption DEF TypeOK, Appended, Write
<1>1. CASE StartProcess
  BY <1>1 DEF StartProcess
<1>2. CASE Pick
  BY <1>2 DEF Pick
<1>3. CASE NothingToDo
  BY <1>3 DEF NothingToDo
<1>4. CASE KeepWaiting
  BY <1>4 DEF KeepWaiting
<1>5. CASE GiveUpWaiting
  BY <1>5 DEF GiveUpWaiting
<1>6. CASE PrepareSend
  BY <1>p, <1>6 DEF PrepareSend, TypeOK, PendingWrite
<1>7. CASE NoGatt
  <2>1. active \in Write /\ op' = [op EXCEPT ![active].sent = FALSE] /\ UNCHANGED count
    BY <1>7 DEF NoGatt, TypeOK
  <2>2. Kept
    BY <1>p, <2>1 DEF TypeOK, PendingWrite
  <2> QED
    BY <1>7, <2>1, <2>2, FailIs DEF NoGatt
<1>8. CASE Accept
  BY <1>p, <1>8 DEF Accept, TypeOK, PendingWrite
<1>9. CASE Busy
  BY <1>9 DEF Busy
<1>10. CASE StartFails
  BY <1>p, <1>10 DEF StartFails, TypeOK, PendingWrite
<1>11. CASE HandleCallback
  <2>1. CASE active = NoWrite \/ op[active].char # op[Head(posted).of].char
    BY <1>11, <2>1 DEF HandleCallback
  <2>2. CASE ~ (active = NoWrite \/ op[active].char # op[Head(posted).of].char)
    <3>1. active \in Write /\ Answered(Head(posted).status)
      BY <1>11, <2>2 DEF HandleCallback, TypeOK
    <3>2. Kept
      BY <1>p, <3>1, AnsweredKeeps
    <3> QED
      BY <1>11, <3>2 DEF HandleCallback
  <2> QED
    BY <2>1, <2>2
<1>12. ASSUME NEW c \in Char, NEW kind \in Kinds, Enqueue(c, kind)
       PROVE  Goal
  <2>1. /\ count' = count + 1 /\ UNCHANGED <<overdue, delivered>>
        /\ op' = [op EXCEPT ![count + 1] = [@ EXCEPT !.char = c,
                             !.withResponse = kind.withResponse, !.skip = kind.skip]]
    BY <1>12 DEF Enqueue, TypeOK
  <2>2. \A v \in Appended : v # count + 1
    BY DEF Appended, TypeOK
  <2> QED
    BY <1>p, <2>1, <2>2 DEF TypeOK
<1>13. ASSUME NEW w \in Write, PostStart(w)
       PROVE  Goal
  BY <1>13 DEF PostStart
<1>14. ASSUME NEW st \in Statuses, StackAnswers(st)
       PROVE  Goal
  BY <1>14 DEF StackAnswers
<1>15. CASE LinkDown
  BY <1>15 DEF LinkDown
<1>16. CASE LinkFails
  BY <1>16, FailIs DEF LinkFails
<1>17. CASE DisconnectWithoutGatt
  BY <1>17, FailIs DEF DisconnectWithoutGatt
<1>18. CASE ConnectGatt
  BY <1>18 DEF ConnectGatt
<1>19. CASE LinkUp
  BY <1>19 DEF LinkUp
<1>20. CASE Elapse
  BY <1>20 DEF Elapse
<1>21. ASSUME NEW w \in Write, Expire(w)
       PROVE  Goal
  BY <1>21 DEF Expire
<1>22. CASE UNCHANGED vars
  BY <1>22 DEF vars
<1> QED
  BY <1>1, <1>2, <1>3, <1>4, <1>5, <1>6, <1>7, <1>8, <1>9, <1>10, <1>11, <1>12, <1>13,
     <1>14, <1>15, <1>16, <1>17, <1>18, <1>19, <1>20, <1>21, <1>22
  DEF Next, Process, Caller, Stack, Link, Clock

\* What the marks say of a write that was appended, they keep saying.
LEMMA MarksKept ==
  ASSUME TypeOK, LoopFits, Numbered, InLine, [Next]_vars, NEW v \in Appended
  PROVE  /\ v \in Appended' /\ Earlier(v) \subseteq Earlier(v)'
         /\ MayBeMistaken(v) => MayBeMistaken(v)'
         /\ Doubtful(v) => Doubtful(v)'
         /\ Clean(v)' => Clean(v)
         /\ op'[v].withResponse = op[v].withResponse /\ op'[v].skip = op[v].skip
<1>1. /\ overdue \subseteq overdue' /\ count' \in {count, count + 1} /\ count \in Int
      /\ \A u \in Appended : /\ op'[u].char = op[u].char /\ op'[u].skip = op[u].skip
                             /\ op'[u].withResponse = op[u].withResponse
  BY KeptStep DEF TypeOK
<1>2. Appended \subseteq Appended'
  BY <1>1 DEF Appended
<1>3. Earlier(v) \subseteq Earlier(v)'
  BY <1>1, <1>2 DEF Earlier
<1>4. MayBeMistaken(v) => MayBeMistaken(v)'
  BY <1>1, <1>3 DEF MayBeMistaken
<1> QED
  BY <1>1, <1>2, <1>3, <1>4 DEF Doubtful, Clean

\* Only a call of writeCharacteristic adds to what waits.
LEMMA WaitingStep ==
  ASSUME TypeOK, LoopFits, Numbered, InLine, [Next]_vars
  PROVE  \A w \in Waiting' : w \in Waiting \/ (w = count + 1 /\ count' = count + 1)
<1> DEFINE Goal == \A w \in Waiting' : w \in Waiting \/ (w = count + 1 /\ count' = count + 1)
<1> SUFFICES Goal
  OBVIOUS
<1> USE DEF NoWrite, link, history
<1>0. Write \subseteq Nat \ {0} /\ MaxAttempts \in Nat /\ \A v \in Write : v \in Int /\ 0 < v
  BY BoundsAssumption DEF Write
<1>w. Range(queue) \subseteq Write /\ \A w \in Waiting : w \in Write /\ w <= count
  BY WaitingFits
<1>p. Appended \subseteq Write
  BY BoundsAssumption DEF TypeOK, Appended, Write
<1>1. CASE StartProcess
  BY <1>1 DEF StartProcess, Waiting
<1>2. CASE Pick
  BY <1>2, PickQueue DEF Pick, Waiting
<1>3. CASE NothingToDo
  BY <1>3 DEF NothingToDo, Waiting
<1>4. CASE KeepWaiting
  BY <1>4 DEF KeepWaiting, Waiting
<1>5. CASE GiveUpWaiting
  BY <1>5 DEF GiveUpWaiting, Waiting
<1>6. CASE PrepareSend
  BY <1>6 DEF PrepareSend, Waiting
<1>7. CASE NoGatt
  BY <1>7, FailIs DEF NoGatt
<1>8. CASE Accept
  BY <1>8 DEF Accept, Waiting
<1>9. CASE Busy
  BY <1>9, BusyQueue DEF Busy, EndOrRetry, EndWrite, RetryWrite, Waiting
<1>10. CASE StartFails
  BY <1>10 DEF StartFails, EndOrRetry, EndWrite, RetryWrite, Waiting
<1>11. CASE HandleCallback
  BY <1>11 DEF HandleCallback, Answered, Waiting
<1>12. ASSUME NEW c \in Char, NEW kind \in Kinds, Enqueue(c, kind)
       PROVE  Goal
  BY <1>12, EnqueueQueue DEF Enqueue, Waiting
<1>13. ASSUME NEW w \in Write, PostStart(w)
       PROVE  Goal
  BY <1>13 DEF PostStart, Waiting
<1>14. ASSUME NEW st \in Statuses, StackAnswers(st)
       PROVE  Goal
  BY <1>14 DEF StackAnswers, Waiting
<1>15. CASE LinkDown
  BY <1>15 DEF LinkDown, Waiting
<1>16. CASE LinkFails
  BY <1>16, FailIs DEF LinkFails
<1>17. CASE DisconnectWithoutGatt
  BY <1>17, FailIs DEF DisconnectWithoutGatt
<1>18. CASE ConnectGatt
  BY <1>18 DEF ConnectGatt, Waiting
<1>19. CASE LinkUp
  BY <1>19 DEF LinkUp, Waiting
<1>20. CASE Elapse
  BY <1>20 DEF Elapse, Waiting
<1>21. ASSUME NEW w \in Write, Expire(w)
       PROVE  Goal
  BY <1>21 DEF Expire, Waiting
<1>22. CASE UNCHANGED vars
  BY <1>22 DEF vars, Waiting
<1> QED
  BY <1>1, <1>2, <1>3, <1>4, <1>5, <1>6, <1>7, <1>8, <1>9, <1>10, <1>11, <1>12, <1>13,
     <1>14, <1>15, <1>16, <1>17, <1>18, <1>19, <1>20, <1>21, <1>22
  DEF Next, Process, Caller, Stack, Link, Clock

\* A callback that is posted is the last, and is of the write of the stack.
LEMMA PostedGrows ==
  ASSUME TypeOK, NEW st \in Statuses, StackAnswers(st)
  PROVE  /\ \A w \in Write : w # stack => CallbacksOf(w)' = CallbacksOf(w)
         /\ \A w \in Write : w = stack => CallbacksOf(w)' = CallbacksOf(w) \cup {Len(posted) + 1}
         /\ \A k \in DOMAIN posted : posted'[k] = posted[k]
         /\ posted'[Len(posted) + 1] = [of |-> stack, status |-> st]
         /\ \A k \in DOMAIN posted' : k \in DOMAIN posted \/ k = Len(posted) + 1
<1> DEFINE c == [of |-> stack, status |-> st]
<1>1. stack \in Write
  BY DEF StackAnswers, TypeOK
<1>2. c \in Callback
  BY <1>1 DEF Callback
<1>3. posted \in Seq(Callback) /\ posted' = Append(posted, c)
  BY DEF TypeOK, StackAnswers
<1>5. \A w : c.of = w <=> w = stack
  BY DEF c
<1> HIDE DEF c
<1>4. /\ DOMAIN posted = 1 .. Len(posted) /\ DOMAIN posted' = 1 .. (Len(posted) + 1)
      /\ Len(posted) \in Nat
      /\ \A k \in 1 .. Len(posted) : posted'[k] = posted[k]
      /\ posted'[Len(posted) + 1] = c
  BY <1>2, <1>3
<1>6. \A w \in Write : w # stack => CallbacksOf(w)' = CallbacksOf(w)
  BY <1>4, <1>5 DEF CallbacksOf
<1>7. \A w \in Write : w = stack => CallbacksOf(w)' = CallbacksOf(w) \cup {Len(posted) + 1}
  BY <1>4, <1>5 DEF CallbacksOf
<1>8. \A k \in DOMAIN posted' : k \in DOMAIN posted \/ k = Len(posted) + 1
  BY <1>4
<1> QED
  BY <1>4, <1>6, <1>7, <1>8 DEF c

\* The looper takes the first callback.
LEMMA PostedShrinks ==
  ASSUME TypeOK, HandleCallback
  PROVE  /\ \A w \in Write : 1 \in CallbacksOf(w) <=> Head(posted).of = w
         /\ \A w \in Write : \A k \in CallbacksOf(w)' :
              k + 1 \in CallbacksOf(w) /\ k + 1 # 1 /\ posted'[k] = posted[k + 1]
         /\ \A k \in DOMAIN posted' : k + 1 \in DOMAIN posted /\ posted'[k] = posted[k + 1]
         /\ Head(posted) = posted[1] /\ Head(posted) \in Callback /\ 1 \in DOMAIN posted
<1>1. posted \in Seq(Callback) /\ posted # <<>> /\ posted' = Tail(posted)
  BY DEF TypeOK, HandleCallback
<1> HIDE DEF Callback
<1>2. /\ DOMAIN posted = 1 .. Len(posted) /\ Len(posted) \in Nat \ {0}
      /\ DOMAIN posted' = 1 .. (Len(posted) - 1)
      /\ \A k \in 1 .. (Len(posted) - 1) : posted'[k] = posted[k + 1]
      /\ Head(posted) = posted[1] /\ Head(posted) \in Callback
  BY <1>1
<1>3. \A w \in Write : 1 \in CallbacksOf(w) <=> Head(posted).of = w
  BY <1>2 DEF CallbacksOf
<1>4. ASSUME NEW w \in Write, NEW k \in CallbacksOf(w)'
      PROVE  k + 1 \in CallbacksOf(w) /\ k + 1 # 1 /\ posted'[k] = posted[k + 1]
  <2>1. k \in 1 .. (Len(posted) - 1) /\ posted'[k].of = w
    BY <1>2, <1>4 DEF CallbacksOf
  <2>2. k + 1 \in 1 .. Len(posted) /\ k + 1 # 1
    BY <1>2, <2>1
  <2> QED
    BY <1>2, <2>1, <2>2 DEF CallbacksOf
<1>5. \A k \in DOMAIN posted' : k + 1 \in DOMAIN posted /\ posted'[k] = posted[k + 1]
  BY <1>2
<1>6. 1 \in DOMAIN posted
  BY <1>2
<1> QED
  BY <1>2, <1>3, <1>4, <1>5, <1>6

\* The stack posts a callback for the write that it is busy with, and success only after
\* it has delivered it.
LEMMA NamesStep ==
  ASSUME TypeOK, LoopFits, Numbered, InLine, InOrder, NamesFit, [Next]_vars
  PROVE  NamesFit'
<1>0. count \in Nat /\ stack \in Write \cup {NoWrite} /\ Appended = 1 .. count
  BY DEF TypeOK, Appended
<1>1. /\ delivered \subseteq delivered' /\ count' \in {count, count + 1}
      /\ \A w \in Waiting' : w \in Waiting \/ (w = count + 1 /\ count' = count + 1)
  BY KeptStep, WaitingStep
<1>2. Appended \subseteq Appended'
  BY <1>0, <1>1 DEF Appended
<1>3. ASSUME NEW x \in Appended, \A w \in Waiting : x <= w
      PROVE  x \in Appended' /\ \A w \in Waiting' : x <= w
  BY <1>0, <1>1, <1>2, <1>3
<1>4. CASE UNCHANGED posted
  BY <1>1, <1>3, <1>4 DEF NamesFit
<1>5. CASE HandleCallback
  BY <1>1, <1>3, <1>5, PostedShrinks DEF NamesFit
<1>6. ASSUME NEW st \in Statuses, StackAnswers(st) PROVE NamesFit'
  <2>1. stack \in Write /\ stack <= count /\ (st = "ok" => stack \in delivered')
    BY <1>6 DEF StackAnswers, TypeOK, Numbered
  <2>2. stack \in Appended
    BY <2>1 DEF Appended, Write
  <2>3. \A w \in Waiting : stack <= w
    <3>1. \A w \in Waiting : w \in Appended /\ w \in Int
      BY WaitingFits DEF Appended, Write
    <3>2. \A w \in Waiting : ~ (w < stack)
      BY <2>2, <3>1 DEF InOrder
    <3> QED
      BY <2>1, <3>1, <3>2 DEF Write
  <2>4. \A k \in DOMAIN posted : posted'[k] = posted[k]
    BY <1>6, PostedGrows
  <2>5. posted'[Len(posted) + 1] = [of |-> stack, status |-> st]
    BY <1>6, PostedGrows
  <2>6. \A k \in DOMAIN posted' : k \in DOMAIN posted \/ k = Len(posted) + 1
    BY <1>6, PostedGrows
  <2>7. stack \in Appended' /\ \A w \in Waiting' : stack <= w
    BY <1>3, <2>2, <2>3
  <2>8. ASSUME NEW k \in DOMAIN posted'
        PROVE  /\ posted'[k].of \in Appended' /\ \A w \in Waiting' : posted'[k].of <= w
               /\ posted'[k].status = "ok" => posted'[k].of \in delivered'
    <3>1. CASE k \in DOMAIN posted
      BY <1>1, <1>3, <2>4, <3>1 DEF NamesFit
    <3>2. CASE k = Len(posted) + 1
      BY <2>1, <2>5, <2>7, <3>2
    <3> QED
      BY <2>6, <3>1, <3>2
  <2> QED
    BY <2>8 DEF NamesFit
<1>7. \/ UNCHANGED posted \/ HandleCallback \/ \E st \in Statuses : StackAnswers(st)
  BY DEF Next, Process, Caller, Stack, Link, Clock, vars, StartProcess, Pick, NothingToDo,
     KeepWaiting, GiveUpWaiting, PrepareSend, NoGatt, Accept, Busy, StartFails, Enqueue,
     PostStart, LinkDown, LinkFails, DisconnectWithoutGatt, ConnectGatt, LinkUp, Elapse, Expire
<1> QED
  BY <1>4, <1>5, <1>6, <1>7

\* The looper does not send what it has marked as sent.
LEMMA SendStep ==
  ASSUME TypeOK, LoopFits, Numbered, InLine, SendsUnsent, [Next]_vars
  PROVE  SendsUnsent'
<1> USE DEF NoWrite, link, history
<1>0. Write \subseteq Nat \ {0} /\ MaxAttempts \in Nat /\ \A v \in Write : v \in Int /\ 0 < v
  BY BoundsAssumption DEF Write
<1>w. Range(queue) \subseteq Write /\ \A w \in Waiting : w \in Write /\ w <= count
  BY WaitingFits
<1>1. CASE StartProcess
  BY <1>1 DEF StartProcess, SendsUnsent
<1>2. CASE Pick
  BY <1>2, PickQueue DEF Pick, SendsUnsent
<1>3. CASE NothingToDo
  BY <1>3 DEF NothingToDo, SendsUnsent
<1>4. CASE KeepWaiting
  BY <1>4 DEF KeepWaiting, SendsUnsent
<1>5. CASE GiveUpWaiting
  BY <1>w, <1>5 DEF GiveUpWaiting, SendsUnsent
<1>6. CASE PrepareSend
  BY <1>6 DEF PrepareSend, TypeOK, SendsUnsent
<1>7. CASE NoGatt
  BY <1>7, FailIs DEF NoGatt, SendsUnsent
<1>8. CASE Accept
  BY <1>8 DEF Accept, SendsUnsent
<1>9. CASE Busy
  BY <1>0, <1>w, <1>9, BusyQueue DEF Busy, EndOrRetry, LoopFits, SendsUnsent
<1>10. CASE StartFails
  BY <1>0, <1>w, <1>10 DEF StartFails, EndOrRetry, LoopFits, SendsUnsent
<1>11. CASE HandleCallback
  BY <1>0, <1>w, <1>11 DEF HandleCallback, LoopFits, SendsUnsent
<1>12. ASSUME NEW c \in Char, NEW kind \in Kinds, Enqueue(c, kind)
       PROVE  SendsUnsent'
  <2>1. op' = [op EXCEPT ![count + 1] = [@ EXCEPT !.char = c,
                          !.withResponse = kind.withResponse, !.skip = kind.skip]]
    BY <1>12 DEF Enqueue, TypeOK
  <2>2. UNCHANGED current /\ (current # NoWrite => current # count + 1 /\ current \in Write)
    BY <1>12 DEF Enqueue, TypeOK, Numbered
  <2> QED
    BY <2>1, <2>2 DEF TypeOK, SendsUnsent
<1>13. ASSUME NEW w \in Write, PostStart(w)
       PROVE  SendsUnsent'
  BY <1>13 DEF PostStart, SendsUnsent
<1>14. ASSUME NEW st \in Statuses, StackAnswers(st)
       PROVE  SendsUnsent'
  BY <1>14 DEF StackAnswers, SendsUnsent
<1>15. CASE LinkDown
  BY <1>15 DEF LinkDown, SendsUnsent
<1>16. CASE LinkFails
  BY <1>16, FailIs DEF LinkFails, SendsUnsent
<1>17. CASE DisconnectWithoutGatt
  BY <1>17, FailIs DEF DisconnectWithoutGatt, SendsUnsent
<1>18. CASE ConnectGatt
  BY <1>18 DEF ConnectGatt, SendsUnsent
<1>19. CASE LinkUp
  BY <1>19 DEF LinkUp, SendsUnsent
<1>20. CASE Elapse
  BY <1>20 DEF Elapse, SendsUnsent
<1>21. ASSUME NEW w \in Write, Expire(w)
       PROVE  SendsUnsent'
  BY <1>21 DEF Expire, SendsUnsent
<1>22. CASE UNCHANGED vars
  BY <1>22 DEF vars, SendsUnsent
<1> QED
  BY <1>1, <1>2, <1>3, <1>4, <1>5, <1>6, <1>7, <1>8, <1>9, <1>10, <1>11, <1>12, <1>13,
     <1>14, <1>15, <1>16, <1>17, <1>18, <1>19, <1>20, <1>21, <1>22
  DEF Next, Process, Caller, Stack, Link, Clock

\* A callback is due no longer once it is handled, and a send is what makes it due.
LEMMA OwedStep ==
  ASSUME TypeOK, LoopFits, Numbered, InLine, [Next]_vars
  PROVE  \A v \in Write : Owed(v)' => Owed(v) \/ (v = active /\ current' = active)
<1> DEFINE Goal == \A v \in Write : Owed(v)' => Owed(v) \/ (v = active /\ current' = active)
<1> SUFFICES Goal
  OBVIOUS
<1> USE DEF NoWrite, link, history
<1>0. Write \subseteq Nat \ {0} /\ MaxAttempts \in Nat /\ \A v \in Write : v \in Int /\ 0 < v
  BY BoundsAssumption DEF Write
<1>w. Range(queue) \subseteq Write /\ \A w \in Waiting : w \in Write /\ w <= count
  BY WaitingFits
<1>p. Appended \subseteq Write
  BY BoundsAssumption DEF TypeOK, Appended, Write
<1>o. \A v \in Write : Owed(v)' <=> v = stack' \/ v = current' \/ CallbacksOf(v)' # {}
  BY DEF Owed, CallbacksOf
<1>q. \A v \in Write : Owed(v) <=> v = stack \/ v = current \/ CallbacksOf(v) # {}
  BY OwedIs
<1>1. CASE StartProcess
  BY <1>0, <1>o, <1>q, <1>1 DEF StartProcess, CallbacksOf
<1>2. CASE Pick
  BY <1>0, <1>o, <1>q, <1>2 DEF Pick, CallbacksOf
<1>3. CASE NothingToDo
  BY <1>0, <1>o, <1>q, <1>3 DEF NothingToDo, CallbacksOf
<1>4. CASE KeepWaiting
  BY <1>0, <1>o, <1>q, <1>4 DEF KeepWaiting, CallbacksOf
<1>5. CASE GiveUpWaiting
  BY <1>0, <1>o, <1>q, <1>5 DEF GiveUpWaiting, CallbacksOf
<1>6. CASE PrepareSend
  BY <1>0, <1>o, <1>q, <1>6 DEF PrepareSend, CallbacksOf
<1>7. CASE NoGatt
  BY <1>0, <1>o, <1>q, <1>7, FailIs DEF NoGatt, CallbacksOf
<1>8. CASE Accept
  BY <1>0, <1>o, <1>q, <1>8 DEF Accept, CallbacksOf
<1>9. CASE Busy
  BY <1>0, <1>o, <1>q, <1>9 DEF Busy, EndOrRetry, CallbacksOf
<1>10. CASE StartFails
  BY <1>0, <1>o, <1>q, <1>10 DEF StartFails, EndOrRetry, CallbacksOf
<1>11. CASE HandleCallback
  <2>1. UNCHANGED <<stack, current>>
    BY <1>11 DEF HandleCallback
  <2>2. \A v \in Write : CallbacksOf(v)' # {} => CallbacksOf(v) # {}
    BY <1>11, PostedShrinks
  <2> QED
    BY <1>o, <1>q, <2>1, <2>2
<1>12. ASSUME NEW c \in Char, NEW kind \in Kinds, Enqueue(c, kind)
       PROVE  Goal
  BY <1>0, <1>o, <1>q, <1>12 DEF Enqueue, CallbacksOf
<1>13. ASSUME NEW w \in Write, PostStart(w)
       PROVE  Goal
  BY <1>0, <1>o, <1>q, <1>13 DEF PostStart, CallbacksOf
<1>14. ASSUME NEW st \in Statuses, StackAnswers(st)
       PROVE  Goal
  <2>1. stack' = NoWrite /\ UNCHANGED current
    BY <1>14 DEF StackAnswers
  <2>2. \A v \in Write : v # stack /\ CallbacksOf(v)' # {} => CallbacksOf(v) # {}
    BY <1>14, PostedGrows
  <2> QED
    BY <1>0, <1>o, <1>q, <2>1, <2>2
<1>15. CASE LinkDown
  BY <1>0, <1>o, <1>q, <1>15 DEF LinkDown, CallbacksOf
<1>16. CASE LinkFails
  BY <1>0, <1>o, <1>q, <1>16, FailIs DEF LinkFails, CallbacksOf
<1>17. CASE DisconnectWithoutGatt
  BY <1>0, <1>o, <1>q, <1>17, FailIs DEF DisconnectWithoutGatt, CallbacksOf
<1>18. CASE ConnectGatt
  BY <1>0, <1>o, <1>q, <1>18 DEF ConnectGatt, CallbacksOf
<1>19. CASE LinkUp
  BY <1>0, <1>o, <1>q, <1>19 DEF LinkUp, CallbacksOf
<1>20. CASE Elapse
  BY <1>0, <1>o, <1>q, <1>20 DEF Elapse, CallbacksOf
<1>21. ASSUME NEW w \in Write, Expire(w)
       PROVE  Goal
  BY <1>0, <1>o, <1>q, <1>21 DEF Expire, CallbacksOf
<1>22. CASE UNCHANGED vars
  BY <1>0, <1>o, <1>q, <1>22 DEF vars, CallbacksOf
<1> QED
  BY <1>1, <1>2, <1>3, <1>4, <1>5, <1>6, <1>7, <1>8, <1>9, <1>10, <1>11, <1>12, <1>13,
     <1>14, <1>15, <1>16, <1>17, <1>18, <1>19, <1>20, <1>21, <1>22
  DEF Next, Process, Caller, Stack, Link, Clock

\* Whoever ends a wait resets it, and the looper waits for nothing while it sends.
LEMMA ElapsedStep ==
  ASSUME TypeOK, LoopFits, Numbered, InLine, SendsUnsent, ElapsedFits, [Next]_vars
  PROVE  ElapsedFits'
<1> USE DEF NoWrite, link, history
<1>0. Write \subseteq Nat \ {0} /\ MaxAttempts \in Nat /\ \A v \in Write : v \in Int /\ 0 < v
  BY BoundsAssumption DEF Write
<1>w. Range(queue) \subseteq Write /\ \A w \in Waiting : w \in Write /\ w <= count
  BY WaitingFits
<1>p. Appended \subseteq Write
  BY BoundsAssumption DEF TypeOK, Appended, Write
<1>k. overdue \subseteq overdue' /\ \A v \in Write : Owed(v)' => Owed(v) \/ (v = active /\ current' = active)
  BY KeptStep, OwedStep
<1>s. ASSUME UNCHANGED <<elapsed, active>>, elapsed => main' # "send",
             elapsed => current' # active \/ Owed(active)
      PROVE  ElapsedFits'
  <2>1. active # NoWrite => active \in Write
    BY DEF TypeOK
  <2> QED
    BY <1>k, <1>s, <2>1 DEF ElapsedFits
<1>c. current # NoWrite => Owed(current)
  BY OwedIs
<1>1. CASE StartProcess
  BY <1>s, <1>1 DEF StartProcess, ElapsedFits, LoopFits
<1>2. CASE Pick
  BY <1>s, <1>2, PickQueue DEF Pick, ElapsedFits, LoopFits
<1>3. CASE NothingToDo
  BY <1>s, <1>3 DEF NothingToDo, ElapsedFits, LoopFits
<1>4. CASE KeepWaiting
  BY <1>s, <1>4 DEF KeepWaiting, ElapsedFits, LoopFits
<1>5. CASE GiveUpWaiting
  BY <1>5 DEF GiveUpWaiting, ElapsedFits
<1>6. CASE PrepareSend
  BY <1>6 DEF PrepareSend, ElapsedFits
<1>7. CASE NoGatt
  BY <1>7, FailIs DEF NoGatt, ElapsedFits
<1>8. CASE Accept
  BY <1>8 DEF Accept, ElapsedFits
<1>9. CASE Busy
  BY <1>9 DEF Busy, ElapsedFits
<1>10. CASE StartFails
  BY <1>10 DEF StartFails, ElapsedFits
<1>11. CASE HandleCallback
  <2>1. CASE active = NoWrite \/ op[active].char # op[Head(posted).of].char
    BY <1>s, <1>11, <2>1 DEF HandleCallback, ElapsedFits, LoopFits
  <2>2. CASE ~ (active = NoWrite \/ op[active].char # op[Head(posted).of].char)
    BY <1>11, <2>2 DEF HandleCallback, Answered, ElapsedFits
  <2> QED
    BY <2>1, <2>2
<1>12. ASSUME NEW c \in Char, NEW kind \in Kinds, Enqueue(c, kind)
       PROVE  ElapsedFits'
  BY <1>s, <1>12 DEF Enqueue, ElapsedFits, LoopFits
<1>13. ASSUME NEW w \in Write, PostStart(w)
       PROVE  ElapsedFits'
  BY <1>s, <1>13 DEF PostStart, ElapsedFits, LoopFits
<1>14. ASSUME NEW st \in Statuses, StackAnswers(st)
       PROVE  ElapsedFits'
  BY <1>s, <1>14 DEF StackAnswers, ElapsedFits, LoopFits
<1>15. CASE LinkDown
  BY <1>s, <1>15 DEF LinkDown, ElapsedFits, LoopFits
<1>16. CASE LinkFails
  BY <1>16, FailIs DEF LinkFails, ElapsedFits
<1>17. CASE DisconnectWithoutGatt
  BY <1>17, FailIs DEF DisconnectWithoutGatt, ElapsedFits
<1>18. CASE ConnectGatt
  BY <1>s, <1>18 DEF ConnectGatt, ElapsedFits, LoopFits
<1>19. CASE LinkUp
  BY <1>s, <1>19 DEF LinkUp, ElapsedFits, LoopFits
<1>20. CASE Elapse
  <2>1. active \in Write /\ op[active].sent
    BY <1>20 DEF Elapse, TypeOK
  <2>7. \A w \in Write : w = active /\ Owed(w) => w \in overdue'
    BY <1>20, ElapseMarks
  <2>2. main # "send"
    BY <1>0, <2>1 DEF LoopFits, SendsUnsent
  <2>3. UNCHANGED <<main, active, current>> /\ current = NoWrite
    BY <1>20, <2>2 DEF Elapse, LoopFits
  <2>4. \A v \in Write : v = active /\ Owed(v)' => Owed(v)
    BY <1>0, <1>k, <2>1, <2>3
  <2>6. \A v \in Write : v = active' => v \in overdue' \/ ~ Owed(v)'
    BY <2>3, <2>4, <2>7
  <2>8. active' \in Write /\ main' # "send" /\ active' # NoWrite
    BY <1>0, <2>1, <2>2, <2>3
  <2>9. active' \in overdue' \/ ~ Owed(active)'
    BY <2>6, <2>8
  <2> QED
    BY <2>8, <2>9 DEF ElapsedFits
<1>21. ASSUME NEW w \in Write, Expire(w)
       PROVE  ElapsedFits'
  BY <1>s, <1>21 DEF Expire, ElapsedFits, LoopFits
<1>22. CASE UNCHANGED vars
  BY <1>s, <1>22 DEF vars, ElapsedFits, LoopFits
<1> QED
  BY <1>1, <1>2, <1>3, <1>4, <1>5, <1>6, <1>7, <1>8, <1>9, <1>10, <1>11, <1>12, <1>13,
     <1>14, <1>15, <1>16, <1>17, <1>18, <1>19, <1>20, <1>21, <1>22
  DEF Next, Process, Caller, Stack, Link, Clock

\* A callback that the active write gets instead of an earlier one comes too late for
\* that one.
LEMMA TakenForAnother ==
  ASSUME TypeOK, LoopFits, Numbered, InLine, NamesFit, LateOnes, HandleCallback, active \in Write,
         op[active].char = op[Head(posted).of].char, Head(posted).of # active
  PROVE  /\ active \in Appended /\ MayBeMistaken(active)
         /\ Head(posted).of \in Earlier(active)
         /\ Head(posted).status = "ok" => Head(posted).of \in delivered
<1> USE DEF NoWrite
<1>0. \A v \in Write : v \in Int /\ 0 < v
  BY BoundsAssumption DEF Write
<1>p. Appended \subseteq Write
  BY BoundsAssumption DEF TypeOK, Appended, Write
<1>1. /\ Head(posted) = posted[1] /\ 1 \in DOMAIN posted /\ Head(posted).of \in Appended
      /\ Head(posted).of <= active /\ active \in Waiting
      /\ Head(posted).status = "ok" => Head(posted).of \in delivered
  BY <1>0, PostedShrinks DEF NamesFit, Waiting
<1>2. active \in Appended
  BY <1>0, <1>1, WaitingFits DEF Appended, TypeOK
<1>3. PICK v \in Appended : v = Head(posted).of
  BY <1>1
<1>4. v \in Write /\ v <= active /\ v # active /\ op[v].char = op[active].char
  BY <1>p, <1>1, <1>3
<1>5. v < active
  BY <1>0, <1>4
<1>6. Owed(v)
  BY <1>1, <1>3 DEF Owed
<1>7. Doubtful(v)
  BY <1>4, <1>6 DEF LateOnes
<1>8. v \in Earlier(active)
  BY <1>3, <1>4, <1>5 DEF Earlier
<1>9. Earlier(v) \subseteq Earlier(active)
  <2>1. \A u \in Appended : u < v => u < active
    BY <1>0, <1>p, <1>5
  <2> QED
    BY <1>4, <2>1 DEF Earlier
<1>10. MayBeMistaken(active)
  BY <1>7, <1>8, <1>9 DEF Doubtful, MayBeMistaken
<1> QED
  BY <1>1, <1>2, <1>3, <1>8, <1>10

\* A write that stops to be active while its callback is due is marked, or another one
\* took its callback.
LEMMA LateStep ==
  ASSUME TypeOK, LoopFits, Numbered, InLine, NamesFit, SendsUnsent, ElapsedFits, LateOnes,
         OneTraceEach, [Next]_vars
  PROVE  LateOnes'
<1> USE DEF NoWrite, link, history
<1>0. Write \subseteq Nat \ {0} /\ MaxAttempts \in Nat /\ \A v \in Write : v \in Int /\ 0 < v
  BY BoundsAssumption DEF Write
<1>w. Range(queue) \subseteq Write /\ \A w \in Waiting : w \in Write /\ w <= count
  BY WaitingFits
<1>p. Appended \subseteq Write
  BY BoundsAssumption DEF TypeOK, Appended, Write
<1>a. \A v \in Write : Owed(v) => v \in Appended
  BY <1>0, OwedIs DEF TypeOK, Numbered, NamesFit, CallbacksOf, Appended, Write
<1>m. \A v \in Appended : Doubtful(v) => Doubtful(v)'
  BY MarksKept
<1>k. \A v \in Write : Owed(v)' => Owed(v) \/ (v = active /\ current' = active)
  BY OwedStep
<1>s. ASSUME \A v \in Write : /\ v = active /\ v # active' /\ Owed(v)' => Doubtful(v)'
                              /\ v = active /\ current' = active => active' = active
      PROVE  LateOnes'
  BY <1>a, <1>k, <1>m, <1>s DEF LateOnes
<1>t. ASSUME OneTraceEach, NEW v \in Appended, ~ Doubtful(v) PROVE OneCallback(v)
  BY <1>t DEF OneTraceEach, OneTrace, Clean, Doubtful
<1>1. CASE StartProcess
  BY <1>0, <1>s, <1>1 DEF StartProcess
<1>2. CASE Pick
  BY <1>0, <1>s, <1>2, PickQueue DEF Pick
<1>3. CASE NothingToDo
  BY <1>0, <1>s, <1>3 DEF NothingToDo
<1>4. CASE KeepWaiting
  BY <1>0, <1>s, <1>4 DEF KeepWaiting
<1>5. CASE GiveUpWaiting
  <2>1. active \in Write /\ active' = NoWrite /\ elapsed /\ UNCHANGED <<current, stack, posted, overdue>>
    BY <1>5 DEF GiveUpWaiting, TypeOK
  <2>2. \A v \in Write : Owed(v)' => Owed(v)
    BY <2>1 DEF Owed
  <2>3. Owed(active) => active \in overdue
    BY <2>1 DEF ElapsedFits
  <2>4. \A v \in Write : v = active /\ Owed(v)' => v \in overdue'
    BY <2>1, <2>2, <2>3
  <2>5. \A v \in Write : v = active /\ Owed(v)' => Doubtful(v)'
    BY <2>4 DEF Doubtful
  <2> QED
    BY <1>0, <1>s, <2>1, <2>5, <1>5 DEF GiveUpWaiting, LoopFits
<1>6. CASE PrepareSend
  BY <1>0, <1>s, <1>6 DEF PrepareSend
<1>7. CASE NoGatt
  <2>1. active' = NoWrite /\ UNCHANGED <<current, stack, posted>>
    BY <1>7, FailIs DEF NoGatt
  <2>2. \A v \in Write : v = active /\ Owed(v) => v \in overdue'
    BY <1>7, FailMarks DEF NoGatt
  <2>3. \A v \in Write : v = active /\ Owed(v)' => Doubtful(v)'
    BY <2>1, <2>2 DEF Owed, Doubtful
  <2>4. \A v \in Write : v = active => current' # v \/ Owed(v)
    BY <2>1 DEF Owed
  <2> QED
    BY <1>a, <1>k, <1>m, <2>1, <2>3, <2>4 DEF LateOnes
<1>8. CASE Accept
  BY <1>0, <1>s, <1>8 DEF Accept
<1>9. CASE Busy
  <2>1. /\ current' = NoWrite /\ current \in Write /\ UNCHANGED <<stack, posted>>
        /\ active' \in {active, NoWrite}
    BY <1>9 DEF Busy, EndOrRetry, EndWrite, RetryWrite, LoopFits, TypeOK
  <2>2. CASE active' = active
    BY <1>s, <2>2
  <2>3. CASE active' # active
    <3>1. active = current /\ active \in Write /\ active' = NoWrite
      BY <2>1, <2>3, <1>9 DEF Busy, LoopFits
    <3>2. CanBeSent(active) /\ active \in Appended
      BY <1>0, <2>1, <3>1 DEF CanBeSent, SendsUnsent, Numbered, Appended, Write, TypeOK
    <3>3. ~ Doubtful(active) => stack # active /\ CallbacksOf(active) = {}
      BY <1>t, <3>2 DEF OneCallback
    <3>4. ~ Doubtful(active) => ~ \E k \in DOMAIN posted : posted[k].of = active
      BY <3>3 DEF CallbacksOf
    <3>5. \A v \in Write : v = active /\ ~ Doubtful(active) => ~ Owed(v)'
      BY <1>0, <2>1, <3>3, <3>4 DEF Owed
    <3> QED
      BY <1>0, <1>m, <1>s, <2>1, <3>1, <3>2, <3>5
  <2> QED
    BY <2>2, <2>3
<1>10. CASE StartFails
  <2>1. /\ current' = NoWrite /\ current \in Write /\ UNCHANGED <<stack, posted>>
        /\ active' \in {active, NoWrite}
    BY <1>10 DEF StartFails, EndOrRetry, EndWrite, RetryWrite, LoopFits, TypeOK
  <2>2. CASE active' = active
    BY <1>s, <2>2
  <2>3. CASE active' # active
    <3>1. active = current /\ active \in Write /\ active' = NoWrite
      BY <2>1, <2>3, <1>10 DEF StartFails, LoopFits
    <3>2. CanBeSent(active) /\ active \in Appended
      BY <1>0, <2>1, <3>1 DEF CanBeSent, SendsUnsent, Numbered, Appended, Write, TypeOK
    <3>3. ~ Doubtful(active) => stack # active /\ CallbacksOf(active) = {}
      BY <1>t, <3>2 DEF OneCallback
    <3>4. ~ Doubtful(active) => ~ \E k \in DOMAIN posted : posted[k].of = active
      BY <3>3 DEF CallbacksOf
    <3>5. \A v \in Write : v = active /\ ~ Doubtful(active) => ~ Owed(v)'
      BY <1>0, <2>1, <3>3, <3>4 DEF Owed
    <3> QED
      BY <1>0, <1>m, <1>s, <2>1, <3>1, <3>2, <3>5
  <2> QED
    BY <2>2, <2>3
<1>11. CASE HandleCallback
  <2>1. CASE active' = active
    BY <1>s, <2>1
  <2>2. CASE active' # active
    <3>1. /\ active \in Write /\ op[active].char = op[Head(posted).of].char
          /\ active' = NoWrite /\ UNCHANGED <<current, stack, count>> /\ current = NoWrite
      BY <1>11, <2>2 DEF HandleCallback, Answered, TypeOK, LoopFits
    <3>2. /\ Head(posted) = posted[1] /\ 1 \in DOMAIN posted /\ Head(posted).of \in Appended
          /\ Head(posted).of <= active /\ active \in Appended
      BY <1>0, <1>w, <3>1, <1>11, PostedShrinks DEF NamesFit, Waiting, Appended, Write
    <3>3. CASE Head(posted).of = active
      <4>1. ASSUME NEW a \in Appended, a = active, ~ Doubtful(a) PROVE ~ Owed(a)'
        <5>1. OneCallback(a) /\ a \in Write
          BY <1>p, <1>t, <4>1
        <5>2. 1 \in CallbacksOf(a)
          BY <3>2, <3>3, <4>1 DEF CallbacksOf
        <5>3. stack # a /\ \A k \in CallbacksOf(a) : k = 1
          BY <5>1, <5>2 DEF OneCallback
        <5>4. CallbacksOf(a)' = {}
          BY <5>1, <5>3, <1>11, PostedShrinks
        <5>5. stack' # a /\ current' # a
          BY <1>0, <3>1, <5>1, <5>3
        <5> QED
          BY <5>4, <5>5 DEF Owed, CallbacksOf
      <4>2. \A v \in Write : v = active /\ Owed(v)' => Doubtful(v)'
        BY <1>m, <3>2, <4>1
      <4> QED
        BY <1>0, <1>s, <3>1, <4>2
    <3>4. CASE Head(posted).of # active
      <4>4. Doubtful(active)
        BY <1>11, <3>1, <3>4, TakenForAnother DEF Doubtful
      <4>5. \A u \in Write : u = active => Doubtful(u)'
        BY <1>m, <3>2, <4>4
      <4> QED
        BY <1>0, <1>s, <3>1, <4>5
    <3> QED
      BY <3>3, <3>4
  <2> QED
    BY <2>1, <2>2
<1>12. ASSUME NEW c \in Char, NEW kind \in Kinds, Enqueue(c, kind)
       PROVE  LateOnes'
  BY <1>0, <1>s, <1>12 DEF Enqueue
<1>13. ASSUME NEW w \in Write, PostStart(w)
       PROVE  LateOnes'
  BY <1>0, <1>s, <1>13 DEF PostStart
<1>14. ASSUME NEW st \in Statuses, StackAnswers(st)
       PROVE  LateOnes'
  BY <1>0, <1>s, <1>14 DEF StackAnswers
<1>15. CASE LinkDown
  BY <1>0, <1>s, <1>15 DEF LinkDown
<1>16. CASE LinkFails
  <2>1. active' = NoWrite /\ UNCHANGED <<current, stack, posted>>
    BY <1>16, FailIs DEF LinkFails
  <2>2. \A v \in Write : v = active /\ Owed(v) => v \in overdue'
    BY <1>16, FailMarks DEF LinkFails
  <2>3. \A v \in Write : v = active /\ Owed(v)' => Doubtful(v)'
    BY <2>1, <2>2 DEF Owed, Doubtful
  <2>4. \A v \in Write : v = active => current' # v \/ Owed(v)
    BY <2>1 DEF Owed
  <2> QED
    BY <1>a, <1>k, <1>m, <2>1, <2>3, <2>4 DEF LateOnes
<1>17. CASE DisconnectWithoutGatt
  <2>1. active' = NoWrite /\ UNCHANGED <<current, stack, posted>>
    BY <1>17, FailIs DEF DisconnectWithoutGatt
  <2>2. \A v \in Write : v = active /\ Owed(v) => v \in overdue'
    BY <1>17, FailMarks DEF DisconnectWithoutGatt
  <2>3. \A v \in Write : v = active /\ Owed(v)' => Doubtful(v)'
    BY <2>1, <2>2 DEF Owed, Doubtful
  <2>4. \A v \in Write : v = active => current' # v \/ Owed(v)
    BY <2>1 DEF Owed
  <2> QED
    BY <1>a, <1>k, <1>m, <2>1, <2>3, <2>4 DEF LateOnes
<1>18. CASE ConnectGatt
  BY <1>0, <1>s, <1>18 DEF ConnectGatt
<1>19. CASE LinkUp
  BY <1>0, <1>s, <1>19 DEF LinkUp
<1>20. CASE Elapse
  BY <1>0, <1>s, <1>20 DEF Elapse
<1>21. ASSUME NEW w \in Write, Expire(w)
       PROVE  LateOnes'
  BY <1>0, <1>s, <1>21 DEF Expire
<1>22. CASE UNCHANGED vars
  BY <1>0, <1>s, <1>22 DEF vars
<1> QED
  BY <1>1, <1>2, <1>3, <1>4, <1>5, <1>6, <1>7, <1>8, <1>9, <1>10, <1>11, <1>12, <1>13,
     <1>14, <1>15, <1>16, <1>17, <1>18, <1>19, <1>20, <1>21, <1>22
  DEF Next, Process, Caller, Stack, Link, Clock

\* The stack delivered the write, or one whose callback was taken for its own.
DeliveredFor(w) == w \in delivered \/ (MayBeMistaken(w) /\ Earlier(w) \cap delivered # {})

\* An invoke resolves on a callback with success that names its characteristic.
LEMMA ResolvedStep ==
  ASSUME TypeOK, LoopFits, Numbered, InLine, NamesFit, LateOnes, ResolvedMeansDelivered,
         [Next]_vars
  PROVE  ResolvedMeansDelivered'
<1> USE DEF NoWrite, link, history
<1>0. Write \subseteq Nat \ {0} /\ MaxAttempts \in Nat /\ \A v \in Write : v \in Int /\ 0 < v
  BY BoundsAssumption DEF Write
<1>w. Range(queue) \subseteq Write /\ \A w \in Waiting : w \in Write /\ w <= count
  BY WaitingFits
<1>p. Appended \subseteq Write
  BY BoundsAssumption DEF TypeOK, Appended, Write
<1>m. \A v \in Appended : DeliveredFor(v) => DeliveredFor(v)'
  BY KeptStep, MarksKept DEF DeliveredFor
<1>r. \A v \in Appended : outcome[v] = "resolved" /\ ~ op[v].skip => DeliveredFor(v)
  BY DEF ResolvedMeansDelivered, DeliveredFor
<1>k. \A v \in Appended : op'[v].skip = op[v].skip
  BY KeptStep
<1>s. ASSUME count' = count,
             \A v \in Write : outcome'[v] = "resolved" => outcome[v] = "resolved"
      PROVE  ResolvedMeansDelivered'
  <2>1. \A v \in Appended : outcome'[v] = "resolved" /\ ~ op'[v].skip => DeliveredFor(v)'
    BY <1>k, <1>m, <1>p, <1>r, <1>s
  <2> QED
    BY <1>s, <2>1 DEF ResolvedMeansDelivered, DeliveredFor, Appended
<1>1. CASE StartProcess
  BY <1>s, <1>1 DEF StartProcess
<1>2. CASE Pick
  BY <1>s, <1>2 DEF Pick
<1>3. CASE NothingToDo
  BY <1>s, <1>3 DEF NothingToDo
<1>4. CASE KeepWaiting
  BY <1>s, <1>4 DEF KeepWaiting
<1>5. CASE GiveUpWaiting
  BY <1>0, <1>p, <1>s, <1>5 DEF GiveUpWaiting, Answer
<1>6. CASE PrepareSend
  BY <1>s, <1>6 DEF PrepareSend
<1>7. CASE NoGatt
  BY <1>s, <1>7, FailIs DEF NoGatt
<1>8. CASE Accept
  BY <1>s, <1>8 DEF Accept
<1>9. CASE Busy
  BY <1>s, <1>9 DEF Busy, EndOrRetry, EndWrite, RetryWrite, Answer
<1>10. CASE StartFails
  BY <1>s, <1>10 DEF StartFails, EndOrRetry, EndWrite, RetryWrite, Answer
<1>11. CASE HandleCallback
  <2>1. CASE active = NoWrite \/ op[active].char # op[Head(posted).of].char
    BY <1>s, <1>11, <2>1 DEF HandleCallback
  <2>2. CASE ~ (active = NoWrite \/ op[active].char # op[Head(posted).of].char)
    <3>1. active \in Write /\ Answered(Head(posted).status) /\ UNCHANGED count
      BY <1>11, <2>2 DEF HandleCallback, TypeOK
    <3>2. \A v \in Write : outcome'[v] = "resolved" =>
            outcome[v] = "resolved" \/ (v = active /\ Head(posted).status = "ok")
      BY <3>1 DEF Answered, Answer, TypeOK
    <3>3. CASE Head(posted).of = active
      <4>1. Head(posted).status = "ok" => active \in delivered
        BY <1>11, <3>3, PostedShrinks DEF NamesFit
      <4>2. \A v \in Appended : outcome'[v] = "resolved" /\ ~ op'[v].skip => DeliveredFor(v)
        BY <1>k, <1>p, <1>r, <3>2, <4>1 DEF DeliveredFor
      <4> QED
        BY <1>m, <3>1, <4>2 DEF ResolvedMeansDelivered, DeliveredFor, Appended
    <3>4. CASE Head(posted).of # active
      <4>1. Head(posted).status = "ok" => DeliveredFor(active)
        BY <1>11, <2>2, <3>1, <3>4, TakenForAnother DEF DeliveredFor
      <4>2. \A v \in Appended : outcome'[v] = "resolved" /\ ~ op'[v].skip => DeliveredFor(v)
        BY <1>k, <1>p, <1>r, <3>2, <4>1
      <4> QED
        BY <1>m, <3>1, <4>2 DEF ResolvedMeansDelivered, DeliveredFor, Appended
    <3> QED
      BY <3>3, <3>4
  <2> QED
    BY <2>1, <2>2
<1>12. ASSUME NEW c \in Char, NEW kind \in Kinds, Enqueue(c, kind)
       PROVE  ResolvedMeansDelivered'
  <2>1. /\ count + 1 \in Write /\ count' = count + 1
        /\ op' = [op EXCEPT ![count + 1] = [@ EXCEPT !.char = c,
                             !.withResponse = kind.withResponse, !.skip = kind.skip]]
        /\ IF kind.skip THEN Answer({count + 1}, "resolved") ELSE UNCHANGED outcome
    BY <1>12, EnqueueQueue DEF Enqueue, TypeOK
  <2>2. \A v \in Appended : outcome'[v] = "resolved" /\ ~ op'[v].skip => DeliveredFor(v)'
    <3>1. \A v \in Appended : outcome'[v] = outcome[v]
      BY <1>p, <2>1 DEF Answer, TypeOK, Appended
    <3> QED
      BY <1>k, <1>m, <1>r, <3>1
  <2>3. ASSUME NEW v \in Write, v = count + 1, outcome'[v] = "resolved" PROVE op'[v].skip
    <3>1. outcome[v] = "none" /\ v > count
      BY <1>0, <2>3 DEF TypeOK, Numbered
    <3>2. op'[v] = [op[v] EXCEPT !.char = c, !.withResponse = kind.withResponse,
                                 !.skip = kind.skip]
      BY <2>1, <2>3 DEF TypeOK
    <3>3. kind.skip
      BY <2>1, <2>3, <3>1
    <3> QED
      BY <3>2, <3>3 DEF TypeOK, PendingWrite
  <2>4. \A v \in Appended' : v \in Appended \/ v = count + 1
    BY <2>1 DEF Appended, TypeOK
  <2> QED
    BY <2>1, <2>2, <2>3, <2>4 DEF ResolvedMeansDelivered, DeliveredFor
<1>13. ASSUME NEW w \in Write, PostStart(w)
       PROVE  ResolvedMeansDelivered'
  BY <1>s, <1>13 DEF PostStart
<1>14. ASSUME NEW st \in Statuses, StackAnswers(st)
       PROVE  ResolvedMeansDelivered'
  BY <1>s, <1>14 DEF StackAnswers
<1>15. CASE LinkDown
  BY <1>s, <1>15 DEF LinkDown
<1>16. CASE LinkFails
  BY <1>s, <1>16, FailIs DEF LinkFails
<1>17. CASE DisconnectWithoutGatt
  BY <1>s, <1>17, FailIs DEF DisconnectWithoutGatt
<1>18. CASE ConnectGatt
  BY <1>s, <1>18 DEF ConnectGatt
<1>19. CASE LinkUp
  BY <1>s, <1>19 DEF LinkUp
<1>20. CASE Elapse
  BY <1>s, <1>20 DEF Elapse
<1>21. ASSUME NEW w \in Write, Expire(w)
       PROVE  ResolvedMeansDelivered'
  BY <1>s, <1>21 DEF Expire
<1>22. CASE UNCHANGED vars
  BY <1>s, <1>22 DEF vars
<1> QED
  BY <1>1, <1>2, <1>3, <1>4, <1>5, <1>6, <1>7, <1>8, <1>9, <1>10, <1>11, <1>12, <1>13,
     <1>14, <1>15, <1>16, <1>17, <1>18, <1>19, <1>20, <1>21, <1>22
  DEF Next, Process, Caller, Stack, Link, Clock

\* What leaves the sends and the callbacks alone keeps the trace of a write, as long as
\* only one that could be sent becomes active or can be sent.
LEMMA TraceKept ==
  ASSUME NEW v \in Write, UNCHANGED <<sends, posted>>, stack' \in {stack, NoWrite},
         CanBeSent(v)' => CanBeSent(v), v = active' => v = active \/ CanBeSent(v)
  PROVE  /\ OneCallback(v) => OneCallback(v)'
         /\ OneSend(v) => OneSend(v)'
<1>1. CallbacksOf(v)' = CallbacksOf(v)
  BY DEF CallbacksOf
<1>2. v # NoWrite
  BY DEF Write, NoWrite
<1>3. OneCallback(v) => OneCallback(v)'
  BY <1>1, <1>2 DEF OneCallback
<1>4. OneSend(v) => OneSend(v)'
  BY <1>1, <1>2 DEF OneSend
<1> QED
  BY <1>3, <1>4

\* A send, an answer and a callback each turn one trace of a write into the next.
LEMMA TraceStep ==
  ASSUME TypeOK, LoopFits, Numbered, InLine, NamesFit, SendsUnsent, ElapsedFits, LateOnes,
         OneTraceEach, [Next]_vars
  PROVE  OneTraceEach'
<1> USE DEF NoWrite, link, history
<1>0. Write \subseteq Nat \ {0} /\ MaxAttempts \in Nat /\ \A v \in Write : v \in Int /\ 0 < v
  BY BoundsAssumption DEF Write
<1>w. Range(queue) \subseteq Write /\ \A w \in Waiting : w \in Write /\ w <= count
  BY WaitingFits
<1>p. Appended \subseteq Write
  BY BoundsAssumption DEF TypeOK, Appended, Write
<1>k. \A v \in Appended : /\ Clean(v)' => Clean(v)
                          /\ op'[v].withResponse = op[v].withResponse
  BY MarksKept
<1>e. ASSUME count' = count,
             \A v \in Appended : Clean(v) /\ OneCallback(v) /\ (op[v].withResponse => OneSend(v))
               => OneCallback(v)' /\ (op[v].withResponse => OneSend(v)')
      PROVE  OneTraceEach'
  BY <1>e, <1>k DEF OneTraceEach, OneTrace, Appended
<1>f. ASSUME UNCHANGED <<count, sends, posted>>, stack' \in {stack, NoWrite},
             \A v \in Write : /\ CanBeSent(v)' => CanBeSent(v)
                              /\ v = active' => v = active \/ CanBeSent(v)
      PROVE  OneTraceEach'
  <2>1. \A v \in Appended : (OneCallback(v) => OneCallback(v)') /\ (OneSend(v) => OneSend(v)')
    BY <1>f, <1>p, TraceKept
  <2> QED
    BY <1>e, <1>f, <2>1
<1>1. CASE StartProcess
  BY <1>0, <1>f, <1>1 DEF StartProcess, CanBeSent, Waiting
<1>2. CASE Pick
  <2>1. UNCHANGED <<op, current, count, sends, stack, posted>>
    BY <1>2 DEF Pick
  <2>2. \A v \in Write : CanBeSent(v)' => CanBeSent(v)
    BY <1>2, <2>1, PickQueue DEF CanBeSent, Waiting
  <2>3. \A v \in Write : v = active' => v = active \/ CanBeSent(v)
    BY <1>2, PickQueue DEF CanBeSent, Waiting, InLine
  <2> QED
    BY <1>f, <2>1, <2>2, <2>3
<1>3. CASE NothingToDo
  BY <1>0, <1>f, <1>3 DEF NothingToDo, CanBeSent, Waiting
<1>4. CASE KeepWaiting
  BY <1>0, <1>f, <1>4 DEF KeepWaiting, CanBeSent, Waiting
<1>5. CASE GiveUpWaiting
  BY <1>0, <1>f, <1>5 DEF GiveUpWaiting, CanBeSent, Waiting
<1>6. CASE PrepareSend
  <2>1. /\ active \in Write /\ active \in Waiting
        /\ UNCHANGED <<queue, active, count, stack, posted, sends>>
        /\ op' = [op EXCEPT ![active].sent = FALSE] /\ current' = active
        /\ op[active].sent => elapsed /\ ~ op[active].withResponse
    BY <1>6 DEF PrepareSend, MaySend, TypeOK, Waiting
  <2>2. \A v \in Write : v # active \/ ~ op[v].sent => (CanBeSent(v)' => CanBeSent(v))
    BY <2>1 DEF CanBeSent, Waiting, TypeOK
  <2>3. \A v \in Write : v # active \/ ~ op[v].sent =>
          (OneCallback(v) => OneCallback(v)') /\ (OneSend(v) => OneSend(v)')
    BY <2>1, <2>2, TraceKept
  <2>4. ASSUME NEW v \in Appended, v = active, op[v].sent, Clean(v), OneCallback(v)
        PROVE  OneCallback(v)' /\ ~ op[v].withResponse
    <3>1. elapsed /\ ~ op[v].withResponse
      BY <2>1, <2>4
    <3>2. v \notin overdue
      BY <2>4, <3>1 DEF Clean
    <3>3. ~ Owed(v)
      BY <2>4, <3>1, <3>2 DEF ElapsedFits
    <3>4. stack # v /\ CallbacksOf(v) = {}
      BY <3>3, OwedIs
    <3>5. CallbacksOf(v)' = CallbacksOf(v)
      BY <2>1 DEF CallbacksOf
    <3> QED
      BY <2>1, <3>1, <3>4, <3>5 DEF OneCallback
  <2> QED
    BY <1>e, <1>p, <2>1, <2>3, <2>4
<1>7. CASE NoGatt
  <2>1. UNCHANGED <<count, stack, posted, sends, current>> /\ current = NoWrite
    BY <1>7, FailIs DEF NoGatt, LoopFits
  <2>2. Waiting' = {} /\ active' = NoWrite
    BY <1>7, FailIs DEF NoGatt
  <2>3. \A v \in Write : ~ CanBeSent(v)' /\ v # active'
    BY <1>0, <2>1, <2>2 DEF CanBeSent
  <2> QED
    BY <1>f, <2>1, <2>3
<1>8. CASE Accept
  <2>1. /\ current \in Write /\ UNCHANGED <<queue, active, count, posted>>
        /\ current' = NoWrite
        /\ op' = [op EXCEPT ![current].sent = TRUE]
        /\ sends' = [sends EXCEPT ![current] = @ + 1]
        /\ stack = NoWrite /\ stack' = current /\ CanBeSent(current)
    BY <1>8 DEF Accept, TypeOK, LoopFits, SendsUnsent, CanBeSent
  <2>2. \A v \in Write : CanBeSent(v)' => CanBeSent(v) /\ v # current
    BY <1>0, <2>1 DEF CanBeSent, TypeOK, Waiting
  <2>3. \A v \in Write : CallbacksOf(v)' = CallbacksOf(v)
    BY <2>1 DEF CallbacksOf
  <2>4. \A v \in Write : v # current => sends'[v] = sends[v]
    BY <2>1 DEF TypeOK
  <2>5. \A v \in Write : OneCallback(v) => OneCallback(v)'
    BY <2>1, <2>2, <2>3 DEF OneCallback
  <2>6. \A v \in Write : v # current /\ OneSend(v) => OneSend(v)'
    BY <2>1, <2>2, <2>3, <2>4 DEF OneSend
  <2>7. ASSUME NEW v \in Write, v = current, OneCallback(v), OneSend(v) PROVE OneSend(v)'
    <3>1. sends'[v] = 1 /\ CallbacksOf(v)' = {}
      BY <2>1, <2>3, <2>7 DEF OneSend, OneCallback, TypeOK
    <3>2. ~ CanBeSent(v)'
      BY <2>2, <2>7
    <3> QED
      BY <3>1, <3>2 DEF OneSend
  <2> QED
    BY <1>e, <1>p, <2>1, <2>5, <2>6, <2>7
<1>9. CASE Busy
  <2>1. /\ UNCHANGED <<op, count, sends, stack, posted>> /\ active' \in {active, NoWrite}
        /\ current' = NoWrite
    BY <1>9 DEF Busy, EndOrRetry, EndWrite, RetryWrite
  <2>2. \A v \in Write : CanBeSent(v)' => CanBeSent(v)
    BY <1>0, <1>9, <2>1, BusyQueue DEF CanBeSent, Waiting
  <2> QED
    BY <1>0, <1>f, <2>1, <2>2
<1>10. CASE StartFails
  <2>1. /\ UNCHANGED <<queue, count, sends, stack, posted>>
        /\ active' \in {active, NoWrite} /\ current' = NoWrite
    BY <1>10 DEF StartFails, EndOrRetry, EndWrite, RetryWrite
  <2>2. \A v \in Write : op'[v].sent = op[v].sent
    BY <1>10 DEF StartFails, TypeOK, PendingWrite
  <2>3. \A v \in Write : CanBeSent(v)' => CanBeSent(v)
    BY <1>0, <2>1, <2>2 DEF CanBeSent, Waiting
  <2> QED
    BY <1>0, <1>f, <2>1, <2>3
<1>11. CASE HandleCallback
  <2>1. /\ UNCHANGED <<queue, current, count, sends, stack>> /\ current = NoWrite
        /\ active' \in {active, NoWrite}
        /\ \A v \in Write : v # active => op'[v] = op[v]
    <3>1. CASE active = NoWrite \/ op[active].char # op[Head(posted).of].char
      BY <1>11, <3>1 DEF HandleCallback, LoopFits
    <3>2. CASE ~ (active = NoWrite \/ op[active].char # op[Head(posted).of].char)
      <4>1. active \in Write /\ Answered(Head(posted).status)
        BY <1>11, <3>2 DEF HandleCallback, TypeOK
      <4>2. active' \in {active, NoWrite}
        BY <4>1 DEF Answered
      <4> QED
        BY <1>11, <4>1, <4>2, AnsweredKeeps DEF HandleCallback, LoopFits
    <3> QED
      BY <3>1, <3>2
  <2>2. \A v \in Write : CallbacksOf(v) = {} => CallbacksOf(v)' = {}
    BY <1>11, PostedShrinks
  <2>3. \A v \in Write : (\A j, k \in CallbacksOf(v) : j = k)
                           => \A j, k \in CallbacksOf(v)' : j = k
    <3>1. \A v \in Write : \A k \in CallbacksOf(v)' : k + 1 \in CallbacksOf(v) /\ k \in Int
      BY <1>11, PostedShrinks DEF CallbacksOf, HandleCallback
    <3> QED
      BY <3>1
  <2>4. ASSUME NEW v \in Write, v # active \/ op[v].char # op[Head(posted).of].char
        PROVE  (OneCallback(v) => OneCallback(v)') /\ (OneSend(v) => OneSend(v)')
    <3>1. op'[v] = op[v] /\ (v = active => active' = active)
      BY <1>11, <2>1, <2>4 DEF HandleCallback
    <3>2. CanBeSent(v)' => CanBeSent(v)
      BY <2>1, <3>1 DEF CanBeSent, Waiting
    <3>3. v = active' => v = active
      BY <1>0, <2>1
    <3>4. \A k \in CallbacksOf(v)' : k + 1 \in CallbacksOf(v) /\ posted'[k] = posted[k + 1]
      BY <1>11, PostedShrinks
    <3>5. OneCallback(v) => OneCallback(v)'
      BY <2>1, <2>2, <2>3, <3>2 DEF OneCallback
    <3>6. OneSend(v) => OneSend(v)'
      BY <2>1, <3>2, <3>3, <3>4 DEF OneSend
    <3> QED
      BY <3>5, <3>6
  <2>5. ASSUME NEW v \in Write, v = active, op[v].char = op[Head(posted).of].char, Clean(v),
               OneCallback(v)
        PROVE  OneCallback(v)' /\ (OneSend(v) => OneSend(v)')
    <3>1. Answered(Head(posted).status)
      BY <1>0, <1>11, <2>5 DEF HandleCallback
    <3>2. Head(posted).of = v
      BY <1>11, <2>5, TakenForAnother DEF Clean
    <3>3. 1 \in CallbacksOf(v) /\ Head(posted) = posted[1]
      BY <1>11, <3>2, PostedShrinks
    <3>4. stack # v /\ \A k \in CallbacksOf(v) : k = 1
      BY <2>5, <3>3 DEF OneCallback
    <3>5. CallbacksOf(v)' = {}
      BY <1>11, <3>4, PostedShrinks
    <3>6. CanBeSent(v)' => active' = v
      <4>1. v \notin Range(queue)
        BY <1>0, <2>5 DEF InLine
      <4> QED
        BY <1>0, <2>1, <2>5, <4>1 DEF CanBeSent, Waiting
    <3>7. active' = v => Head(posted).status # "ok"
      BY <1>0, <2>5, <3>1 DEF Answered
    <3>8. active' = v /\ OneSend(v) => sends[v] = 0
      BY <2>5, <3>3, <3>7 DEF OneSend
    <3>9. OneCallback(v)'
      BY <2>1, <3>4, <3>5 DEF OneCallback
    <3>10. OneSend(v) => OneSend(v)'
      BY <2>1, <3>5, <3>6, <3>8 DEF OneSend
    <3> QED
      BY <3>9, <3>10
  <2> QED
    BY <1>e, <1>p, <2>1, <2>4, <2>5
<1>12. ASSUME NEW c \in Char, NEW kind \in Kinds, Enqueue(c, kind)
       PROVE  OneTraceEach'
  <2>1. /\ count + 1 \in Write /\ count' = count + 1
        /\ UNCHANGED <<active, current, sends, stack, posted>>
        /\ op' = [op EXCEPT ![count + 1] = [@ EXCEPT !.char = c,
                             !.withResponse = kind.withResponse, !.skip = kind.skip]]
        /\ Range(queue') = Range(queue) \cup {count + 1}
    BY <1>12, EnqueueQueue DEF Enqueue, TypeOK
  <2>2. \A v \in Appended' : v \in Appended \/ v = count + 1
    BY <2>1 DEF Appended, TypeOK
  <2>3. \A v \in Write : v # count + 1 => (CanBeSent(v)' => CanBeSent(v))
    BY <2>1 DEF CanBeSent, Waiting, TypeOK
  <2>4. ASSUME NEW v \in Write, v = count + 1 PROVE OneTrace(v)'
    <3>1. v > count
      BY <2>4 DEF TypeOK
    <3>2. sends[v] = 0 /\ stack # v
      BY <3>1 DEF Numbered, TypeOK
    <3>3. CallbacksOf(v) = {}
      BY <3>1 DEF NamesFit, CallbacksOf, Appended, TypeOK
    <3>4. CallbacksOf(v)' = {}
      BY <2>1, <3>3 DEF CallbacksOf
    <3> QED
      BY <2>1, <3>2, <3>4 DEF OneTrace, OneCallback, OneSend
  <2>5. \A v \in Appended : v # count + 1
    BY DEF Appended, TypeOK
  <2>6. \A v \in Appended : (OneCallback(v) => OneCallback(v)') /\ (OneSend(v) => OneSend(v)')
    BY <1>p, <2>1, <2>3, <2>5, TraceKept
  <2>7. \A v \in Appended : Clean(v)' => OneTrace(v)'
    BY <1>k, <2>6 DEF OneTraceEach, OneTrace
  <2> QED
    BY <2>1, <2>2, <2>4, <2>7 DEF OneTraceEach
<1>13. ASSUME NEW w \in Write, PostStart(w)
       PROVE  OneTraceEach'
  BY <1>0, <1>f, <1>13 DEF PostStart, CanBeSent, Waiting
<1>14. ASSUME NEW st \in Statuses, StackAnswers(st)
       PROVE  OneTraceEach'
  <2>1. /\ stack \in Write /\ stack' = NoWrite
        /\ UNCHANGED <<queue, active, current, op, count>>
    BY <1>14 DEF StackAnswers, TypeOK
  <2>2. \A v \in Write : v # stack => sends'[v] = sends[v]
    BY <1>14 DEF StackAnswers, TypeOK
  <2>3. sends'[stack] = IF st = "ok" THEN sends[stack] ELSE sends[stack] - 1
    BY <1>14, <2>1 DEF StackAnswers, TypeOK
  <2>4. \A v \in Write : CanBeSent(v)' => CanBeSent(v)
    BY <2>1 DEF CanBeSent, Waiting
  <2>5. \A v \in Write : \A k \in CallbacksOf(v) : posted'[k] = posted[k]
    BY <1>14, PostedGrows DEF CallbacksOf
  <2>6. ASSUME NEW v \in Write, v # stack
        PROVE  (OneCallback(v) => OneCallback(v)') /\ (OneSend(v) => OneSend(v)')
    <3>1. CallbacksOf(v)' = CallbacksOf(v)
      BY <1>14, <2>6, PostedGrows
    <3>2. OneCallback(v) => OneCallback(v)'
      BY <1>0, <2>1, <2>4, <2>6, <3>1 DEF OneCallback
    <3>3. OneSend(v) => OneSend(v)'
      BY <2>1, <2>2, <2>4, <2>5, <2>6, <3>1 DEF OneSend
    <3> QED
      BY <3>2, <3>3
  <2>7. ASSUME NEW v \in Write, v = stack, OneCallback(v)
        PROVE  OneCallback(v)' /\ (OneSend(v) => OneSend(v)')
    <3>5. CallbacksOf(v)' = CallbacksOf(v) \cup {Len(posted) + 1}
      BY <1>14, <2>7, PostedGrows
    <3>7. posted'[Len(posted) + 1] = [of |-> stack, status |-> st]
      BY <1>14, PostedGrows
    <3>6. posted'[Len(posted) + 1].status = st
      BY <3>7
    <3>1. CallbacksOf(v)' = {Len(posted) + 1} /\ posted'[Len(posted) + 1].status = st
      BY <2>7, <3>5, <3>6 DEF OneCallback
    <3>2. ~ CanBeSent(v)'
      BY <2>4, <2>7 DEF OneCallback
    <3>3. OneCallback(v)'
      BY <1>0, <2>1, <3>1, <3>2 DEF OneCallback
    <3>4. ASSUME OneSend(v) PROVE OneSend(v)'
      <4>1. sends[v] = 1
        BY <1>0, <2>1, <2>7, <3>4 DEF OneSend, Numbered, TypeOK
      <4> QED
        BY <1>0, <2>1, <2>3, <2>7, <3>1, <3>2, <4>1 DEF OneSend
    <3> QED
      BY <3>3, <3>4
  <2> QED
    BY <1>e, <1>p, <2>1, <2>6, <2>7
<1>15. CASE LinkDown
  BY <1>0, <1>f, <1>15 DEF LinkDown, CanBeSent, Waiting
<1>16. CASE LinkFails
  <2>1. UNCHANGED <<op, count, sends, stack, posted, current>>
    BY <1>16, FailIs DEF LinkFails
  <2>2. \A v \in Write : (CanBeSent(v)' => CanBeSent(v)) /\ v # active'
    BY <1>0, <1>16, <2>1, FailIs DEF LinkFails, CanBeSent
  <2> QED
    BY <1>f, <2>1, <2>2
<1>17. CASE DisconnectWithoutGatt
  <2>1. UNCHANGED <<op, count, sends, stack, posted, current>>
    BY <1>17, FailIs DEF DisconnectWithoutGatt
  <2>2. \A v \in Write : (CanBeSent(v)' => CanBeSent(v)) /\ v # active'
    BY <1>0, <1>17, <2>1, FailIs DEF DisconnectWithoutGatt, CanBeSent
  <2> QED
    BY <1>f, <2>1, <2>2
<1>18. CASE ConnectGatt
  BY <1>0, <1>f, <1>18 DEF ConnectGatt, CanBeSent, Waiting
<1>19. CASE LinkUp
  BY <1>0, <1>f, <1>19 DEF LinkUp, CanBeSent, Waiting
<1>20. CASE Elapse
  BY <1>0, <1>f, <1>20 DEF Elapse, CanBeSent, Waiting
<1>21. ASSUME NEW w \in Write, Expire(w)
       PROVE  OneTraceEach'
  BY <1>0, <1>f, <1>21 DEF Expire, CanBeSent, Waiting
<1>22. CASE UNCHANGED vars
  BY <1>0, <1>f, <1>22 DEF vars, CanBeSent, Waiting
<1> QED
  BY <1>1, <1>2, <1>3, <1>4, <1>5, <1>6, <1>7, <1>8, <1>9, <1>10, <1>11, <1>12, <1>13,
     <1>14, <1>15, <1>16, <1>17, <1>18, <1>19, <1>20, <1>21, <1>22
  DEF Next, Process, Caller, Stack, Link, Clock

-----------------------------------------------------------------------------
(* Theorems                                                                *)

\* What is known of the callbacks that are due, and of those that were handled.
CallbacksInv ==
  /\ NamesFit /\ SendsUnsent /\ ElapsedFits /\ LateOnes /\ OneTraceEach
  /\ ResolvedMeansDelivered

\* The initial state has no write and no callback.
LEMMA InitInv ==
  ASSUME Init
  PROVE  Inv /\ CallbacksInv
<1> USE DEF Init, NoWrite
<1>1. Range(<<>>) = {} /\ Rising(<<>>) /\ DOMAIN <<>> = {}
  BY DEF Range, Rising
<1>2. MaxAttempts \in Nat /\ MaxLosses \in Nat /\ MaxWrites \in Nat
  BY BoundsAssumption
<1>3. queue \in Seq(Write) /\ posted \in Seq(Callback)
  OBVIOUS
<1>4. op \in [Write -> PendingWrite]
  BY <1>2 DEF PendingWrite
<1>5. TypeOK
  <2>1. losses \in 0 .. MaxLosses /\ count \in 0 .. MaxWrites
    BY <1>2
  <2>2. outcome \in [Write -> {"none", "resolved", "rejected"}] /\ sends \in [Write -> Nat]
    OBVIOUS
  <2> QED
    BY <1>3, <1>4, <2>1, <2>2 DEF TypeOK
<1>6. Waiting = {} /\ Appended = {}
  BY <1>1 DEF Waiting, Appended
<1>7. LoopFits /\ Numbered /\ InLine /\ AttemptsBounded /\ SomeoneLooks
  BY <1>1, <1>6 DEF LoopFits, Numbered, InLine, AttemptsBounded, SomeoneLooks
<1>8. NoStalledQueue /\ SentWriteIsAnswered /\ InOrder
  BY <1>6 DEF NoStalledQueue, SentWriteIsAnswered, InOrder
<1>9. NamesFit /\ SendsUnsent /\ ElapsedFits /\ OneTraceEach /\ ResolvedMeansDelivered
  BY <1>1, <1>6 DEF NamesFit, SendsUnsent, ElapsedFits, OneTraceEach, ResolvedMeansDelivered
<1>10. \A w \in Write : ~ Owed(w)
  BY <1>1 DEF Owed, Write
<1>11. LateOnes
  BY <1>10 DEF LateOnes
<1> QED
  BY <1>5, <1>7, <1>8, <1>9, <1>11 DEF Inv, CallbacksInv

\* The invariant is inductive.
LEMMA InvStep ==
  ASSUME Inv, [Next]_vars
  PROVE  Inv'
<1>1. TypeOK' /\ LoopFits' /\ Numbered' /\ InLine' /\ AttemptsBounded'
  BY TypeStep, LoopStep, NumberedStep, InLineStep, AttemptsStep DEF Inv
<1>2. SomeoneLooks' /\ NoStalledQueue' /\ SentWriteIsAnswered' /\ InOrder'
  BY LooksStep, StallStep, AnsweredStep, OrderStep DEF Inv
<1> QED
  BY <1>1, <1>2 DEF Inv

\* With what is known of the callbacks, it still is.
LEMMA CallbacksStep ==
  ASSUME Inv, CallbacksInv, [Next]_vars
  PROVE  CallbacksInv'
<1>1. NamesFit' /\ SendsUnsent' /\ ElapsedFits'
  BY NamesStep, SendStep, ElapsedStep DEF Inv, CallbacksInv
<1>2. LateOnes' /\ OneTraceEach' /\ ResolvedMeansDelivered'
  BY LateStep, TraceStep, ResolvedStep DEF Inv, CallbacksInv
<1> QED
  BY <1>1, <1>2 DEF CallbacksInv

\* Every state of the queue, the looper, the stack, the callers and the posted calls
\* is one of those declared; no write counts more attempts than it can make.
THEOREM WritesTypeCorrect == Spec => []TypeOK
<1>1. Inv => TypeOK
  BY DEF Inv
<1> QED
  BY <1>1, InitInv, InvStep, PTL DEF Spec

\* The queue never stands still, for any writes, answers of the stack, losses of the
\* link and callers: while a write waits, a call of processWriteQueue is posted or
\* runs, or someone is about to post one or to fail all writes.
THEOREM QueueNeverStalls == Spec => []NoStalledQueue
<1>1. Inv => NoStalledQueue
  BY DEF Inv
<1> QED
  BY <1>1, InitInv, InvStep, PTL DEF Spec

\* Whatever takes a write out of the queue answers its invoke, unless the write
\* expired before it was ever sent.
THEOREM WritesAnswered == Spec => []SentWriteIsAnswered
<1>1. Inv => SentWriteIsAnswered
  BY DEF Inv
<1> QED
  BY <1>1, InitInv, InvStep, PTL DEF Spec

\* Writes are sent in the order of the calls, whatever is sent again, refused, failed
\* or expired in between.
THEOREM WritesInOrder == Spec => []InOrder
<1>1. Inv => InOrder
  BY DEF Inv
<1> QED
  BY <1>1, InitInv, InvStep, PTL DEF Spec

\* A resolved invoke means that the stack delivered the write.  If not, it delivered an
\* earlier write to the same characteristic, and stopped to wait for the callback of such
\* a write, this one or another, before it came.
THEOREM ResolvedCorrect == Spec => []ResolvedMeansDelivered
<1>1. CallbacksInv => ResolvedMeansDelivered
  BY DEF CallbacksInv
<1> QED
  BY <1>1, InitInv, InvStep, CallbacksStep, PTL DEF Spec

\* A write with response that the stack accepted is sent again only if the stack
\* refused it, or if the code stopped to wait for the callback of an earlier write to the
\* same characteristic before it came.
THEOREM SentOnceCorrect == Spec => []WithResponseSentOnce
<1>1. CallbacksInv => WithResponseSentOnce
  BY DEF CallbacksInv, OneTraceEach, OneTrace, OneSend, Clean, WithResponseSentOnce
<1> QED
  BY <1>1, InitInv, InvStep, CallbacksStep, PTL DEF Spec
=============================================================================
