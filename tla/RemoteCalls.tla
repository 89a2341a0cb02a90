---------------------------- MODULE RemoteCalls ----------------------------
(***************************************************************************)
(* What the Android bridge promises the code above it.  A call has at most *)
(* one result: the first answer the other side gave to this very call, or  *)
(* one of the ways to end without an answer.  Only a call that succeeded   *)
(* opens a stream, which yields what the other side sent for it, in order  *)
(* and without gaps.                                                       *)
(***************************************************************************)
EXTENDS Naturals, Sequences

CONSTANTS Task, Answer, MaxEmits

VARIABLES
  given,    \* the answers the other side gave to each call, in order
  result,   \* the result of each call
  emitted,  \* how many values it sent to the stream of each call
  got       \* how many of them the stream yielded

vars == <<given, result, emitted, got>>

(* "unreached": the call never got to the other side. *)
NoAnswer == {"none", "unreached", "timeout", "abandoned"}

Init ==
  /\ given = [t \in Task |-> <<>>]
  /\ result = [t \in Task |-> "none"]
  /\ emitted = [t \in Task |-> 0]
  /\ got = [t \in Task |-> 0]

Give(t, a) ==
  /\ result[t] # "unreached"
  /\ given' = [given EXCEPT ![t] = Append(@, a)]
  /\ UNCHANGED <<result, emitted, got>>

Return(t) ==
  /\ result[t] = "none"
  /\ \/ given[t] # <<>> /\ result' = [result EXCEPT ![t] = Head(given[t])]
     \/ given[t] = <<>> /\ emitted[t] = 0 /\ result' = [result EXCEPT ![t] = "unreached"]
     \/ \E r \in {"timeout", "abandoned"} : result' = [result EXCEPT ![t] = r]
  /\ UNCHANGED <<given, emitted, got>>

Emit(t) ==
  /\ result[t] # "unreached"
  /\ emitted' = [emitted EXCEPT ![t] = @ + 1]
  /\ UNCHANGED <<given, result, got>>

Yield(t) ==
  /\ result[t] = "ok" /\ got[t] < emitted[t]
  /\ got' = [got EXCEPT ![t] = @ + 1]
  /\ UNCHANGED <<given, result, emitted>>

Next == \E t \in Task : (\E a \in Answer : Give(t, a)) \/ Return(t) \/ Emit(t) \/ Yield(t)

Spec == Init /\ [][Next]_vars
=============================================================================
