--------------------------- MODULE ConnectPromise ---------------------------
(***************************************************************************)
(* What `Handler::connect` promises its callers about the callback they    *)
(* pass: a connect that succeeded has installed it, one that failed never  *)
(* will; an installed callback is run at most once, unless a later connect *)
(* replaces it, and then never.                                            *)
(***************************************************************************)
CONSTANT CallId
VARIABLES cb, res

vars == <<cb, res>>

Init == cb = [c \in CallId |-> "idle"] /\ res = [c \in CallId |-> "none"]

Install(c) ==
  /\ cb[c] = "idle" /\ res[c] = "none"
  /\ \/ cb' = [cb EXCEPT ![c] = "armed"]
     \/ \E old \in CallId \ {c} :
          /\ cb[old] = "armed"
          /\ cb' = [d \in CallId |-> IF d = c THEN "armed" ELSE IF d = old THEN "replaced" ELSE cb[d]]
  /\ UNCHANGED res

Run(c) == cb[c] = "armed" /\ cb' = [cb EXCEPT ![c] = "run"] /\ UNCHANGED res

Succeed(c) ==
  res[c] = "none" /\ cb[c] \in {"armed", "run"} /\ res' = [res EXCEPT ![c] = "ok"] /\ UNCHANGED cb

Fail(c) == res[c] = "none" /\ cb[c] = "idle" /\ res' = [res EXCEPT ![c] = "err"] /\ UNCHANGED cb

Next == \E c \in CallId : Install(c) \/ Run(c) \/ Succeed(c) \/ Fail(c)

Spec == Init /\ [][Next]_vars
=============================================================================
