------------------------------ MODULE MCBridge ------------------------------
(* A task with a stream of its own, and two that start the event pump.      *)
EXTENDS Bridge
CONSTANTS t1, p1, p2, s1
=============================================================================
