------------------------------- MODULE MCScan -------------------------------
(* Two or three tasks that scan at the same time. *)
EXTENDS Scan
CONSTANTS t1, t2, t3
=============================================================================
