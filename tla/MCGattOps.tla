----------------------------- MODULE MCGattOps -----------------------------
(* Two tasks, and up to two characteristics with the same UUID. *)
EXTENDS GattOps
CONSTANTS t1, t2, c1, c2
=============================================================================
