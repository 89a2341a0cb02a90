----------------------------- MODULE MCAndroid -----------------------------
(* AndroidPeripheral on one device. *)
EXTENDS AndroidPeripheral, TLC
=============================================================================
