---------------------------- MODULE MCFrontEnds ----------------------------
(* FrontEnds on a few devices. *)
EXTENDS FrontEnds, TLC
=============================================================================
