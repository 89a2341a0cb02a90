---------------------------- MODULE MCBlecLinks ----------------------------
(* BlecLinks on small instances.                                           *)
EXTENDS BlecLinks, TLC

CONSTANTS c1, c2

Tasks == {c1, c2}
OneTask == {c1}
TaskSymmetry == Permutations(Tasks)
=============================================================================
