---------------------------- MODULE MCWriteQueue ----------------------------
(* WriteQueue on small instances: writes to one characteristic, or to either *)
(* of two, which are alike.                                                  *)
EXTENDS WriteQueue, TLC
CONSTANTS c1, c2
CharsAlike == Permutations(Char)
AllKinds == [withResponse : BOOLEAN, skip : BOOLEAN]
WaitingKinds == {k \in AllKinds : ~k.skip}
=============================================================================
