------------------------------ MODULE MCSharing ------------------------------
(* Sharing for TLC.                                                         *)
EXTENDS Sharing, TLC

Symmetry == Permutations(Viewers)
=============================================================================
