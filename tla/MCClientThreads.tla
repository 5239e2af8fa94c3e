-------------------------- MODULE MCClientThreads --------------------------
(* ClientThreads for TLC.  The two cursor detectors run the same code.      *)
EXTENDS ClientThreads, TLC

Symmetry == Permutations(CursorDetectors)
=============================================================================
