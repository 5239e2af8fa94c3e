---------------------------- MODULE MCFrameQueue ----------------------------
(* FrameQueue for TLC.  Three viewer windows, so that a window is opened    *)
(* while an older one still drains the batch; liveness forbids symmetry.    *)
EXTENDS FrameQueue, TLC
=============================================================================
