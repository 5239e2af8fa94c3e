----------------------------- MODULE FrameFifo -----------------------------
(* What the viewing side of the client promises about the frames it accepts *)
(* from the net: each is drawn at most once, and all in their order.        *)
EXTENDS Sequences

CONSTANT Frame  \* the frames

VARIABLES
  waiting,  \* accepted and not drawn yet
  drawn     \* drawn

vars == <<waiting, drawn>>

Init == waiting = <<>> /\ drawn = <<>>

Accept(f) ==
  /\ waiting' = Append(waiting, f)
  /\ UNCHANGED drawn

Draw ==
  /\ waiting # <<>>
  /\ waiting' = Tail(waiting)
  /\ drawn' = Append(drawn, Head(waiting))

Next == Draw \/ \E f \in Frame : Accept(f)

Spec == Init /\ [][Next]_vars
=============================================================================
