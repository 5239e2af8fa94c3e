---------------------------- MODULE ReliablePipe ----------------------------
(* What the channels of a connection promise their user: packets come out   *)
(* in the order they went in, none twice.  Counting them is enough then.    *)
EXTENDS Naturals

CONSTANT Channels

VARIABLES
  sent,  \* channel -> number of packets that went in
  got    \* channel -> number of packets that came out

Init == sent = [c \in Channels |-> 0] /\ got = [c \in Channels |-> 0]

Send(c) == sent' = [sent EXCEPT ![c] = @ + 1] /\ UNCHANGED got

\* Those that a late packet held up come out together.
Get(c) ==
  /\ \E k \in got[c] + 1 .. sent[c] : got' = [got EXCEPT ![c] = k]
  /\ UNCHANGED sent

Spec == Init /\ [][\E c \in Channels : Send(c) \/ Get(c)]_<<sent, got>>
=============================================================================
