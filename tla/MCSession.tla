----------------------------- MODULE MCSession -----------------------------
(* Session for TLC: a streamer and a viewer client over two or three slots. *)
EXTENDS Session, TLC

\* What the last handler queued is in the channels already.
View == <<userMap, userPeer, roomList, roomMap, heap, autoRoomID, slot, peerData,
          crashed, unheard, net, down, netMsgList, session, rooms>>

\* Bound: two clients that connect once and open one window at a time, or one
\* that does as MaxLogins and MaxWindows allow while the other is away.
Once(c) == connects[c] <= 1 /\ windows[c] <= 1 /\ ~overlapped[c]
Away(c) == connects[c] = 0 /\ userID[c] = NULL /\ windows[c] = 0 /\ ~overlapped[c]
Company == (\A c \in Clients : Once(c)) \/ (\E c \in Clients : \A d \in Clients \ {c} : Away(d))

Symmetry == Permutations(Clients) \cup Permutations(Peers) \cup Permutations(Addrs)
=============================================================================
