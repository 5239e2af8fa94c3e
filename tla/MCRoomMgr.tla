----------------------------- MODULE MCRoomMgr -----------------------------
(* RoomMgr for TLC: two or three users and slots, two heap blocks so that a *)
(* new room lands in the block of a deleted one.                           *)
EXTENDS RoomMgr, TLC

Symmetry == Permutations(Users) \cup Permutations(Peers) \cup Permutations(Addrs)
=============================================================================
