------------------------------ MODULE RoomMgr ------------------------------
(***************************************************************************)
(* The relay server: Server/source/Room/{RoomMgr,Room,User}.cpp, driven by *)
(* the events Network::Update delivers (Common/Network/Network.cpp).  One  *)
(* thread runs every handler, so each handler is one action.               *)
(*                                                                         *)
(* Rooms are heap objects.  m_oRoomMap keeps the address of a room for     *)
(* ever: both places that delete a room (RoomMgr.cpp:188 and :237) leave   *)
(* the map entry behind.  The model keeps addresses explicit, so that a    *)
(* stale entry may point at freed memory or at a later room that malloc    *)
(* put in the same place.                                                  *)
(*                                                                         *)
(* Abstractions: m_oClientRoomList is a set (an id is pushed once, when it *)
(* is generated); mac addresses, packet sizes and logging are left out;    *)
(* packets with a wrong size or an unknown command change no state.        *)
(***************************************************************************)
EXTENDS Naturals

CONSTANTS
  Users,       \* user ids
  Peers,       \* ENetPeer slots of the server host
  Addrs,       \* heap blocks a Room can be allocated in
  MaxRoomID,   \* 0x7FFFFFFF in GenRoomID
  BuildLimit,  \* bound: how many rooms are ever built
  NULL

RoomIDs == 1 .. MaxRoomID
Room    == [id : RoomIDs, client : Users, server : Users]

\* The modulo of GenRoomID is never reached: see the README on room id wrap.
ASSUME RoomMgrAssumption ==
  /\ NULL \notin Users \cup Peers \cup Addrs \cup Room
  /\ MaxRoomID \in Nat \ {0}
  /\ BuildLimit \in 0 .. MaxRoomID

VARIABLES
  userMap,     \* m_oUserMap: ids with a User object; users are never removed
  userPeer,    \* User::m_poENetPeer
  roomList,    \* User::m_oClientRoomList, the rooms in which the user streams
  roomMap,     \* m_oRoomMap: room id -> address
  heap,        \* address -> the live Room there, or NULL: no live Room
  autoRoomID,  \* m_nAutoRoomID
  slot,        \* ENet state of a peer slot
  peerData,    \* ENetPeer::data, the User that logged in on the slot
  sent,        \* what the last handler queued with enet_peer_send
  crashed      \* the process dereferenced a bad pointer and is gone

vars == <<userMap, userPeer, roomList, roomMap, heap, autoRoomID,
          slot, peerData, sent, crashed>>
userVars == <<userMap, userPeer, peerData, slot>>
roomVars == <<roomList, roomMap, heap, autoRoomID>>

\* A slot is asked once its LOGIN_REQ, the first packet of a connection, is in:
\* a client sends it from the connect callback and nowhere else.
Slot == {"free", "connected", "asked"}

LoginRet   == [cmd : {"LOGIN_RET"}, userid : Users, code : {0, 1}]
BuildRet   == [cmd : {"BUILD_RET"}, roomid : RoomIDs, service : {1, 2}]
UnbuildRet == [cmd : {"UNBUILD_RET"}, code : {0, 1}, roomid : RoomIDs,
               service : {0, 1, 2}]
\* via: the room whose SendToClient queued this copy, not part of the packet.
FrameSync  == [cmd : {"FRAME_SYNC"}, srv_uid : Users, via : RoomIDs]
Packet     == LoginRet \cup BuildRet \cup UnbuildRet \cup FrameSync

-----------------------------------------------------------------------------
(* Helpers of the handlers.  Each operator named ...Mutant is a plausible   *)
(* mistake in the definition that follows it: no action uses it, it only    *)
(* serves to show that a property would notice.                             *)

\* Network::Send2Client and Send2ClientRaw: a NULL peer gets nothing.
Send2Client(peer, packet) ==
  {[to |-> q, packet |-> packet] : q \in {peer} \ {NULL}}

GenRoomID(last) == (last % MaxRoomID) + 1

\* The room is created and SetBuildUser forgotten.
NewRoomMutant(id, c, s) == [id |-> id, client |-> NULL, server |-> NULL]

\* new Room followed by SetBuildUser.
NewRoom(id, c, s) == [id |-> id, client |-> c, server |-> s]

GetRoom(r) == roomMap[r]

\* The user stays logged in after the disconnect.
ClearPeerMutant(u) == userPeer

\* poUser->SetEnetPeer(NULL)
ClearPeer(u) == [userPeer EXCEPT ![u] = NULL]

\* GetRoom hands out the address of a room that was deleted.
Dangling(r) == roomMap[r] # NULL /\ heap[roomMap[r]] = NULL

\* User::RemoveClientRoomID on the list of user u.
RemoveClientRoomID(lists, u, id) == [lists EXCEPT ![u] = @ \ {id}]

\* ~Room does not tell the streamer.
ListsAfterDeleteMutant(lists, A) == lists

\* ~Room for every room of A: each takes its own id off its streamer's list.
ListsAfterDelete(lists, A) ==
  [v \in Users |-> lists[v] \ {heap[a].id : a \in {b \in A : heap[b].server = v}}]

\* The room is closed without being deleted.
HeapAfterDeleteMutant(A) == heap

\* The blocks of A are given back to the allocator.
HeapAfterDelete(A) == [a \in Addrs |-> IF a \in A THEN NULL ELSE heap[a]]

\* The frame goes back to the streamer of the room.
SendToClientMutant(r, packet, stray) ==
  Send2Client(userPeer[heap[GetRoom(r)].server], packet)

\* Room::SendToClient; a client user without a peer gets nothing.  For a room
\* that was freed the client id is whatever the block holds: any peer or none.
SendToClient(r, packet, stray) ==
  Send2Client(IF Dangling(r) THEN stray ELSE userPeer[heap[GetRoom(r)].client],
              packet)

-----------------------------------------------------------------------------
(* Events.                                                                 *)

Init ==
  /\ userMap = {}
  /\ userPeer = [u \in Users |-> NULL]
  /\ roomList = [u \in Users |-> {}]
  /\ roomMap = [r \in RoomIDs |-> NULL]
  /\ heap = [a \in Addrs |-> NULL]
  /\ autoRoomID = 0
  /\ slot = [p \in Peers |-> "free"]
  /\ peerData = [p \in Peers |-> NULL]
  /\ sent = {}
  /\ crashed = FALSE

\* ENET_EVENT_TYPE_CONNECT
OnConnect(p) ==
  /\ ~crashed /\ slot[p] = "free"
  /\ slot' = [slot EXCEPT ![p] = "connected"]
  /\ peerData' = [peerData EXCEPT ![p] = NULL]
  /\ sent' = {}
  /\ UNCHANGED <<userMap, userPeer, roomVars, crashed>>

LoginReq(p, u) ==
  /\ ~crashed /\ slot[p] = "connected"
  /\ slot' = [slot EXCEPT ![p] = "asked"]
  /\ userMap' = userMap \cup {u}
  /\ \/ /\ userPeer[u] = NULL
        /\ peerData' = [peerData EXCEPT ![p] = u]
        /\ userPeer' = [userPeer EXCEPT ![u] = p]
        /\ sent' = Send2Client(p, [cmd |-> "LOGIN_RET", userid |-> u, code |-> 0])
     \/ /\ userPeer[u] # NULL
        /\ sent' = Send2Client(p, [cmd |-> "LOGIN_RET", userid |-> u, code |-> 1])
        /\ UNCHANGED <<peerData, userPeer>>
  /\ UNCHANGED <<roomVars, crashed>>

\* A pointer that is NULL or points at freed memory is used; the packets the
\* handler queued before are never flushed.
Crash ==
  /\ crashed' = TRUE
  /\ sent' = {}
  /\ UNCHANGED <<userVars, roomVars>>

\* BUILD_REQ naming a user without User object: the handler logs the error and
\* goes on to call GetENetPeer on the NULL user (RoomMgr.cpp:156, 158).
BuildReqUnknown(p, c, s) ==
  /\ ~crashed /\ slot[p] = "asked"
  /\ ~({c, s} \subseteq userMap)
  /\ Crash

BuildReq(p, c, s) ==
  /\ ~crashed /\ slot[p] = "asked"
  /\ {c, s} \subseteq userMap
  /\ autoRoomID < BuildLimit
  /\ LET id == GenRoomID(autoRoomID) IN
     /\ \E a \in Addrs :
          /\ heap[a] = NULL
          /\ heap' = [heap EXCEPT ![a] = NewRoom(id, c, s)]
          /\ roomMap' = [roomMap EXCEPT ![id] = a]
     /\ autoRoomID' = id
     /\ roomList' = [roomList EXCEPT ![s] = @ \cup {id}]
     /\ sent' = Send2Client(userPeer[s],
                  [cmd |-> "BUILD_RET", roomid |-> id, service |-> 1])
                \cup Send2Client(userPeer[c],
                  [cmd |-> "BUILD_RET", roomid |-> id, service |-> 2])
  /\ UNCHANGED <<userVars, crashed>>

\* UNBUILD_REQ for an id never issued; service is not initialized.
UnbuildReqUnknown(p, r) ==
  /\ ~crashed /\ slot[p] = "asked"
  /\ GetRoom(r) = NULL
  /\ \E garbage \in {0, 1, 2} :
       sent' = Send2Client(p, [cmd |-> "UNBUILD_RET", code |-> 1, roomid |-> r,
                               service |-> garbage])
  /\ UNCHANGED <<userVars, roomVars, crashed>>

\* UNBUILD_REQ for an id whose entry points at freed memory: the virtual
\* destructor is called through a block the allocator has overwritten.
UnbuildReqFreed(p, r) ==
  /\ ~crashed /\ slot[p] = "asked"
  /\ Dangling(r)
  /\ Crash

\* UNBUILD_REQ that finds a live room; it need not be the room named r.
UnbuildReq(p, r) ==
  /\ ~crashed /\ slot[p] = "asked"
  /\ GetRoom(r) # NULL /\ ~Dangling(r)
  /\ LET a    == GetRoom(r)
         room == heap[a]
     IN
     /\ roomList' = ListsAfterDelete(RemoveClientRoomID(roomList, room.server, r), {a})
     /\ heap' = HeapAfterDelete({a})
     /\ sent' = Send2Client(userPeer[room.server],
                  [cmd |-> "UNBUILD_RET", code |-> 0, roomid |-> r, service |-> 1])
                \cup Send2Client(userPeer[room.client],
                  [cmd |-> "UNBUILD_RET", code |-> 0, roomid |-> r, service |-> 2])
  /\ UNCHANGED <<userVars, roomMap, autoRoomID, crashed>>

\* FRAME_SYNC is relayed to the viewer of every room on the streamer's list.
FrameSyncReq(p, u) ==
  /\ ~crashed /\ slot[p] = "asked"
  /\ \E stray \in Peers \cup {NULL} :
       sent' = UNION {SendToClient(r, [cmd |-> "FRAME_SYNC", srv_uid |-> u, via |-> r],
                                   stray) :
                        r \in {q \in roomList[u] : GetRoom(q) # NULL}}
  /\ UNCHANGED <<userVars, roomVars, crashed>>

\* ENET_EVENT_TYPE_DISCONNECT for a slot nobody logged in on.
OnDisconnectAnonymous(p) ==
  /\ ~crashed /\ slot[p] # "free"
  /\ peerData[p] = NULL
  /\ slot' = [slot EXCEPT ![p] = "free"]
  /\ sent' = {}
  /\ UNCHANGED <<userMap, userPeer, peerData, roomVars, crashed>>

\* ENET_EVENT_TYPE_DISCONNECT: the rooms the user streams to are deleted, those
\* it only views stay.  Deleting a room a second time ends the process.
OnDisconnect(p) ==
  /\ ~crashed /\ slot[p] # "free"
  /\ peerData[p] # NULL
  /\ LET u      == peerData[p]
         listed == {r \in roomList[u] : GetRoom(r) # NULL}
         A      == {GetRoom(r) : r \in {q \in listed : ~Dangling(q)}}
     IN
     /\ userPeer' = ClearPeer(u)
     /\ roomList' = ListsAfterDelete(roomList, A)
     /\ heap' = HeapAfterDelete(A)
     /\ crashed' = \/ \E r \in listed : Dangling(r)
                   \/ \E r, q \in listed : r # q /\ GetRoom(r) = GetRoom(q)
  /\ peerData' = [peerData EXCEPT ![p] = NULL]
  /\ slot' = [slot EXCEPT ![p] = "free"]
  /\ sent' = {}
  /\ UNCHANGED <<userMap, roomMap, autoRoomID>>

Next ==
  \/ \E p \in Peers :
       \/ OnConnect(p)
       \/ OnDisconnectAnonymous(p)
       \/ OnDisconnect(p)
  \/ \E p \in Peers, u \in Users : LoginReq(p, u) \/ FrameSyncReq(p, u)
  \/ \E p \in Peers, c, s \in Users : BuildReqUnknown(p, c, s) \/ BuildReq(p, c, s)
  \/ \E p \in Peers, r \in RoomIDs :
       UnbuildReqUnknown(p, r) \/ UnbuildReqFreed(p, r) \/ UnbuildReq(p, r)

Spec == Init /\ [][Next]_vars

-----------------------------------------------------------------------------
(* Properties.                                                             *)

\* Every variable has its type.
TypeOK ==
  /\ userMap \subseteq Users
  /\ userPeer \in [Users -> Peers \cup {NULL}]
  /\ roomList \in [Users -> SUBSET RoomIDs]
  /\ roomMap \in [RoomIDs -> Addrs \cup {NULL}]
  /\ heap \in [Addrs -> Room \cup {NULL}]
  /\ autoRoomID \in 0 .. MaxRoomID
  /\ slot \in [Peers -> Slot]
  /\ peerData \in [Peers -> Users \cup {NULL}]
  /\ sent \subseteq [to : Peers, packet : Packet]
  /\ crashed \in BOOLEAN

\* User::m_poENetPeer and ENetPeer::data always agree, so a packet queued for a
\* user never goes out on a slot that somebody else uses by now, and the
\* disconnect of a slot never logs off a user who is connected on another one.
PeerBinding ==
  \A p \in Peers, u \in Users :
    /\ peerData[p] = u <=> userPeer[u] = p
    /\ peerData[p] = u => slot[p] = "asked" /\ u \in userMap

\* Whatever rooms were built, closed by either side or reused by malloc, an id
\* on a streamer's list leads through the map to the live room of that id and
\* that streamer: relaying a frame never reads a deleted room.
ListedRoomsLive ==
  \A u \in Users : \A r \in roomList[u] :
    /\ roomMap[r] # NULL
    /\ heap[roomMap[r]] # NULL
    /\ heap[roomMap[r]].id = r
    /\ heap[roomMap[r]].server = u

\* No room is lost: each live room is found under its id and is on the list of
\* its streamer, so the streamer's disconnect will free it; and both of its
\* users have a User object, so the handlers' unchecked GetUser calls are safe.
LiveRoomsListed ==
  \A a \in Addrs : heap[a] # NULL =>
    /\ roomMap[heap[a].id] = a
    /\ heap[a].id \in roomList[heap[a].server]
    /\ {heap[a].client, heap[a].server} \subseteq userMap

\* The two directions together: m_oRoomMap, the streamers' lists and the heap
\* tell the same of every room that is open (RoomMgr.cpp, Room.cpp).
RoomTables == ListedRoomsLive /\ LiveRoomsListed

\* Relaying frames, logins and the teardown of a lost streamer never bring the
\* server down; a build for an unknown user or an unbuild of a room that was
\* deleted before are the only events that do.
CrashCause ==
  [][~crashed /\ crashed' =>
       \E p \in Peers :
         \/ \E c, s \in Users : BuildReqUnknown(p, c, s)
         \/ \E r \in RoomIDs : UnbuildReqFreed(p, r)]_vars

\* An unbuild that reports success ("0" is success, Protocol.h:58) closed the
\* room it reports.
UnbuildClosesNamedRoom ==
  [][\A m \in sent' :
       m.packet.cmd = "UNBUILD_RET" /\ m.packet.code = 0 =>
         \E a \in Addrs : heap[a] # NULL /\ heap[a].id = m.packet.roomid]_vars

-----------------------------------------------------------------------------
(* The server as its users see it.                                         *)

LiveRooms == {heap[a] : a \in {b \in Addrs : heap[b] # NULL}}
Delivered == {<<m.packet.srv_uid, peerData[m.to], m.packet.via>> :
                m \in {n \in sent : n.packet.cmd = "FRAME_SYNC"}}

RelayView == INSTANCE Relay WITH
  online    <- {u \in Users : userPeer[u] # NULL},
  rooms     <- LiveRooms,
  issued    <- autoRoomID,
  delivered <- Delivered,
  up        <- ~crashed

\* The records of the server, its stale map entries and its reused blocks
\* amount to the relay of module Relay: fresh room ids, frames to exactly the
\* on-line viewers of the streamer's open rooms, rooms closed one at a time or
\* with their streamer.
ImplementsRelay == RelayView!Spec
=============================================================================
