--------------------------- MODULE RoomMgrProofs ---------------------------
(***************************************************************************)
(* Safety of the relay server for any number of users, slots, heap blocks  *)
(* and room ids.                                                           *)
(***************************************************************************)
EXTENDS RoomMgr, TLAPS

\* An entry of m_oRoomMap exists only for an id that was generated, so the next
\* id is fresh: it is on no list, and its map entry is empty.
IssuedOnly == \A r \in RoomIDs : roomMap[r] # NULL => r <= autoRoomID

\* ListedRoomsLive and LiveRoomsListed need each other (deleting a room must
\* find its id on one list only) and both need IssuedOnly (a new room must not
\* take over the id of an old one).
IInv == TypeOK /\ PeerBinding /\ ListedRoomsLive /\ LiveRoomsListed /\ IssuedOnly

-----------------------------------------------------------------------------
(* Operators.                                                              *)

\* Below BuildLimit the modulo of GenRoomID has no effect: ids count up.
LEMMA GenRoomIDCounts ==
  ASSUME NEW n \in 0 .. MaxRoomID, n < BuildLimit
  PROVE  GenRoomID(n) = n + 1 /\ n + 1 \in RoomIDs
<1>1. n \in Nat /\ n < MaxRoomID /\ MaxRoomID \in Nat
  BY RoomMgrAssumption
<1>2. n % MaxRoomID = n
  BY <1>1
<1> QED
  BY <1>1, <1>2 DEF GenRoomID, RoomIDs

\* What Send2Client queues is addressed to the slot it was given.
LEMMA Send2ClientType ==
  ASSUME NEW peer \in Peers \cup {NULL}, NEW packet \in Packet
  PROVE  Send2Client(peer, packet) \subseteq [to : Peers, packet : Packet]
BY DEF Send2Client

\* Deleting rooms leaves a well-typed heap and well-typed lists behind.
LEMMA DeleteType ==
  ASSUME TypeOK, NEW A \in SUBSET Addrs, NEW lists \in [Users -> SUBSET RoomIDs]
  PROVE  /\ ListsAfterDelete(lists, A) \in [Users -> SUBSET RoomIDs]
         /\ HeapAfterDelete(A) \in [Addrs -> Room \cup {NULL}]
BY DEF TypeOK, ListsAfterDelete, HeapAfterDelete

-----------------------------------------------------------------------------
(* The type invariant.                                                     *)

\* The server starts with every record in its type.
LEMMA TypeInit == Init => TypeOK
<1> SUFFICES ASSUME Init PROVE TypeOK
  OBVIOUS
<1>1. autoRoomID \in 0 .. MaxRoomID
  BY RoomMgrAssumption DEF Init
<1>2. slot \in [Peers -> Slot] /\ sent \subseteq [to : Peers, packet : Packet]
  BY DEF Init, Slot
<1> QED
  BY <1>1, <1>2 DEF Init, TypeOK

\* Every packet and event keeps the types.
LEMMA TypeNext == TypeOK /\ [Next]_vars => TypeOK'
<1> SUFFICES ASSUME TypeOK, [Next]_vars PROVE TypeOK'
  OBVIOUS
<1> USE DEF TypeOK
<1>1. ASSUME NEW p \in Peers, OnConnect(p) PROVE TypeOK'
  BY <1>1 DEF OnConnect, Slot, roomVars
<1>2. ASSUME NEW p \in Peers, NEW u \in Users, LoginReq(p, u) PROVE TypeOK'
  <2> DEFINE ret(c) == [cmd |-> "LOGIN_RET", userid |-> u, code |-> c]
  <2>1. \A c \in {0, 1} : ret(c) \in Packet
    BY DEF Packet, LoginRet
  <2>2. sent' \subseteq [to : Peers, packet : Packet]
    BY <1>2, <2>1, Send2ClientType DEF LoginReq
  <2> QED
    BY <1>2, <2>2 DEF LoginReq, Slot, roomVars
<1>3. ASSUME Crash PROVE TypeOK'
  BY <1>3 DEF Crash, userVars, roomVars
<1>4. ASSUME NEW p \in Peers, NEW c \in Users, NEW s \in Users, BuildReq(p, c, s)
      PROVE  TypeOK'
  <2> DEFINE id == GenRoomID(autoRoomID)
             ret(n) == [cmd |-> "BUILD_RET", roomid |-> id, service |-> n]
  <2>1. id \in RoomIDs /\ id \in 0 .. MaxRoomID
    BY <1>4, GenRoomIDCounts DEF BuildReq, RoomIDs
  <2>2. ret(1) \in Packet /\ ret(2) \in Packet
    BY <2>1 DEF Packet, BuildRet
  <2>3. sent' = Send2Client(userPeer[s], ret(1)) \cup Send2Client(userPeer[c], ret(2))
    BY <1>4 DEF BuildReq
  <2>4. sent' \subseteq [to : Peers, packet : Packet]
    <3> HIDE DEF ret
    <3> QED BY <2>2, <2>3, Send2ClientType
  <2>5. NewRoom(id, c, s) \in Room
    BY <2>1 DEF NewRoom, Room
  <2> HIDE DEF id
  <2>6. /\ autoRoomID' = id
        /\ roomList' = [roomList EXCEPT ![s] = @ \cup {id}]
        /\ \E a \in Addrs : /\ heap' = [heap EXCEPT ![a] = NewRoom(id, c, s)]
                            /\ roomMap' = [roomMap EXCEPT ![id] = a]
        /\ UNCHANGED <<userVars, crashed>>
    BY <1>4 DEF BuildReq, id
  <2> QED
    BY <2>1, <2>4, <2>5, <2>6 DEF userVars
<1>5. ASSUME NEW p \in Peers, NEW r \in RoomIDs, UnbuildReqUnknown(p, r) PROVE TypeOK'
  <2>1. PICK g \in {0, 1, 2} :
          sent' = Send2Client(p, [cmd |-> "UNBUILD_RET", code |-> 1, roomid |-> r,
                                  service |-> g])
    BY <1>5 DEF UnbuildReqUnknown
  <2>2. [cmd |-> "UNBUILD_RET", code |-> 1, roomid |-> r, service |-> g] \in Packet
    BY DEF Packet, UnbuildRet
  <2>3. sent' \subseteq [to : Peers, packet : Packet]
    BY <2>1, <2>2, Send2ClientType
  <2> QED
    BY <1>5, <2>3 DEF UnbuildReqUnknown, userVars, roomVars
<1>6. ASSUME NEW p \in Peers, NEW r \in RoomIDs, UnbuildReq(p, r) PROVE TypeOK'
  <2> DEFINE a == GetRoom(r)
             ret(n) == [cmd |-> "UNBUILD_RET", code |-> 0, roomid |-> r, service |-> n]
             lists == RemoveClientRoomID(roomList, heap[a].server, r)
  <2>1. a \in Addrs /\ heap[a] \in Room
    BY <1>6 DEF UnbuildReq, GetRoom, Dangling
  <2>2. ret(1) \in Packet /\ ret(2) \in Packet
    BY DEF Packet, UnbuildRet
  <2>3. sent' = Send2Client(userPeer[heap[a].server], ret(1))
                  \cup Send2Client(userPeer[heap[a].client], ret(2))
    BY <1>6 DEF UnbuildReq
  <2>4. sent' \subseteq [to : Peers, packet : Packet]
    <3>1. heap[a].server \in Users /\ heap[a].client \in Users
      BY <2>1 DEF Room
    <3> HIDE DEF ret, a
    <3> QED BY <2>2, <2>3, <3>1, Send2ClientType
  <2>5. lists \in [Users -> SUBSET RoomIDs]
    BY <2>1 DEF RemoveClientRoomID, Room
  <2>6. /\ roomList' \in [Users -> SUBSET RoomIDs]
        /\ heap' \in [Addrs -> Room \cup {NULL}]
    <3>1. roomList' = ListsAfterDelete(lists, {a}) /\ heap' = HeapAfterDelete({a})
      BY <1>6 DEF UnbuildReq
    <3> HIDE DEF lists, a
    <3> QED BY <2>1, <2>5, <3>1, DeleteType
  <2> QED
    BY <1>6, <2>4, <2>6 DEF UnbuildReq, userVars
<1>7. ASSUME NEW p \in Peers, NEW u \in Users, FrameSyncReq(p, u) PROVE TypeOK'
  <2> DEFINE pkt(r) == [cmd |-> "FRAME_SYNC", srv_uid |-> u, via |-> r]
             listed == {q \in roomList[u] : GetRoom(q) # NULL}
  <2>1. PICK stray \in Peers \cup {NULL} :
          sent' = UNION {SendToClient(r, pkt(r), stray) : r \in listed}
    BY <1>7 DEF FrameSyncReq
  <2>2. ASSUME NEW r \in listed
        PROVE  SendToClient(r, pkt(r), stray) \subseteq [to : Peers, packet : Packet]
    <3>1. r \in RoomIDs /\ GetRoom(r) \in Addrs
      BY DEF GetRoom
    <3>2. pkt(r) \in Packet
      BY <3>1 DEF Packet, FrameSync
    <3>3. ~Dangling(r) => heap[GetRoom(r)].client \in Users
      BY <3>1 DEF Dangling, GetRoom, Room
    <3> HIDE DEF pkt
    <3> QED
      BY <3>2, <3>3, Send2ClientType DEF SendToClient
  <2>3. sent' \subseteq [to : Peers, packet : Packet]
    <3> HIDE DEF pkt, listed
    <3> QED BY <2>1, <2>2
  <2> QED
    BY <1>7, <2>3 DEF FrameSyncReq, userVars, roomVars
<1>8. ASSUME NEW p \in Peers, OnDisconnectAnonymous(p) PROVE TypeOK'
  BY <1>8 DEF OnDisconnectAnonymous, Slot, roomVars
<1>9. ASSUME NEW p \in Peers, OnDisconnect(p) PROVE TypeOK'
  <2> DEFINE u == peerData[p]
             listed == {r \in roomList[u] : GetRoom(r) # NULL}
             A == {GetRoom(r) : r \in {q \in listed : ~Dangling(q)}}
  <2>1. u \in Users
    BY <1>9 DEF OnDisconnect
  <2>2. A \in SUBSET Addrs
    BY <2>1 DEF GetRoom
  <2>3. /\ roomList' = ListsAfterDelete(roomList, A)
        /\ heap' = HeapAfterDelete(A)
        /\ userPeer' = [userPeer EXCEPT ![u] = NULL]
        /\ crashed' \in BOOLEAN
    BY <1>9 DEF OnDisconnect, ClearPeer
  <2>4. roomList' \in [Users -> SUBSET RoomIDs] /\ heap' \in [Addrs -> Room \cup {NULL}]
    <3> HIDE DEF A
    <3> QED BY <2>2, <2>3, DeleteType
  <2> HIDE DEF u, A
  <2> QED
    BY <1>9, <2>1, <2>3, <2>4 DEF OnDisconnect, Slot
<1>10. CASE UNCHANGED vars
  BY <1>10 DEF vars
<1> QED
  BY <1>1, <1>2, <1>3, <1>4, <1>5, <1>6, <1>7, <1>8, <1>9, <1>10
     DEF Next, BuildReqUnknown, UnbuildReqFreed

\* The types of the server's records hold for every number of users, slots,
\* heap blocks and room ids.
THEOREM TypeCorrect == Spec => []TypeOK
BY TypeInit, TypeNext, PTL DEF Spec

-----------------------------------------------------------------------------
(* The binding of users and slots.                                         *)

\* At the start no user and no slot refer to each other.
LEMMA BindingInit == Init => PeerBinding
BY RoomMgrAssumption DEF Init, PeerBinding

\* A login sets both references, a disconnect clears both, the rest leaves them alone.
LEMMA BindingNext == TypeOK /\ PeerBinding /\ [Next]_vars => PeerBinding'
<1> SUFFICES ASSUME TypeOK, PeerBinding, [Next]_vars PROVE PeerBinding'
  OBVIOUS
<1> USE RoomMgrAssumption DEF TypeOK, PeerBinding
<1>1. ASSUME NEW p \in Peers, OnConnect(p) PROVE PeerBinding'
  BY <1>1 DEF OnConnect
<1>2. ASSUME NEW p \in Peers, NEW u \in Users, LoginReq(p, u) PROVE PeerBinding'
  <2>1. peerData[p] = NULL
    BY <1>2 DEF LoginReq
  <2>2. CASE userPeer[u] = NULL
    BY <1>2, <2>1, <2>2 DEF LoginReq
  <2>3. CASE userPeer[u] # NULL
    BY <1>2, <2>1, <2>3 DEF LoginReq
  <2> QED
    BY <2>2, <2>3
<1>3. ASSUME UNCHANGED <<userMap, userPeer, peerData, slot>> PROVE PeerBinding'
  BY <1>3
<1>4. ASSUME NEW p \in Peers, OnDisconnectAnonymous(p) PROVE PeerBinding'
  BY <1>4 DEF OnDisconnectAnonymous
<1>5. ASSUME NEW p \in Peers, OnDisconnect(p) PROVE PeerBinding'
  <2>1. /\ userPeer' = [userPeer EXCEPT ![peerData[p]] = NULL]
        /\ peerData' = [peerData EXCEPT ![p] = NULL]
        /\ slot' = [slot EXCEPT ![p] = "free"]
        /\ userMap' = userMap
        /\ peerData[p] \in Users
    BY <1>5 DEF OnDisconnect, ClearPeer
  <2> QED
    BY <2>1
<1> QED
  BY <1>1, <1>2, <1>3, <1>4, <1>5
     DEF Next, BuildReqUnknown, BuildReq, UnbuildReqUnknown, UnbuildReqFreed,
         UnbuildReq, FrameSyncReq, Crash, userVars, vars

-----------------------------------------------------------------------------
(* The room table.                                                         *)

RoomInv == ListedRoomsLive /\ LiveRoomsListed /\ IssuedOnly

\* At the start there is no room.
LEMMA RoomInit == Init => RoomInv
BY RoomMgrAssumption DEF Init, RoomInv, ListedRoomsLive, LiveRoomsListed, IssuedOnly

\* Deleting live rooms and taking their ids off their streamers' lists keeps
\* the table consistent, although the map entries stay.
LEMMA RoomDelete ==
  ASSUME TypeOK, RoomInv, NEW A \in SUBSET Addrs, \A a \in A : heap[a] # NULL,
         roomList' = ListsAfterDelete(roomList, A),
         heap' = HeapAfterDelete(A),
         UNCHANGED <<roomMap, autoRoomID, userMap>>
  PROVE  RoomInv'
<1> USE DEF TypeOK, RoomInv
<1>1. ASSUME NEW u \in Users, NEW r \in roomList'[u]
      PROVE  /\ r \in roomList[u]
             /\ roomMap[r] \in Addrs \ A
  <2>1. r \in roomList[u] /\ \A a \in A : heap[a].server = u => heap[a].id # r
    BY <1>1 DEF ListsAfterDelete
  <2>2. roomMap[r] \in Addrs /\ heap[roomMap[r]].id = r /\ heap[roomMap[r]].server = u
    BY <2>1 DEF ListedRoomsLive
  <2> QED
    BY <2>1, <2>2
<1>2. ListedRoomsLive'
  BY <1>1 DEF ListedRoomsLive, HeapAfterDelete
<1>3. ASSUME NEW b \in Addrs, heap'[b] # NULL
      PROVE  /\ roomMap[heap[b].id] = b
             /\ heap[b].id \in roomList'[heap[b].server]
             /\ {heap[b].client, heap[b].server} \subseteq userMap
             /\ heap'[b] = heap[b]
  <2>1. b \notin A /\ heap'[b] = heap[b] /\ heap[b] # NULL /\ heap[b] \in Room
    BY <1>3 DEF HeapAfterDelete
  <2>2. \A a \in A : heap[a].id # heap[b].id
    BY <2>1 DEF LiveRoomsListed
  <2>3. heap[b].server \in Users /\ heap[b].id \in roomList[heap[b].server]
    BY <2>1 DEF LiveRoomsListed, Room
  <2>4. heap[b].id \in roomList'[heap[b].server]
    BY <2>2, <2>3 DEF ListsAfterDelete
  <2> QED
    BY <2>1, <2>4 DEF LiveRoomsListed
<1>4. LiveRoomsListed'
  BY <1>3 DEF LiveRoomsListed
<1> QED
  BY <1>2, <1>4 DEF IssuedOnly

\* A new room takes a fresh id and a block no live room is in.  An old map
\* entry may now lead to it, but none that is on a list.
LEMMA RoomBuild ==
  ASSUME TypeOK, RoomInv, NEW p \in Peers, NEW c \in Users, NEW s \in Users,
         BuildReq(p, c, s)
  PROVE  RoomInv'
<1> USE DEF TypeOK, RoomInv
<1> DEFINE id == autoRoomID + 1
<1>1. GenRoomID(autoRoomID) = id /\ id \in RoomIDs
  BY GenRoomIDCounts DEF BuildReq
<1>2. PICK a \in Addrs :
        /\ heap[a] = NULL
        /\ heap' = [heap EXCEPT ![a] = [id |-> id, client |-> c, server |-> s]]
        /\ roomMap' = [roomMap EXCEPT ![id] = a]
  BY <1>1 DEF BuildReq, NewRoom
<1>3. /\ autoRoomID' = id
      /\ roomList' = [roomList EXCEPT ![s] = @ \cup {id}]
      /\ userMap' = userMap
      /\ {c, s} \subseteq userMap
  BY <1>1 DEF BuildReq, userVars
<1>4. roomMap[id] = NULL /\ \A r \in RoomIDs : roomMap[r] # NULL => r # id /\ r <= id
  BY <1>1 DEF IssuedOnly, RoomIDs
<1> HIDE DEF id
<1>5. \A u \in Users : id \notin roomList[u]
  BY <1>4 DEF ListedRoomsLive
<1>6. \A u \in Users : \A r \in roomList[u] :
        r \in RoomIDs /\ r # id /\ roomMap[r] \in Addrs \ {a} /\ roomMap'[r] = roomMap[r]
  BY <1>1, <1>2, <1>5 DEF ListedRoomsLive
<1>7. ListedRoomsLive'
  <2> SUFFICES ASSUME NEW u \in Users, NEW r \in roomList'[u]
               PROVE  /\ roomMap'[r] # NULL
                      /\ heap'[roomMap'[r]] # NULL
                      /\ heap'[roomMap'[r]].id = r
                      /\ heap'[roomMap'[r]].server = u
    BY DEF ListedRoomsLive
  <2>1. CASE r \in roomList[u]
    <3>1. heap'[roomMap'[r]] = heap[roomMap[r]] /\ roomMap'[r] \in Addrs
      BY <1>2, <1>6, <2>1
    <3> QED
      BY <1>6, <2>1, <3>1, RoomMgrAssumption DEF ListedRoomsLive
  <2>2. CASE r \notin roomList[u]
    <3>1. u = s /\ r = id
      BY <1>3, <2>2
    <3>2. roomMap'[r] = a /\ heap'[a] = [id |-> id, client |-> c, server |-> s]
      BY <1>1, <1>2, <3>1
    <3>3. a # NULL /\ heap'[a] # NULL
      BY <1>1, <3>2, RoomMgrAssumption DEF Room
    <3> QED
      BY <3>1, <3>2, <3>3
  <2> QED
    BY <2>1, <2>2
<1>8. ASSUME NEW b \in Addrs, b # a, heap[b] # NULL
      PROVE  heap'[b] = heap[b] /\ heap[b].id # id /\ heap[b].id \in RoomIDs
  <2>1. heap[b] \in Room /\ heap'[b] = heap[b] /\ b # NULL
    BY <1>2, <1>8, RoomMgrAssumption
  <2>2. roomMap[heap[b].id] = b /\ heap[b].id \in RoomIDs
    BY <1>8, <2>1 DEF LiveRoomsListed, Room
  <2> QED
    BY <1>4, <2>1, <2>2
<1>9. LiveRoomsListed'
  <2> SUFFICES ASSUME NEW b \in Addrs, heap'[b] # NULL
               PROVE  /\ roomMap'[heap'[b].id] = b
                      /\ heap'[b].id \in roomList'[heap'[b].server]
                      /\ {heap'[b].client, heap'[b].server} \subseteq userMap'
    BY DEF LiveRoomsListed
  <2>1. CASE b = a
    BY <1>1, <1>2, <1>3, <2>1
  <2>2. CASE b # a
    <3>1. heap'[b] = heap[b] /\ heap[b] # NULL /\ heap[b] \in Room
      BY <1>2, <2>2
    <3> QED
      BY <1>1, <1>2, <1>3, <1>8, <2>2, <3>1 DEF LiveRoomsListed, Room
  <2> QED
    BY <2>1, <2>2
<1>10. IssuedOnly'
  <2>1. id \in Nat
    BY <1>1 DEF RoomIDs
  <2> QED
    BY <1>1, <1>2, <1>3, <1>4, <2>1 DEF IssuedOnly
<1> QED
  BY <1>7, <1>9, <1>10

\* Every step keeps the lists, the map and the heap of rooms consistent.
LEMMA RoomNext == TypeOK /\ RoomInv /\ [Next]_vars => RoomInv'
<1> SUFFICES ASSUME TypeOK, RoomInv, [Next]_vars PROVE RoomInv'
  OBVIOUS
<1>1. ASSUME userMap \subseteq userMap', UNCHANGED roomVars PROVE RoomInv'
  BY <1>1 DEF RoomInv, ListedRoomsLive, LiveRoomsListed, IssuedOnly, roomVars
<1>2. ASSUME NEW p \in Peers, NEW r \in RoomIDs, UnbuildReq(p, r) PROVE RoomInv'
  <2> DEFINE a == GetRoom(r)
             lists == RemoveClientRoomID(roomList, heap[a].server, r)
  <2>1. a \in Addrs /\ heap[a] \in Room
    BY <1>2 DEF UnbuildReq, GetRoom, Dangling, TypeOK
  \* The explicit removal at RoomMgr.cpp:181 takes off nothing the destructor
  \* would leave: if r is listed, its entry leads to room r itself.
  <2>2. r \in roomList[heap[a].server] => heap[a].id = r
    BY <2>1 DEF RoomInv, ListedRoomsLive, GetRoom, Room
  <2>3. ListsAfterDelete(lists, {a}) = ListsAfterDelete(roomList, {a})
    <3>1. \A v \in Users : lists[v] = IF v = heap[a].server THEN roomList[v] \ {r}
                                                             ELSE roomList[v]
      BY DEF RemoveClientRoomID, TypeOK
    <3> QED
      <4>1. \A v \in Users :
              lists[v] \ {heap[b].id : b \in {d \in {a} : heap[d].server = v}}
                = roomList[v] \ {heap[b].id : b \in {d \in {a} : heap[d].server = v}}
        <5> SUFFICES ASSUME NEW v \in Users
                     PROVE  lists[v] \ {heap[b].id : b \in {d \in {a} : heap[d].server = v}}
                              = roomList[v] \ {heap[b].id : b \in {d \in {a} : heap[d].server = v}}
          OBVIOUS
        <5>1. CASE v # heap[a].server
          BY <3>1, <5>1
        <5>2. CASE v = heap[a].server
          <6>1. {heap[b].id : b \in {d \in {a} : heap[d].server = v}} = {heap[a].id}
            BY <5>2
          <6>2. lists[v] = roomList[v] \ {r}
            BY <3>1, <5>2
          <6> QED
            BY <2>2, <5>2, <6>1, <6>2
        <5> QED
          BY <5>1, <5>2
      <4> HIDE DEF lists, a
      <4> QED
        BY <4>1 DEF ListsAfterDelete
  <2>4. /\ roomList' = ListsAfterDelete(roomList, {a})
        /\ heap' = HeapAfterDelete({a})
        /\ UNCHANGED <<roomMap, autoRoomID, userMap>>
    BY <1>2, <2>3 DEF UnbuildReq, userVars
  <2>5. \A b \in {a} : heap[b] # NULL
    BY <1>2 DEF UnbuildReq, Dangling, GetRoom
  <2> HIDE DEF a
  <2> QED
    BY <2>1, <2>4, <2>5, RoomDelete
<1>3. ASSUME NEW p \in Peers, OnDisconnect(p) PROVE RoomInv'
  <2> DEFINE listed == {r \in roomList[peerData[p]] : GetRoom(r) # NULL}
             A == {GetRoom(r) : r \in {q \in listed : ~Dangling(q)}}
  <2>1. /\ roomList' = ListsAfterDelete(roomList, A)
        /\ heap' = HeapAfterDelete(A)
        /\ UNCHANGED <<roomMap, autoRoomID, userMap>>
    BY <1>3 DEF OnDisconnect
  <2>2. A \in SUBSET Addrs /\ \A a \in A : heap[a] # NULL
    BY <1>3 DEF OnDisconnect, GetRoom, Dangling, TypeOK
  <2> HIDE DEF A
  <2> QED
    BY <2>1, <2>2, RoomDelete
<1>4. ASSUME NEW p \in Peers, NEW c \in Users, NEW s \in Users, BuildReq(p, c, s)
      PROVE  RoomInv'
  BY <1>4, RoomBuild
<1> QED
  BY <1>1, <1>2, <1>3, <1>4
     DEF Next, OnConnect, OnDisconnectAnonymous, LoginReq, FrameSyncReq,
         BuildReqUnknown, UnbuildReqUnknown, UnbuildReqFreed, Crash, userVars, vars,
         roomVars

-----------------------------------------------------------------------------
(* The theorems.                                                           *)

\* The inductive invariant holds throughout.
LEMMA Invariance == Spec => []IInv
<1>1. Init => IInv
  BY TypeInit, BindingInit, RoomInit DEF IInv, RoomInv
<1>2. IInv /\ [Next]_vars => IInv'
  BY TypeNext, BindingNext, RoomNext DEF IInv, RoomInv
<1> QED
  BY <1>1, <1>2, PTL DEF Spec

\* User and peer slot always point at each other: no frame or reply leaves on a
\* slot that changed hands, no disconnect logs off the wrong user.
THEOREM PeerBindingHolds == Spec => []PeerBinding
BY Invariance, PTL DEF IInv

\* Every id on a streamer's list leads to the live room of that id and that
\* streamer, whatever blocks the allocator reuses.
THEOREM ListedRoomsLiveHolds == Spec => []ListedRoomsLive
BY Invariance, PTL DEF IInv

\* No live room is ever off its streamer's list or out of the map.
THEOREM LiveRoomsListedHolds == Spec => []LiveRoomsListed
BY Invariance, PTL DEF IInv

\* The map of rooms and the streamers' lists say the same: every id listed is
\* a live room of that streamer, every live room is listed (RoomMgr.cpp:31, 51, 152).
THEOREM RoomTablesHold == Spec => []RoomTables
<1>1. ListedRoomsLive /\ LiveRoomsListed => RoomTables  BY DEF RoomTables
<1> QED  BY <1>1, ListedRoomsLiveHolds, LiveRoomsListedHolds, PTL

\* Only a build for an unknown user and an unbuild of a deleted room crash the
\* server.
THEOREM CrashCauseHolds == Spec => CrashCause
<1> DEFINE Cause == ~crashed /\ crashed' =>
             \E p \in Peers :
               \/ \E c, s \in Users : BuildReqUnknown(p, c, s)
               \/ \E r \in RoomIDs : UnbuildReqFreed(p, r)
<1>1. IInv /\ [Next]_vars => [Cause]_vars
  <2> SUFFICES ASSUME IInv, Next, ~crashed, crashed'
               PROVE  \E p \in Peers :
                        \/ \E c, s \in Users : BuildReqUnknown(p, c, s)
                        \/ \E r \in RoomIDs : UnbuildReqFreed(p, r)
    OBVIOUS
  <2>1. ASSUME NEW p \in Peers, OnDisconnect(p) PROVE FALSE
    <3> DEFINE u == peerData[p]
    <3>1. u \in Users /\ roomList[u] \subseteq RoomIDs
      BY <2>1 DEF OnDisconnect, IInv, TypeOK
    <3>2. PICK r \in roomList[u], q \in roomList[u] :
            \/ Dangling(r)
            \/ r # q /\ GetRoom(r) = GetRoom(q)
      BY <2>1 DEF OnDisconnect
    <3> QED
      BY <3>1, <3>2 DEF IInv, ListedRoomsLive, Dangling, GetRoom
  <2> QED
    BY <2>1 DEF Next, OnConnect, OnDisconnectAnonymous, LoginReq, FrameSyncReq,
                BuildReq, UnbuildReqUnknown, UnbuildReq
<1> QED
  BY <1>1, Invariance, PTL DEF Spec, CrashCause

-----------------------------------------------------------------------------
(* Refinement: the server implements module Relay.                         *)

Online == {u \in Users : userPeer[u] # NULL}

\* The server's first state is the relay's.
LEMMA RelayInit == Init => RelayView!Init
BY DEF Init, RelayView!Init, LiveRooms, Delivered

\* Replies are not frames: a step that queues only replies delivers nothing.
LEMMA RepliesDeliverNothing ==
  ASSUME \A m \in sent' : m.packet.cmd # "FRAME_SYNC"
  PROVE  Delivered' = {}
BY DEF Delivered

\* A packet is queued as it is, and only for a connected user.
LEMMA ReplyCmd ==
  ASSUME NEW peer, NEW packet, NEW m \in Send2Client(peer, packet)
  PROVE  m.packet = packet /\ m.to = peer /\ peer # NULL
BY DEF Send2Client

\* A step that leaves users, rooms and ids alone and queues no frame.
LEMMA RefuseStep ==
  ASSUME ~crashed, ~crashed', UNCHANGED <<userPeer, heap, autoRoomID>>, Delivered' = {}
  PROVE  RelayView!Refuse
BY DEF RelayView!Refuse, LiveRooms

\* An accepted build opens one room between the two users it names.
LEMMA BuildStep ==
  ASSUME IInv, NEW p \in Peers, NEW c \in Users, NEW s \in Users, BuildReq(p, c, s)
  PROVE  RelayView!Open(c, s)
<1> DEFINE id == autoRoomID + 1
           new == [id |-> id, client |-> c, server |-> s]
<1>1. GenRoomID(autoRoomID) = id /\ id \in RoomIDs
  BY GenRoomIDCounts DEF BuildReq, IInv, TypeOK
<1>2. PICK a \in Addrs : heap[a] = NULL /\ heap' = [heap EXCEPT ![a] = new]
  BY <1>1 DEF BuildReq, NewRoom
<1>3. /\ autoRoomID' = id /\ userPeer' = userPeer
      /\ ~crashed /\ ~crashed'
      /\ autoRoomID < MaxRoomID
  BY <1>1, RoomMgrAssumption DEF BuildReq, userVars, RoomIDs, IInv, TypeOK
<1>4. Delivered' = {}
  <2>1. \A m \in sent' : m.packet.cmd = "BUILD_RET"
    BY ReplyCmd DEF BuildReq
  <2> QED
    BY <2>1, RepliesDeliverNothing
<1>5. new # NULL
  BY <1>1, RoomMgrAssumption DEF Room
<1>6. LiveRooms' = LiveRooms \cup {new}
  <2> HIDE DEF new
  <2>1. heap'[a] = new /\ \A b \in Addrs \ {a} : heap'[b] = heap[b]
    BY <1>2 DEF IInv, TypeOK
  <2> QED
    BY <1>2, <1>5, <2>1 DEF LiveRooms
<1> QED
  BY <1>3, <1>4, <1>6 DEF RelayView!Open

\* Deleting the live rooms of A removes exactly them from the set of open rooms,
\* for no two blocks hold rooms of the same id.
LEMMA DeleteRooms ==
  ASSUME IInv, NEW A \in SUBSET Addrs, \A a \in A : heap[a] # NULL,
         heap' = HeapAfterDelete(A)
  PROVE  LiveRooms' = LiveRooms \ {heap[a] : a \in A}
<1>1. \A b \in Addrs : heap'[b] = IF b \in A THEN NULL ELSE heap[b]
  BY DEF HeapAfterDelete
<1>2. \A a \in A, b \in Addrs : heap[b] # NULL /\ heap[a] = heap[b] => a = b
  BY DEF IInv, LiveRoomsListed
<1> QED
  BY <1>1, <1>2 DEF LiveRooms

\* An accepted unbuild closes one live room.
LEMMA UnbuildStep ==
  ASSUME IInv, NEW p \in Peers, NEW r \in RoomIDs, UnbuildReq(p, r)
  PROVE  \E room \in LiveRooms : RelayView!Close(room)
<1> DEFINE a == GetRoom(r)
<1>1. a \in Addrs /\ heap[a] # NULL
  BY DEF UnbuildReq, GetRoom, Dangling, IInv, TypeOK
<1>2. heap' = HeapAfterDelete({a}) /\ UNCHANGED <<autoRoomID, userPeer, crashed>> /\ ~crashed
  BY DEF UnbuildReq, userVars
<1>3. Delivered' = {}
  <2>1. \A m \in sent' : m.packet.cmd = "UNBUILD_RET"
    BY ReplyCmd DEF UnbuildReq
  <2> QED
    BY <2>1, RepliesDeliverNothing
<1> HIDE DEF a
<1>4. LiveRooms' = LiveRooms \ {heap[a]}
  BY <1>1, <1>2, DeleteRooms
<1>5. heap[a] \in LiveRooms
  BY <1>1 DEF LiveRooms
<1>6. RelayView!Close(heap[a])
  BY <1>2, <1>3, <1>4, <1>5 DEF RelayView!Close
<1> QED
  BY <1>5, <1>6

\* A disconnect that does not crash closes the rooms of the user who left.
LEMMA DisconnectStep ==
  ASSUME IInv, NEW p \in Peers, OnDisconnect(p), ~crashed'
  PROVE  \E u \in Users : RelayView!Leave(u)
<1> DEFINE u == peerData[p]
           listed == {r \in roomList[u] : GetRoom(r) # NULL}
           A == {GetRoom(r) : r \in {q \in listed : ~Dangling(q)}}
<1>1. u \in Users /\ userPeer[u] = p /\ userPeer[u] # NULL
  BY RoomMgrAssumption DEF OnDisconnect, IInv, TypeOK, PeerBinding
<1>2. /\ heap' = HeapAfterDelete(A)
      /\ userPeer' = [userPeer EXCEPT ![u] = NULL]
      /\ autoRoomID' = autoRoomID
      /\ sent' = {}
      /\ ~crashed
  BY DEF OnDisconnect, ClearPeer
<1>3. A = {a \in Addrs : heap[a] # NULL /\ heap[a].server = u}
  <2>1. ASSUME NEW a \in A PROVE a \in Addrs /\ heap[a] # NULL /\ heap[a].server = u
    <3>1. PICK r \in roomList[u] : a = roomMap[r]
      BY DEF GetRoom
    <3> QED
      BY <1>1, <3>1 DEF IInv, ListedRoomsLive, TypeOK
  <2>2. ASSUME NEW a \in Addrs, heap[a] # NULL, heap[a].server = u PROVE a \in A
    <3>1. heap[a].id \in roomList[u] /\ roomMap[heap[a].id] = a /\ a # NULL
      BY <2>2, RoomMgrAssumption DEF IInv, LiveRoomsListed
    <3> QED
      BY <2>2, <3>1 DEF GetRoom, Dangling
  <2> HIDE DEF A
  <2> QED
    BY <2>1, <2>2
<1> HIDE DEF A, u
<1>4. LiveRooms' = LiveRooms \ {heap[a] : a \in A}
  BY <1>2, <1>3, DeleteRooms
<1>5. LiveRooms' = {r \in LiveRooms : r.server # u}
  BY <1>3, <1>4 DEF LiveRooms
<1>6. Online' = Online \ {u}
  BY <1>1, <1>2 DEF Online, IInv, TypeOK
<1>7. Delivered' = {}
  BY <1>2 DEF Delivered
<1>8. RelayView!Leave(u)
  BY <1>1, <1>2, <1>5, <1>6, <1>7 DEF RelayView!Leave, Online
<1> QED
  BY <1>1, <1>8 DEF RelayView!Leave

\* A frame goes to the viewers of the streamer's rooms and to nobody else.
LEMMA FrameStep ==
  ASSUME IInv, NEW p \in Peers, NEW u \in Users, FrameSyncReq(p, u)
  PROVE  RelayView!Frame(u)
<1> DEFINE pkt(r) == [cmd |-> "FRAME_SYNC", srv_uid |-> u, via |-> r]
           viewer(r) == userPeer[heap[roomMap[r]].client]
           rooms == {q \in LiveRooms : q.server = u /\ q.client \in Online}
<1>1. UNCHANGED <<userVars, roomVars, crashed>> /\ ~crashed
  BY DEF FrameSyncReq
<1>2. \A r \in roomList[u] : GetRoom(r) # NULL /\ ~Dangling(r) /\ heap[GetRoom(r)] \in Room
  BY DEF IInv, ListedRoomsLive, GetRoom, Dangling, TypeOK
<1>3. sent' = UNION {Send2Client(viewer(r), pkt(r)) : r \in roomList[u]}
  <2>1. PICK stray \in Peers \cup {NULL} :
          sent' = UNION {SendToClient(r, pkt(r), stray) :
                           r \in {q \in roomList[u] : GetRoom(q) # NULL}}
    BY DEF FrameSyncReq
  <2>2. \A r \in roomList[u] : SendToClient(r, pkt(r), stray) = Send2Client(viewer(r), pkt(r))
    BY <1>2 DEF SendToClient, GetRoom
  <2> HIDE DEF pkt, viewer
  <2> QED
    BY <1>2, <2>1, <2>2
<1>4. ASSUME NEW m \in sent'
      PROVE  \E r \in roomList[u] : m = [to |-> viewer(r), packet |-> pkt(r)] /\ viewer(r) # NULL
  <2> HIDE DEF pkt, viewer
  <2> QED
    BY <1>3 DEF Send2Client
<1>5. ASSUME NEW r \in roomList[u], viewer(r) # NULL
      PROVE  [to |-> viewer(r), packet |-> pkt(r)] \in sent'
  <2> HIDE DEF pkt, viewer
  <2> QED
    BY <1>3, <1>5 DEF Send2Client
<1>6. ASSUME NEW r \in roomList[u], viewer(r) # NULL
      PROVE  peerData[viewer(r)] = heap[roomMap[r]].client
  BY <1>2, <1>6 DEF IInv, PeerBinding, TypeOK, GetRoom, Room
<1>7. Delivered' = {<<u, heap[roomMap[r]].client, r>> :
                      r \in {q \in roomList[u] : viewer(q) # NULL}}
  <2>1. Delivered' = {<<m.packet.srv_uid, peerData[m.to], m.packet.via>> :
                        m \in {n \in sent' : n.packet.cmd = "FRAME_SYNC"}}
    BY <1>1 DEF Delivered, userVars
  <2>2. \A m \in sent' : \E r \in roomList[u] :
          /\ viewer(r) # NULL
          /\ m.packet.cmd = "FRAME_SYNC"
          /\ <<m.packet.srv_uid, peerData[m.to], m.packet.via>>
               = <<u, heap[roomMap[r]].client, r>>
    BY <1>4, <1>6
  <2>3. \A r \in roomList[u] : viewer(r) # NULL =>
          \E m \in sent' :
            /\ m.packet.cmd = "FRAME_SYNC"
            /\ <<m.packet.srv_uid, peerData[m.to], m.packet.via>>
                 = <<u, heap[roomMap[r]].client, r>>
    BY <1>5, <1>6
  <2> HIDE DEF viewer
  <2> QED
    BY <2>1, <2>2, <2>3
<1>8. ASSUME NEW r \in roomList[u], viewer(r) # NULL
      PROVE  \E q \in rooms : q.client = heap[roomMap[r]].client /\ q.id = r
  BY <1>2, <1>8 DEF IInv, ListedRoomsLive, LiveRooms, Online, TypeOK, GetRoom, Room
<1>9. ASSUME NEW q \in rooms
      PROVE  q.id \in roomList[u] /\ heap[roomMap[q.id]] = q /\ viewer(q.id) # NULL
  BY <1>9 DEF IInv, LiveRoomsListed, LiveRooms, Online
<1>10. Delivered' = {<<u, q.client, q.id>> : q \in rooms}
  <2> HIDE DEF viewer, rooms
  <2> QED
    BY <1>7, <1>8, <1>9
<1> QED
  BY <1>1, <1>10 DEF RelayView!Frame, LiveRooms, Online, userVars, roomVars

\* A login brings a user in, or is refused and changes nothing.
LEMMA LoginStep ==
  ASSUME IInv, NEW p \in Peers, NEW u \in Users, LoginReq(p, u)
  PROVE  RelayView!Join(u) \/ RelayView!Refuse
<1>1. ~crashed /\ ~crashed' /\ UNCHANGED <<heap, autoRoomID>>
  BY DEF LoginReq, roomVars
<1>2. \A m \in sent' : m.packet.cmd = "LOGIN_RET"
  BY ReplyCmd DEF LoginReq
<1>3. Delivered' = {}
  BY <1>2, RepliesDeliverNothing
<1>4. CASE userPeer[u] = NULL
  <2>1. userPeer' = [userPeer EXCEPT ![u] = p] /\ p # NULL
    BY <1>4, RoomMgrAssumption DEF LoginReq
  <2>2. Online' = Online \cup {u} /\ u \notin Online
    BY <1>4, <2>1 DEF Online, IInv, TypeOK
  <2> QED
    BY <1>1, <1>3, <2>2 DEF RelayView!Join, Online, LiveRooms
<1>5. CASE userPeer[u] # NULL
  BY <1>1, <1>3, <1>5, RefuseStep DEF LoginReq
<1> QED
  BY <1>4, <1>5

\* Every step of the server is a step of the relay or none.
LEMMA RelayNext ==
  ASSUME IInv, [Next]_vars
  PROVE  [RelayView!Next]_RelayView!vars
<1>1. ASSUME NEW p \in Peers, OnConnect(p) \/ OnDisconnectAnonymous(p)
      PROVE  RelayView!Refuse
  <2>1. sent' = {} /\ ~crashed /\ ~crashed' /\ UNCHANGED <<userPeer, heap, autoRoomID>>
    BY <1>1 DEF OnConnect, OnDisconnectAnonymous, roomVars
  <2> QED
    BY <2>1, RefuseStep DEF Delivered
<1>2. ASSUME Crash, ~crashed PROVE RelayView!Stop
  BY <1>2 DEF Crash, RelayView!Stop, Delivered, LiveRooms, userVars, roomVars
<1>3. ASSUME NEW p \in Peers, NEW r \in RoomIDs, UnbuildReqUnknown(p, r)
      PROVE  RelayView!Refuse
  <2>1. \A m \in sent' : m.packet.cmd = "UNBUILD_RET"
    BY <1>3, ReplyCmd DEF UnbuildReqUnknown
  <2> QED
    BY <1>3, <2>1, RepliesDeliverNothing, RefuseStep
       DEF UnbuildReqUnknown, userVars, roomVars
<1>4. ASSUME NEW p \in Peers, OnDisconnect(p)
      PROVE  \E u \in Users : RelayView!Leave(u)
  <2>1. \A u \in Users : roomList[u] \subseteq RoomIDs
    BY DEF IInv, TypeOK
  <2>2. ~crashed'
    BY <1>4, <2>1 DEF OnDisconnect, IInv, TypeOK, ListedRoomsLive, Dangling, GetRoom
  <2> QED
    BY <1>4, <2>2, DisconnectStep
<1>5. CASE UNCHANGED vars
  BY <1>5 DEF vars, RelayView!vars, LiveRooms, Delivered
<1> QED
  BY <1>1, <1>2, <1>3, <1>4, <1>5, LoginStep, FrameStep, BuildStep, UnbuildStep
     DEF Next, BuildReqUnknown, UnbuildReqFreed, RelayView!Next

\* The relay server implements the relay: its users cannot tell its stale map
\* entries and reused blocks from a plain set of open rooms, except by the id an
\* unbuild request reaches.
THEOREM RoomMgrImplementsRelay == Spec => ImplementsRelay
<1>1. IInv /\ [Next]_vars => [RelayView!Next]_RelayView!vars
  BY RelayNext
<1> QED
  BY <1>1, RelayInit, Invariance, PTL DEF Spec, ImplementsRelay, RelayView!Spec
=============================================================================
