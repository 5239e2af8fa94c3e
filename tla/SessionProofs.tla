--------------------------- MODULE SessionProofs ---------------------------
(***************************************************************************)
(* Proofs about the clients' sessions: they drive the server of RoomMgr as *)
(* that module says it is driven, what a client takes for its login is     *)
(* what the server has on record, and clients and server agree on rooms.   *)
(* For any clients, users, slots and bounds.                               *)
(***************************************************************************)
EXTENDS Session, SequenceTheorems, FiniteSetTheorems, TLAPS

(* The proofs about the server hold of the server in a session.            *)

ServerProofs == INSTANCE RoomMgrProofs

\* The server's state is read the same way by both modules.
LEMMA SameServer ==
  /\ Server!Init <=> ServerProofs!Init
  /\ Server!TypeOK <=> ServerProofs!TypeOK
  /\ Server!TypeOK' <=> ServerProofs!TypeOK'
  /\ Server!PeerBinding <=> ServerProofs!PeerBinding
<1> USE DEF Server!RoomIDs, ServerProofs!RoomIDs
<1>1. Server!Init <=> ServerProofs!Init
  BY DEF Server!Init, ServerProofs!Init
<1>3. Server!Packet = ServerProofs!Packet
  BY DEF Server!Packet, ServerProofs!Packet, Server!LoginRet, ServerProofs!LoginRet,
         Server!BuildRet, ServerProofs!BuildRet, Server!UnbuildRet, ServerProofs!UnbuildRet,
         Server!FrameSync, ServerProofs!FrameSync
<1>4. Server!Room = ServerProofs!Room /\ Server!Slot = ServerProofs!Slot
  BY DEF Server!Room, ServerProofs!Room, Server!Slot, ServerProofs!Slot
<1>5. Server!TypeOK <=> ServerProofs!TypeOK
  BY <1>3, <1>4 DEF Server!TypeOK, ServerProofs!TypeOK
<1>6. Server!TypeOK' <=> ServerProofs!TypeOK'
  BY <1>3, <1>4 DEF Server!TypeOK, ServerProofs!TypeOK
<1>7. Server!PeerBinding <=> ServerProofs!PeerBinding
  BY DEF Server!PeerBinding, ServerProofs!PeerBinding
<1>. QED  BY <1>1, <1>5, <1>6, <1>7

\* And so is every step of it.
LEMMA SameSteps == Server!Next <=> ServerProofs!Next
<1> USE DEF Server!RoomIDs, ServerProofs!RoomIDs, Server!roomVars, ServerProofs!roomVars,
            Server!userVars, ServerProofs!userVars, Server!Send2Client, ServerProofs!Send2Client,
            Server!GetRoom, ServerProofs!GetRoom, Server!Dangling, ServerProofs!Dangling
<1>1. ASSUME NEW p  PROVE Server!OnConnect(p) <=> ServerProofs!OnConnect(p)
  BY DEF Server!OnConnect, ServerProofs!OnConnect
<1>2. ASSUME NEW p
      PROVE  Server!OnDisconnectAnonymous(p) <=> ServerProofs!OnDisconnectAnonymous(p)
  BY DEF Server!OnDisconnectAnonymous, ServerProofs!OnDisconnectAnonymous
<1>3. ASSUME NEW A
      PROVE  /\ Server!HeapAfterDelete(A) = ServerProofs!HeapAfterDelete(A)
             /\ \A lists : Server!ListsAfterDelete(lists, A) = ServerProofs!ListsAfterDelete(lists, A)
  BY DEF Server!HeapAfterDelete, ServerProofs!HeapAfterDelete,
         Server!ListsAfterDelete, ServerProofs!ListsAfterDelete
<1>4. ASSUME NEW p  PROVE Server!OnDisconnect(p) <=> ServerProofs!OnDisconnect(p)
  BY <1>3 DEF Server!OnDisconnect, ServerProofs!OnDisconnect, Server!ClearPeer, ServerProofs!ClearPeer
<1>5. ASSUME NEW p, NEW u  PROVE Server!LoginReq(p, u) <=> ServerProofs!LoginReq(p, u)
  BY DEF Server!LoginReq, ServerProofs!LoginReq
<1>6. ASSUME NEW p, NEW u  PROVE Server!FrameSyncReq(p, u) <=> ServerProofs!FrameSyncReq(p, u)
  BY DEF Server!FrameSyncReq, ServerProofs!FrameSyncReq, Server!SendToClient, ServerProofs!SendToClient
<1>7. ASSUME NEW p, NEW c, NEW s
      PROVE  Server!BuildReqUnknown(p, c, s) <=> ServerProofs!BuildReqUnknown(p, c, s)
  BY DEF Server!BuildReqUnknown, ServerProofs!BuildReqUnknown, Server!Crash, ServerProofs!Crash
<1>8. ASSUME NEW p, NEW c, NEW s
      PROVE  Server!BuildReq(p, c, s) <=> ServerProofs!BuildReq(p, c, s)
  BY DEF Server!BuildReq, ServerProofs!BuildReq, Server!GenRoomID, ServerProofs!GenRoomID,
         Server!NewRoom, ServerProofs!NewRoom
<1>9. ASSUME NEW p, NEW r
      PROVE  Server!UnbuildReqUnknown(p, r) <=> ServerProofs!UnbuildReqUnknown(p, r)
  BY DEF Server!UnbuildReqUnknown, ServerProofs!UnbuildReqUnknown
<1>10. ASSUME NEW p, NEW r
       PROVE  Server!UnbuildReqFreed(p, r) <=> ServerProofs!UnbuildReqFreed(p, r)
  BY DEF Server!UnbuildReqFreed, ServerProofs!UnbuildReqFreed, Server!Crash, ServerProofs!Crash
<1>11. ASSUME NEW p, NEW r  PROVE Server!UnbuildReq(p, r) <=> ServerProofs!UnbuildReq(p, r)
  BY <1>3 DEF Server!UnbuildReq, ServerProofs!UnbuildReq,
         Server!RemoveClientRoomID, ServerProofs!RemoveClientRoomID
<1>. QED
  BY <1>1, <1>2, <1>4, <1>5, <1>6, <1>7, <1>8, <1>9, <1>10, <1>11
     DEF Server!Next, ServerProofs!Next

\* A session's constants are as the server's proofs assume them.
LEMMA ServerConstants ==
  /\ NULL \notin Users \cup Peers \cup Addrs \cup ServerProofs!Room
  /\ MaxRoomID \in Nat \ {0}
  /\ BuildLimit \in 0 .. MaxRoomID
BY SessionAssumption DEF Server!Room, ServerProofs!Room, Server!RoomIDs, ServerProofs!RoomIDs

\* The server's steps keep its types.
LEMMA ServerTypeNext ==
  Server!TypeOK /\ [Server!Next]_(Server!vars) => Server!TypeOK'
<1>1. ServerProofs!TypeOK /\ [ServerProofs!Next]_(ServerProofs!vars) => ServerProofs!TypeOK'
  BY ServerProofs!TypeNext, ServerConstants
<1>2. [Server!Next]_(Server!vars) => [ServerProofs!Next]_(ServerProofs!vars)
  BY SameSteps DEF Server!vars, ServerProofs!vars
<1>. QED  BY <1>1, <1>2, SameServer

\* The server's users and slots stay bound to each other, in whatever order
\* clients come and go.
LEMMA ServerBound == Server!Spec => [](Server!TypeOK /\ Server!PeerBinding)
<1>1. Server!Spec => ServerProofs!Spec
  <2>1. Server!Init => ServerProofs!Init
    BY SameServer
  <2>2. [Server!Next]_(Server!vars) => [ServerProofs!Next]_(ServerProofs!vars)
    BY SameSteps DEF Server!vars, ServerProofs!vars
  <2>. QED  BY <2>1, <2>2, PTL DEF Server!Spec, ServerProofs!Spec
<1>2. ServerProofs!Spec => []ServerProofs!TypeOK
  BY ServerProofs!TypeCorrect, ServerConstants
<1>3. ServerProofs!Spec => []ServerProofs!PeerBinding
  BY ServerProofs!PeerBindingHolds, ServerConstants
<1>4. ServerProofs!TypeOK /\ ServerProofs!PeerBinding => Server!TypeOK /\ Server!PeerBinding
  BY SameServer
<1>. QED  BY <1>1, <1>2, <1>3, <1>4, PTL

-----------------------------------------------------------------------------
(* Queues.                                                                 *)

\* What comes with each step of a queue.
LEMMA Joined ==
  ASSUME NEW S, NEW s \in Seq(S), NEW t \in Seq(S)
  PROVE  /\ s \o t \in Seq(S)
         /\ \A i \in DOMAIN (s \o t) :
              \/ \E j \in DOMAIN s : (s \o t)[i] = s[j]
              \/ \E j \in DOMAIN t : (s \o t)[i] = t[j]
<1>1. /\ s \o t \in Seq(S) /\ Len(s) \in Nat /\ Len(t) \in Nat
      /\ DOMAIN s = 1..Len(s) /\ DOMAIN t = 1..Len(t) /\ DOMAIN (s \o t) = 1..Len(s) + Len(t)
  BY ConcatProperties, LenProperties
<1>2. \A i \in DOMAIN (s \o t) :
        \/ i \in DOMAIN s /\ (s \o t)[i] = s[i]
        \/ i - Len(s) \in DOMAIN t /\ (s \o t)[i] = t[i - Len(s)]
  BY <1>1, ConcatProperties
<1>. QED  BY <1>1, <1>2

\* The first element of a queue, and the rest.
LEMMA Headed ==
  ASSUME NEW S, NEW s \in Seq(S), s # <<>>
  PROVE  /\ Head(s) \in S /\ Tail(s) \in Seq(S)
         /\ 1 \in DOMAIN s /\ Head(s) = s[1]
         /\ \A i \in DOMAIN Tail(s) : \E j \in DOMAIN s : Tail(s)[i] = s[j]
<1>1. Len(s) \in Nat /\ Len(s) > 0 /\ DOMAIN s = 1..Len(s)
  BY LenProperties, EmptySeq
<1>2. Head(s) \in S /\ Tail(s) \in Seq(S) /\ Len(Tail(s)) = Len(s) - 1
  BY HeadTailProperties
<1>3. DOMAIN Tail(s) = 1..Len(s) - 1
  BY <1>2, LenProperties, Zenon
<1>4. \A i \in DOMAIN Tail(s) : i + 1 \in DOMAIN s /\ Tail(s)[i] = s[i + 1]
  BY <1>1, <1>2, <1>3, HeadTailProperties
<1>. QED  BY <1>1, <1>2, <1>4

\* A set as a sequence has elements of the set only.
LEMMA SetSequence ==
  ASSUME NEW S, IsFiniteSet(S)
  PROVE  SetToSeq(S) \in Seq(S)
<1>1. Cardinality(S) \in Nat
  BY FS_CardinalityType
<1>2. PICK f \in Bijection(1..Cardinality(S), S) : TRUE
  BY FS_CardinalityType DEF ExistsBijection
<1>3. f \in [1..Cardinality(S) -> S] /\ IsInjective(f)
  BY <1>2 DEF Bijection, Injection, IsInjective
<1>4. SetToSeq(S) \in [1..Cardinality(S) -> S]
  BY <1>3 DEF SetToSeq
<1>. QED  BY <1>1, <1>4

-----------------------------------------------------------------------------
(* What the server does with a request.                                    *)

\* A request is one of three, with its fields.
LEMMA RequestFields ==
  ASSUME NEW m \in Requests
  PROVE  \/ \E u \in Users : m = LoginReqMsg(u)
         \/ \E u \in Users : m = BuildReqMsg(u)
         \/ \E r \in Server!RoomIDs : m = UnbuildReqMsg(r)
BY DEF Requests

\* A request is handled by one of RoomMgr's handlers.
LEMMA Handled ==
  ASSUME NEW p \in Peers, NEW m \in Requests, Handle(p, m)
  PROVE  \/ \E u \in Users : Server!LoginReq(p, u)
         \/ \E c, s \in Users : Server!BuildReqUnknown(p, c, s) \/ Server!BuildReq(p, c, s)
         \/ \E r \in Server!RoomIDs : \/ Server!UnbuildReqUnknown(p, r)
                                      \/ Server!UnbuildReqFreed(p, r)
                                      \/ Server!UnbuildReq(p, r)
<1>1. ASSUME NEW u \in Users, m = LoginReqMsg(u)  PROVE Server!LoginReq(p, u)
  <2>1. m.cmd = "LOGIN_REQ" /\ m.userid = u
    BY <1>1 DEF LoginReqMsg
  <2>. QED  BY <2>1 DEF Handle
<1>2. ASSUME NEW u \in Users, m = BuildReqMsg(u)
      PROVE  Server!BuildReqUnknown(p, u, Streamer) \/ Server!BuildReq(p, u, Streamer)
  <2>1. m.cmd = "BUILD_REQ" /\ m.client = u /\ m.server = Streamer
    BY <1>2 DEF BuildReqMsg
  <2>. QED  BY <2>1 DEF Handle
<1>3. ASSUME NEW r \in Server!RoomIDs, m = UnbuildReqMsg(r)
      PROVE  \/ Server!UnbuildReqUnknown(p, r) \/ Server!UnbuildReqFreed(p, r)
             \/ Server!UnbuildReq(p, r)
  <2>1. m.cmd = "UNBUILD_REQ" /\ m.roomid = r
    BY <1>3 DEF UnbuildReqMsg
  <2>. QED  BY <2>1 DEF Handle
<1>4. Streamer \in Users
  BY SessionAssumption
<1>. QED  BY <1>1, <1>2, <1>3, <1>4, RequestFields

\* An answer goes to one peer or to nobody.
LEMMA SendsOne ==
  ASSUME NEW q \in Peers \cup {NULL}, NEW packet \in Answers
  PROVE  /\ IsFiniteSet(Server!Send2Client(q, packet))
         /\ Server!Send2Client(q, packet) \subseteq [to : Peers, packet : Answers]
         /\ \A m \in Server!Send2Client(q, packet) : m.to = q /\ m.packet = packet
<1>1. Server!Send2Client(q, packet) \subseteq {[to |-> q, packet |-> packet]}
  BY DEF Server!Send2Client
<1>2. IsFiniteSet({[to |-> q, packet |-> packet]})
  BY FS_Singleton
<1>3. IsFiniteSet(Server!Send2Client(q, packet))
  BY <1>1, <1>2, FS_Subset
<1>4. Server!Send2Client(q, packet) \subseteq [to : Peers, packet : Answers]
  BY DEF Server!Send2Client
<1>5. \A m \in Server!Send2Client(q, packet) : m.to = q /\ m.packet = packet
  BY <1>1
<1>. QED  BY <1>3, <1>4, <1>5

\* The answers queued are finitely many, and a login is accepted only on the
\* slot it came on, which is bound to the user from then on.
LEMMA Sends ==
  ASSUME Server!TypeOK, NEW p \in Peers, NEW m \in Requests, Handle(p, m)
  PROVE  /\ IsFiniteSet(sent') /\ sent' \subseteq [to : Peers, packet : Answers]
         /\ \A n \in sent' : n.packet.cmd = "LOGIN_RET" /\ n.packet.code = 0 =>
              /\ n.to = p /\ peerData' = [peerData EXCEPT ![p] = n.packet.userid]
              /\ n.packet.userid \in Users
<1> USE DEF Answers
<1>1. ASSUME NEW u \in Users, Server!LoginReq(p, u)
      PROVE  /\ IsFiniteSet(sent') /\ sent' \subseteq [to : Peers, packet : Answers]
             /\ \A n \in sent' : n.packet.cmd = "LOGIN_RET" /\ n.packet.code = 0 =>
                  /\ n.to = p /\ peerData' = [peerData EXCEPT ![p] = n.packet.userid]
                  /\ n.packet.userid \in Users
  <2> DEFINE ret(k) == [cmd |-> "LOGIN_RET", userid |-> u, code |-> k]
  <2>1. ret(0) \in Answers /\ ret(1) \in Answers
    BY DEF Server!LoginRet
  <2>2. \/ sent' = Server!Send2Client(p, ret(0)) /\ peerData' = [peerData EXCEPT ![p] = u]
        \/ sent' = Server!Send2Client(p, ret(1))
    BY <1>1 DEF Server!LoginReq
  <2>3. ret(0).userid = u /\ ret(1).code = 1
    OBVIOUS
  <2> HIDE DEF ret, Answers
  <2>4. CASE sent' = Server!Send2Client(p, ret(0)) /\ peerData' = [peerData EXCEPT ![p] = u]
    <3>1. /\ IsFiniteSet(sent') /\ sent' \subseteq [to : Peers, packet : Answers]
          /\ \A n \in sent' : n.to = p /\ n.packet = ret(0)
      BY <2>1, <2>4, SendsOne
    <3>2. \A n \in sent' : n.packet.userid = u
      BY <2>3, <3>1
    <3>. QED  BY <2>4, <3>1, <3>2
  <2>5. CASE sent' = Server!Send2Client(p, ret(1))
    <3>1. \A n \in sent' : n.packet.code = 1
      BY <2>1, <2>3, <2>5, SendsOne
    <3>. QED  BY <2>1, <2>5, <3>1, SendsOne
  <2>. QED  BY <2>2, <2>4, <2>5
<1>2. ASSUME NEW q1 \in Peers \cup {NULL}, NEW q2 \in Peers \cup {NULL},
             NEW a \in Answers, NEW b \in Answers, a.cmd # "LOGIN_RET", b.cmd # "LOGIN_RET",
             sent' = Server!Send2Client(q1, a) \cup Server!Send2Client(q2, b)
      PROVE  /\ IsFiniteSet(sent') /\ sent' \subseteq [to : Peers, packet : Answers]
             /\ \A n \in sent' : n.packet.cmd # "LOGIN_RET"
  <2> HIDE DEF Answers
  <2>1. /\ IsFiniteSet(Server!Send2Client(q1, a)) /\ IsFiniteSet(Server!Send2Client(q2, b))
        /\ Server!Send2Client(q1, a) \subseteq [to : Peers, packet : Answers]
        /\ Server!Send2Client(q2, b) \subseteq [to : Peers, packet : Answers]
        /\ \A n \in Server!Send2Client(q1, a) : n.packet = a
        /\ \A n \in Server!Send2Client(q2, b) : n.packet = b
    BY SendsOne
  <2>2. IsFiniteSet(sent')
    BY <1>2, <2>1, FS_Union
  <2>. QED  BY <1>2, <2>1, <2>2
<1>3. ASSUME NEW c \in Users, NEW s \in Users, Server!BuildReq(p, c, s)
      PROVE  /\ IsFiniteSet(sent') /\ sent' \subseteq [to : Peers, packet : Answers]
             /\ \A n \in sent' : n.packet.cmd # "LOGIN_RET"
  <2> DEFINE id == Server!GenRoomID(autoRoomID)
             ret(k) == [cmd |-> "BUILD_RET", roomid |-> id, service |-> k]
  <2>1. sent' = Server!Send2Client(userPeer[s], ret(1)) \cup Server!Send2Client(userPeer[c], ret(2))
    BY <1>3 DEF Server!BuildReq
  <2>2. id \in Server!RoomIDs
    BY SessionAssumption DEF Server!TypeOK, Server!GenRoomID, Server!RoomIDs
  <2>3. ret(1) \in Answers /\ ret(2) \in Answers
        /\ ret(1).cmd # "LOGIN_RET" /\ ret(2).cmd # "LOGIN_RET"
    BY <2>2 DEF Server!BuildRet
  <2>4. userPeer[s] \in Peers \cup {NULL} /\ userPeer[c] \in Peers \cup {NULL}
    BY DEF Server!TypeOK
  <2> HIDE DEF ret, Answers
  <2>. QED  BY <1>2, <2>1, <2>3, <2>4
<1>4. ASSUME NEW r \in Server!RoomIDs, Server!UnbuildReq(p, r)
      PROVE  /\ IsFiniteSet(sent') /\ sent' \subseteq [to : Peers, packet : Answers]
             /\ \A n \in sent' : n.packet.cmd # "LOGIN_RET"
  <2> DEFINE room == heap[Server!GetRoom(r)]
             ret(k) == [cmd |-> "UNBUILD_RET", code |-> 0, roomid |-> r, service |-> k]
  <2>1. sent' = Server!Send2Client(userPeer[room.server], ret(1))
                \cup Server!Send2Client(userPeer[room.client], ret(2))
    BY <1>4 DEF Server!UnbuildReq
  <2>2. ret(1) \in Answers /\ ret(2) \in Answers
        /\ ret(1).cmd # "LOGIN_RET" /\ ret(2).cmd # "LOGIN_RET"
    BY DEF Server!UnbuildRet
  <2>3. room \in Server!Room
    BY <1>4 DEF Server!UnbuildReq, Server!GetRoom, Server!Dangling, Server!TypeOK
  <2>4. userPeer[room.server] \in Peers \cup {NULL} /\ userPeer[room.client] \in Peers \cup {NULL}
    BY <2>3 DEF Server!TypeOK, Server!Room
  <2> HIDE DEF ret, Answers, room
  <2>. QED  BY <1>2, <2>1, <2>2, <2>4
<1>5. ASSUME NEW r \in Server!RoomIDs, Server!UnbuildReqUnknown(p, r)
      PROVE  /\ IsFiniteSet(sent') /\ sent' \subseteq [to : Peers, packet : Answers]
             /\ \A n \in sent' : n.packet.cmd # "LOGIN_RET"
  <2>1. PICK k \in {0, 1, 2} :
          sent' = Server!Send2Client(p, [cmd |-> "UNBUILD_RET", code |-> 1, roomid |-> r,
                                         service |-> k])
    BY <1>5 DEF Server!UnbuildReqUnknown
  <2> DEFINE ret == [cmd |-> "UNBUILD_RET", code |-> 1, roomid |-> r, service |-> k]
  <2>2. ret \in Answers /\ ret.cmd # "LOGIN_RET"
    BY DEF Server!UnbuildRet
  <2>3. sent' = Server!Send2Client(p, ret) \cup Server!Send2Client(NULL, ret)
    BY <2>1 DEF Server!Send2Client
  <2> HIDE DEF ret, Answers
  <2>. QED  BY <1>2, <2>2, <2>3
<1>6. ASSUME sent' = {}
      PROVE  /\ IsFiniteSet(sent') /\ sent' \subseteq [to : Peers, packet : Answers]
             /\ \A n \in sent' : n.packet.cmd # "LOGIN_RET"
  BY <1>6, FS_EmptySet
<1>7. \A c, s \in Users : Server!BuildReqUnknown(p, c, s) => sent' = {}
  BY DEF Server!BuildReqUnknown, Server!Crash
<1>8. \A r \in Server!RoomIDs : Server!UnbuildReqFreed(p, r) => sent' = {}
  BY DEF Server!UnbuildReqFreed, Server!Crash
<1> HIDE DEF Answers
<1>. QED  BY <1>1, <1>3, <1>4, <1>5, <1>6, <1>7, <1>8, Handled

\* What reaches a slot is what was queued for it.
LEMMA Packets ==
  ASSUME IsFiniteSet(sent'), sent' \subseteq [to : Peers, packet : Answers], NEW p \in Peers
  PROVE  /\ PacketsTo(p) \in Seq(Answers)
         /\ \A i \in DOMAIN PacketsTo(p) :
              \E n \in sent' : n.to = p /\ n.packet = PacketsTo(p)[i]
<1> DEFINE mine == {m.packet : m \in {n \in sent' : n.to = p}}
           first == {m \in mine : ~ForViewer(m)}
           second == {m \in mine : ForViewer(m)}
<1>1. PacketsTo(p) = SetToSeq(first) \o SetToSeq(second)
  BY DEF PacketsTo
<1>2. IsFiniteSet(mine) /\ mine \subseteq Answers
  <2> DEFINE addressed == {n \in sent' : n.to = p}
             f == [n \in addressed |-> n.packet]
  <2>1. IsFiniteSet(addressed)
    BY FS_Subset
  <2>2. f \in Surjection(addressed, mine)
    BY DEF Surjection
  <2>3. IsFiniteSet(mine)
    BY <2>1, <2>2, FS_Surjection
  <2>. QED  BY <2>3
<1>3. first \subseteq mine /\ second \subseteq mine
  OBVIOUS
<1>4. \A m \in mine : \E n \in sent' : n.to = p /\ n.packet = m
  OBVIOUS
<1> HIDE DEF mine, first, second
<1>5. IsFiniteSet(first) /\ IsFiniteSet(second)
  BY <1>2, <1>3, FS_Subset
<1>6. SetToSeq(first) \in Seq(mine) /\ SetToSeq(second) \in Seq(mine)
  <2>1. SetToSeq(first) \in Seq(first) /\ SetToSeq(second) \in Seq(second)
    BY <1>5, SetSequence
  <2>. QED  BY <1>3, <2>1
<1>7. SetToSeq(first) \o SetToSeq(second) \in Seq(mine)
  BY <1>6, Joined
<1>8. PacketsTo(p) \in Seq(mine)
  BY <1>1, <1>7
<1>9. PacketsTo(p) \in Seq(Answers) /\ \A i \in DOMAIN PacketsTo(p) : PacketsTo(p)[i] \in mine
  BY <1>2, <1>8
<1>. QED  BY <1>4, <1>9

\* What a step of the server's network thread adds to a client's queue.
LEMMA Routed ==
  ASSUME TypeOK, NEW p \in Peers, OnServerReceive(p), NEW c \in Clients
  PROVE  \/ down'[c] = down[c]
         \/ /\ Linked(c) /\ down'[c] \in Seq(Answers)
            /\ \A i \in DOMAIN down'[c] :
                 \/ \E j \in DOMAIN down[c] : down'[c][i] = down[c][j]
                 \/ \E n \in sent' : n.to = peer[c] /\ n.packet = down'[c][i]
<1>1. CASE ~Linked(c)
  BY <1>1 DEF OnServerReceive, Route
<1>2. CASE Linked(c)
  <2>1. down'[c] = down[c] \o PacketsTo(peer[c])
    BY <1>2 DEF OnServerReceive, Route
  <2>2. peer[c] \in Peers /\ down[c] \in Seq(Answers)
    BY <1>2 DEF Linked, TypeOK
  <2>3. Head(up[p]) \in Requests /\ Handle(p, Head(up[p])) /\ Server!TypeOK
    <3>1. up[p] # <<>> /\ up[p] \in Seq(Requests)
      BY DEF OnServerReceive, TypeOK
    <3>. QED  BY <3>1, Headed DEF OnServerReceive, TypeOK
  <2>4. IsFiniteSet(sent') /\ sent' \subseteq [to : Peers, packet : Answers]
    BY <2>3, Sends
  <2> DEFINE q == PacketsTo(peer[c])
  <2>5. /\ q \in Seq(Answers)
        /\ \A i \in DOMAIN q : \E n \in sent' : n.to = peer[c] /\ n.packet = q[i]
    BY <2>2, <2>4, Packets
  <2> HIDE DEF q
  <2>6. /\ down[c] \o q \in Seq(Answers)
        /\ \A i \in DOMAIN (down[c] \o q) :
             \/ \E j \in DOMAIN down[c] : (down[c] \o q)[i] = down[c][j]
             \/ \E j \in DOMAIN q : (down[c] \o q)[i] = q[j]
    BY <2>2, <2>5, Joined
  <2>7. down'[c] = down[c] \o q
    BY <2>1 DEF q
  <2>8. \A i \in DOMAIN (down[c] \o q) :
          \/ \E j \in DOMAIN down[c] : (down[c] \o q)[i] = down[c][j]
          \/ \E n \in sent' : n.to = peer[c] /\ n.packet = (down[c] \o q)[i]
    BY <2>5, <2>6
  <2>. QED  BY <1>2, <2>6, <2>7, <2>8
<1>. QED  BY <1>1, <1>2

\* Every step of a session is a step of its server, or the server stands still.
LEMMA DrivesServer == TypeOK /\ [Next]_vars => [Server!Next]_(Server!vars)
<1> SUFFICES ASSUME TypeOK, [Next]_vars  PROVE [Server!Next]_(Server!vars)
  OBVIOUS
<1>1. CASE UNCHANGED server
  BY <1>1 DEF server, Server!vars
<1>2. ASSUME NEW c \in Clients, NEW u \in Users, OnBtnLogin(c, u)  PROVE Server!Next
  BY <1>2 DEF OnBtnLogin, Server!Next
<1>3. ASSUME NEW p \in Peers, OnServerReceive(p)  PROVE Server!Next
  <2>1. Head(up[p]) \in Requests /\ Handle(p, Head(up[p]))
    <3>1. up[p] # <<>> /\ up[p] \in Seq(Requests)
      BY <1>3 DEF OnServerReceive, TypeOK
    <3>. QED  BY <1>3, <3>1, Headed DEF OnServerReceive
  <2>. QED  BY <2>1, Handled DEF Server!Next
<1>4. ASSUME NEW p \in Peers, OnServerDisconnect(p)  PROVE Server!Next
  BY <1>4 DEF OnServerDisconnect, Server!Next
<1>. QED
  BY <1>1, <1>2, <1>3, <1>4 DEF Next, DispatchNetMsg, OnBtnLoginFail, OnClientDisconnect,
     OnReceive, OnLoginRet, OnBuildRetServer, OnBuildRetClient, OnUnbuildRet, PopNetMsg,
     OnBtnBuild, BuildReq, OnViewerClose, vars

-----------------------------------------------------------------------------
(* Types.                                                                  *)

\* A session starts with every record in its type.
LEMMA TypeInit == Init => TypeOK
<1> SUFFICES ASSUME Init  PROVE TypeOK
  OBVIOUS
<1>1. Server!TypeOK
  BY ServerProofs!TypeInit, SameServer, ServerConstants DEF Init
<1>2. \A S : <<>> \in Seq(S)
  OBVIOUS
<1>3. /\ up \in [Peers -> Seq(Requests)]
      /\ down \in [Clients -> Seq(Answers)] /\ netMsgList \in [Clients -> Seq(Answers)]
  BY <1>2 DEF Init
<1>4. 0 \in 0 .. MaxWindows /\ 0 \in 0 .. 2
  BY SessionAssumption
<1>. QED  BY <1>1, <1>3, <1>4 DEF Init, TypeOK

\* Answers by their command.
LEMMA AnswerFields ==
  ASSUME NEW m \in Answers
  PROVE  /\ m.cmd = "LOGIN_RET" => m.userid \in Users /\ m.code \in {0, 1}
         /\ m.cmd = "BUILD_RET" => m.roomid \in Server!RoomIDs
BY DEF Answers, Server!LoginRet, Server!BuildRet, Server!UnbuildRet

\* Only a build takes a new id, and it is one of the ids.
LEMMA NewIds ==
  ASSUME Server!TypeOK, NEW p \in Peers, NEW m \in Requests, Handle(p, m),
         autoRoomID' # autoRoomID
  PROVE  autoRoomID' \in Server!RoomIDs
<1>1. ASSUME NEW c \in Users, NEW s \in Users, Server!BuildReq(p, c, s)
      PROVE  autoRoomID' \in Server!RoomIDs
  BY <1>1, SessionAssumption DEF Server!TypeOK, Server!BuildReq, Server!GenRoomID, Server!RoomIDs
<1>2. \A u \in Users : Server!LoginReq(p, u) => autoRoomID' = autoRoomID
  BY DEF Server!LoginReq, Server!roomVars
<1>3. \A c, s \in Users : Server!BuildReqUnknown(p, c, s) => autoRoomID' = autoRoomID
  BY DEF Server!BuildReqUnknown, Server!Crash, Server!roomVars
<1>4. \A r \in Server!RoomIDs :
        Server!UnbuildReqUnknown(p, r) \/ Server!UnbuildReqFreed(p, r) \/ Server!UnbuildReq(p, r)
          => autoRoomID' = autoRoomID
  BY DEF Server!UnbuildReqUnknown, Server!UnbuildReqFreed, Server!UnbuildReq, Server!Crash,
         Server!roomVars
<1>. QED  BY <1>1, <1>2, <1>3, <1>4, Handled

\* The rooms that a disconnect leaves were there before it.
LEMMA LeftRooms ==
  ASSUME NEW p \in Peers, OnServerDisconnect(p), NEW b \in Addrs, heap'[b] # NULL
  PROVE  heap[b] # NULL
<1>1. CASE Server!OnDisconnectAnonymous(p)
  BY <1>1 DEF Server!OnDisconnectAnonymous, Server!roomVars
<1>2. CASE Server!OnDisconnect(p)
  <2>1. PICK A : heap' = Server!HeapAfterDelete(A)
    BY <1>2 DEF Server!OnDisconnect
  <2>. QED  BY <2>1 DEF Server!HeapAfterDelete
<1>. QED  BY <1>1, <1>2 DEF OnServerDisconnect

\* A message of the network goes from queue to queue, whole.
LEMMA Popped ==
  ASSUME TypeOK, NEW c \in Clients, NEW cmd, PopNetMsg(c, cmd)
  PROVE  /\ Head(netMsgList[c]) \in Answers /\ Head(netMsgList[c]).cmd = cmd
         /\ netMsgList' = [netMsgList EXCEPT ![c] = Tail(@)]
         /\ netMsgList' \in [Clients -> Seq(Answers)]
<1>1. netMsgList[c] \in Seq(Answers) /\ netMsgList[c] # <<>>
  BY DEF TypeOK, PopNetMsg
<1>2. Head(netMsgList[c]) \in Answers /\ Tail(netMsgList[c]) \in Seq(Answers)
  BY <1>1, Headed
<1>. QED  BY <1>2 DEF PopNetMsg, TypeOK

\* The types of what a session adds to its server.
LEMMA ClientsTyped ==
  ASSUME TypeOK, Server!TypeOK',
         UNCHANGED <<unheard, net, down, netMsgList, session, rooms>>
  PROVE  TypeOK'
BY DEF TypeOK, net, session, rooms

\* One lemma per action: each keeps the types.
LEMMA LoginTyped ==
  ASSUME TypeOK, Server!TypeOK', NEW c \in Clients, NEW u \in Users,
         OnBtnLogin(c, u) \/ OnBtnLoginFail(c, u)
  PROVE  TypeOK'
<1>1. UNCHANGED <<unheard, netMsgList, bLogin, rooms>>
  BY DEF OnBtnLogin, OnBtnLoginFail
<1>2. /\ userID' \in [Clients -> Users \cup {NULL}] /\ userID'[c] \in Users
      /\ \A d \in Clients \ {c} : userID'[d] = userID[d]
  <2>1. userID' = [userID EXCEPT ![c] = u]
    BY DEF OnBtnLogin, OnBtnLoginFail
  <2>2. userID \in [Clients -> Users \cup {NULL}]
    BY DEF TypeOK
  <2>. QED  BY <2>1, <2>2
<1>3. /\ peer' \in [Clients -> Peers \cup {NULL}]
      /\ \A d \in Clients \ {c} : peer'[d] = peer[d]
  <2>1. \E q \in Peers \cup {NULL} : peer' = [peer EXCEPT ![c] = q]
    BY DEF OnBtnLogin, OnBtnLoginFail
  <2>2. peer \in [Clients -> Peers \cup {NULL}]
    BY DEF TypeOK
  <2>. QED  BY <2>1, <2>2
<1>4. down' \in [Clients -> Seq(Answers)]
  <2>1. down' = [down EXCEPT ![c] = <<>>]
    BY DEF OnBtnLogin, OnBtnLoginFail, AfterReset
  <2>2. <<>> \in Seq(Answers)
    OBVIOUS
  <2>. QED  BY <2>1, <2>2 DEF TypeOK
<1>5. up' \in [Peers -> Seq(Requests)]
  <2>1. LoginReqMsg(u) \in Requests
    BY DEF Requests
  <2>2. <<LoginReqMsg(u)>> \in Seq(Requests)
    BY <2>1
  <2>3. up' = up \/ \E p \in Peers : up' = [up EXCEPT ![p] = <<LoginReqMsg(u)>>]
    BY DEF OnBtnLogin, OnBtnLoginFail
  <2>. QED  BY <2>2, <2>3 DEF TypeOK
<1>6. link' \in [Peers -> Clients \cup {NULL}]
  <2>1. link' = link \/ \E p \in Peers : link' = [link EXCEPT ![p] = c]
    BY DEF OnBtnLogin, OnBtnLoginFail
  <2>2. link \in [Peers -> Clients \cup {NULL}]
    BY DEF TypeOK
  <2>. QED  BY <2>1, <2>2
<1>7. isConnected' \in [Clients -> BOOLEAN]
  <2>1. isConnected' = isConnected \/ isConnected' = [isConnected EXCEPT ![c] = TRUE]
    BY DEF OnBtnLogin, OnBtnLoginFail
  <2>2. isConnected \in [Clients -> BOOLEAN]
    BY DEF TypeOK
  <2>. QED  BY <2>1, <2>2
<1>8. connects' \in [Clients -> 0 .. 2]
  <2>1. \/ connects' = connects
        \/ connects' = [connects EXCEPT ![c] = 1]
        \/ connects' = [connects EXCEPT ![c] = 2]
    BY DEF OnBtnLogin, OnBtnLoginFail
  <2>2. connects \in [Clients -> 0 .. 2]
    BY DEF TypeOK
  <2>. QED  BY <2>1, <2>2
<1>. QED  BY <1>1, <1>2, <1>3, <1>4, <1>5, <1>6, <1>7, <1>8 DEF TypeOK, rooms

LEMMA DisconnectTyped ==
  ASSUME TypeOK, Server!TypeOK', NEW c \in Clients, OnClientDisconnect(c)
  PROVE  TypeOK'
<1>1. down' \in [Clients -> Seq(Answers)]
  <2>1. down' = [down EXCEPT ![c] = <<>>]
    BY DEF OnClientDisconnect, AfterReset
  <2>2. <<>> \in Seq(Answers)
    OBVIOUS
  <2>. QED  BY <2>1, <2>2 DEF TypeOK
<1>. QED  BY <1>1 DEF TypeOK, OnClientDisconnect, session, rooms

LEMMA ReceiveTyped ==
  ASSUME TypeOK, Server!TypeOK', NEW c \in Clients, OnReceive(c)
  PROVE  TypeOK'
<1>1. down[c] \in Seq(Answers) /\ down[c] # <<>> /\ netMsgList[c] \in Seq(Answers)
  BY DEF TypeOK, OnReceive
<1>2. Head(down[c]) \in Answers /\ Tail(down[c]) \in Seq(Answers)
  BY <1>1, Headed
<1>3. Append(netMsgList[c], Head(down[c])) \in Seq(Answers)
  BY <1>1, <1>2
<1>4. down' \in [Clients -> Seq(Answers)] /\ netMsgList' \in [Clients -> Seq(Answers)]
  BY <1>2, <1>3 DEF TypeOK, OnReceive
<1>. QED  BY <1>4 DEF TypeOK, OnReceive, net, session, rooms

\* A viewer window is counted within its bound.
LEMMA Opened ==
  ASSUME viewer \in [Clients -> Server!RoomIDs \cup {0}],
         windows \in [Clients -> 0 .. MaxWindows], overlapped \in [Clients -> BOOLEAN],
         NEW c \in Clients, NEW r \in Server!RoomIDs, OpenViewer(c, r)
  PROVE  /\ viewer' \in [Clients -> Server!RoomIDs \cup {0}]
         /\ windows' \in [Clients -> 0 .. MaxWindows] /\ overlapped' \in [Clients -> BOOLEAN]
<1>1. windows[c] + 1 \in 0 .. MaxWindows
  BY SessionAssumption DEF OpenViewer
<1>2. windows' = [windows EXCEPT ![c] = windows[c] + 1] /\ viewer' = [viewer EXCEPT ![c] = r]
  BY DEF OpenViewer
<1>3. PICK b \in BOOLEAN : overlapped' = [overlapped EXCEPT ![c] = b]
  BY DEF OpenViewer
<1>. QED  BY <1>1, <1>2, <1>3

LEMMA DispatchTyped ==
  ASSUME TypeOK, Server!TypeOK', NEW c \in Clients, DispatchNetMsg(c)
  PROVE  TypeOK'
<1>1. PICK cmd \in {"LOGIN_RET", "BUILD_RET", "UNBUILD_RET"} : PopNetMsg(c, cmd)
  BY DEF DispatchNetMsg, OnLoginRet, OnBuildRetServer, OnBuildRetClient, OnUnbuildRet
<1>2. /\ Head(netMsgList[c]) \in Answers /\ Head(netMsgList[c]).cmd = cmd
      /\ netMsgList' \in [Clients -> Seq(Answers)]
  BY <1>1, Popped
<1>3. UNCHANGED <<unheard, net, down>>
  BY <1>1 DEF PopNetMsg
<1>4. CASE OnLoginRet(c)
  <2>1. Head(netMsgList[c]).cmd = "LOGIN_RET"
    BY <1>4 DEF OnLoginRet, PopNetMsg
  <2>2. Head(netMsgList[c]).userid \in Users
    BY <1>2, <2>1, AnswerFields
  <2>3. /\ bLogin' \in [Clients -> BOOLEAN] /\ userID' \in [Clients -> Users \cup {NULL}]
        /\ \A d \in Clients : userID'[d] = userID[d] \/ userID'[d] \in Users
    BY <1>4, <2>2 DEF OnLoginRet, LoginUser, TypeOK, session
  <2>. QED  BY <1>2, <1>3, <1>4, <2>3 DEF TypeOK, OnLoginRet, net, rooms
<1>5. CASE OnBuildRetServer(c) \/ OnBuildRetClient(c)
  <2>1. Head(netMsgList[c]).cmd = "BUILD_RET"
    BY <1>5 DEF OnBuildRetServer, OnBuildRetClient, PopNetMsg
  <2> DEFINE r == Head(netMsgList[c]).roomid
  <2>2. r \in Server!RoomIDs
    BY <1>2, <2>1, AnswerFields
  <2>3. UNCHANGED session
    BY <1>5 DEF OnBuildRetServer, OnBuildRetClient
  <2>4. /\ asServerRoom' = asServerRoom \/ asServerRoom' = [asServerRoom EXCEPT ![c] = @ \cup {r}]
        /\ asClientRoom' = asClientRoom \/ asClientRoom' = [asClientRoom EXCEPT ![c] = @ \cup {r}]
    BY <1>5 DEF OnBuildRetServer, OnBuildRetClient
  <2>5. \/ UNCHANGED <<viewer, windows, overlapped>>
        \/ OpenViewer(c, r)
    BY <1>5 DEF OnBuildRetServer, OnBuildRetClient
  <2> HIDE DEF r
  <2>6. /\ asServerRoom' \in [Clients -> SUBSET Server!RoomIDs]
        /\ asClientRoom' \in [Clients -> SUBSET Server!RoomIDs]
    <3>1. asServerRoom \in [Clients -> SUBSET Server!RoomIDs]
          /\ asClientRoom \in [Clients -> SUBSET Server!RoomIDs]
      BY DEF TypeOK
    <3>. QED  BY <2>2, <2>4, <3>1
  <2>7. /\ viewer' \in [Clients -> Server!RoomIDs \cup {0}]
        /\ windows' \in [Clients -> 0 .. MaxWindows] /\ overlapped' \in [Clients -> BOOLEAN]
    <3>1. /\ viewer \in [Clients -> Server!RoomIDs \cup {0}]
          /\ windows \in [Clients -> 0 .. MaxWindows] /\ overlapped \in [Clients -> BOOLEAN]
      BY DEF TypeOK
    <3>. QED  BY <2>2, <2>5, <3>1, Opened
  <2>. QED  BY <1>2, <1>3, <1>5, <2>3, <2>6, <2>7
            DEF TypeOK, OnBuildRetServer, OnBuildRetClient, PopNetMsg, net, session
<1>6. CASE OnUnbuildRet(c)
  <2>1. /\ asServerRoom' \in [Clients -> SUBSET Server!RoomIDs]
        /\ asClientRoom' \in [Clients -> SUBSET Server!RoomIDs]
    BY <1>6 DEF TypeOK, OnUnbuildRet, EraseRoom
  <2>. QED  BY <1>2, <1>3, <1>6, <2>1 DEF TypeOK, OnUnbuildRet, net, session
<1>. QED  BY <1>4, <1>5, <1>6 DEF DispatchNetMsg

\* What the client sends to the server.
LEMMA SendTyped ==
  ASSUME TypeOK, NEW c \in Clients, NEW m \in Requests, SendMsg(c, m)
  PROVE  up' \in [Peers -> Seq(Requests)]
<1>1. up \in [Peers -> Seq(Requests)]
  BY DEF TypeOK
<1>2. CASE Linked(c)
  <2>1. peer[c] \in Peers
    BY <1>2 DEF TypeOK, Linked
  <2>2. Append(up[peer[c]], m) \in Seq(Requests)
    BY <1>1, <2>1
  <2>. QED  BY <1>1, <2>1, <2>2 DEF SendMsg
<1>3. CASE ~Linked(c)
  BY <1>1, <1>3 DEF SendMsg
<1>. QED  BY <1>2, <1>3

LEMMA ButtonsTyped ==
  ASSUME TypeOK, Server!TypeOK', NEW c \in Clients,
         OnBtnBuild(c) \/ BuildReq(c) \/ OnViewerClose(c)
  PROVE  TypeOK'
<1>1. CASE OnBtnBuild(c)
  <2>1. 1 \in Server!RoomIDs
    BY SessionAssumption DEF Server!RoomIDs
  <2>2. /\ viewer' \in [Clients -> Server!RoomIDs \cup {0}]
        /\ windows' \in [Clients -> 0 .. MaxWindows] /\ overlapped' \in [Clients -> BOOLEAN]
    <3>1. /\ viewer \in [Clients -> Server!RoomIDs \cup {0}]
          /\ windows \in [Clients -> 0 .. MaxWindows] /\ overlapped \in [Clients -> BOOLEAN]
      BY DEF TypeOK
    <3>. QED  BY <1>1, <2>1, <3>1, Opened DEF OnBtnBuild
  <2>. QED  BY <1>1, <2>2 DEF TypeOK, OnBtnBuild, net, session
<1>2. CASE BuildReq(c)
  <2>1. userID[c] \in Users
    BY <1>2 DEF BuildReq, Linked, TypeOK
  <2>2. BuildReqMsg(userID[c]) \in Requests
    BY <2>1 DEF Requests
  <2>3. up' \in [Peers -> Seq(Requests)]
    BY <1>2, <2>2, SendTyped DEF BuildReq
  <2>. QED  BY <1>2, <2>3 DEF TypeOK, BuildReq, session, rooms
<1>3. CASE OnViewerClose(c)
  <2>1. up' \in [Peers -> Seq(Requests)]
    <3>1. CASE viewer[c] # 0
      <4>1. viewer[c] \in Server!RoomIDs
        BY <3>1 DEF TypeOK
      <4>2. UnbuildReqMsg(viewer[c]) \in Requests
        BY <4>1 DEF Requests
      <4>3. SendMsg(c, UnbuildReqMsg(viewer[c]))
        BY <1>3, <3>1 DEF OnViewerClose, UnbuildReq
      <4>. QED  BY <4>2, <4>3, SendTyped
    <3>2. CASE viewer[c] = 0
      BY <1>3, <3>2 DEF OnViewerClose, TypeOK
    <3>. QED  BY <3>1, <3>2
  <2>2. windows' \in [Clients -> 0 .. MaxWindows]
    <3>1. windows \in [Clients -> 0 .. MaxWindows] /\ windows[c] > 0
      BY <1>3 DEF TypeOK, OnViewerClose
    <3>2. windows[c] - 1 \in 0 .. MaxWindows
      BY <3>1, SessionAssumption
    <3>3. windows' = [windows EXCEPT ![c] = windows[c] - 1]
      BY <1>3 DEF OnViewerClose
    <3>. QED  BY <3>1, <3>2, <3>3
  <2>3. viewer' \in [Clients -> Server!RoomIDs \cup {0}]
    BY <1>3 DEF TypeOK, OnViewerClose
  <2>. QED  BY <1>3, <2>1, <2>2, <2>3 DEF TypeOK, OnViewerClose, session
<1>. QED  BY <1>1, <1>2, <1>3

LEMMA ServerReceiveTyped ==
  ASSUME TypeOK, Server!TypeOK', NEW p \in Peers, OnServerReceive(p)
  PROVE  TypeOK'
<1>1. up[p] # <<>> /\ up[p] \in Seq(Requests) /\ Handle(p, Head(up[p])) /\ Server!TypeOK
  BY DEF OnServerReceive, TypeOK
<1>2. Head(up[p]) \in Requests /\ Tail(up[p]) \in Seq(Requests)
  BY <1>1, Headed
<1>3. up' \in [Peers -> Seq(Requests)]
  BY <1>2 DEF OnServerReceive, TypeOK
<1>4. down' \in [Clients -> Seq(Answers)]
  <2>1. \A c \in Clients : down'[c] \in Seq(Answers)
    BY Routed DEF TypeOK
  <2>. QED  BY <2>1 DEF OnServerReceive, Route
<1>5. unheard' \subseteq Server!RoomIDs \X {1, 2}
  <2>1. unheard \subseteq Server!RoomIDs \X {1, 2}
    BY DEF TypeOK
  <2>2. CASE autoRoomID' = autoRoomID
    BY <2>1, <2>2 DEF OnServerReceive
  <2>3. CASE autoRoomID' # autoRoomID
    <3>1. autoRoomID' \in Server!RoomIDs
      BY <1>1, <1>2, <2>3, NewIds
    <3>2. unheard' \subseteq unheard \cup ({autoRoomID'} \X {1, 2})
      BY <2>3 DEF OnServerReceive
    <3>. QED  BY <2>1, <3>1, <3>2
  <2>. QED  BY <2>2, <2>3
<1>. QED  BY <1>3, <1>4, <1>5 DEF TypeOK, OnServerReceive, session, rooms

LEMMA ServerDisconnectTyped ==
  ASSUME TypeOK, Server!TypeOK', NEW p \in Peers, OnServerDisconnect(p)
  PROVE  TypeOK'
<1>1. link' \in [Peers -> Clients \cup {NULL}]
  BY DEF TypeOK, OnServerDisconnect
<1>2. up' \in [Peers -> Seq(Requests)]
  <2>1. <<>> \in Seq(Requests)
    OBVIOUS
  <2>. QED  BY <2>1 DEF TypeOK, OnServerDisconnect
<1>3. unheard' \subseteq Server!RoomIDs \X {1, 2}
  <2>1. unheard \subseteq Server!RoomIDs \X {1, 2}
    BY DEF TypeOK
  <2>2. \A b \in Addrs : heap'[b] # NULL => heap[b].id \in Server!RoomIDs
    BY LeftRooms DEF TypeOK, Server!TypeOK, Server!Room
  <2>3. \A x \in unheard' : x \in unheard \/ \E b \in Addrs : heap'[b] # NULL /\ x = <<heap[b].id, 2>>
    BY DEF OnServerDisconnect
  <2>. QED  BY <2>1, <2>2, <2>3
<1>. QED  BY <1>1, <1>2, <1>3 DEF TypeOK, OnServerDisconnect, session, rooms

\* Every step keeps the types.
LEMMA TypeNext == TypeOK /\ [Next]_vars => TypeOK'
<1> SUFFICES ASSUME TypeOK, [Next]_vars  PROVE TypeOK'
  OBVIOUS
<1>1. Server!TypeOK'
  BY DrivesServer, ServerTypeNext DEF TypeOK
<1>. QED
  BY <1>1, ClientsTyped, LoginTyped, DisconnectTyped, ReceiveTyped, DispatchTyped, ButtonsTyped,
     ServerReceiveTyped, ServerDisconnectTyped DEF Next, vars

\* Every variable of a session keeps its type, those of the server's and the
\* bounds of queues' contents, rooms and windows included, and a client with a
\* connection has a user id to send (PandaRC.cpp:53, 160).
THEOREM TypeCorrect == Spec => []TypeOK
BY TypeInit, TypeNext, PTL DEF Spec

\* Clients that connect, drop and reconnect as they like, and only send what
\* their own handlers send, drive the server by its own steps and no others: all
\* that holds of RoomMgr for the requests it is assumed to get holds in a session.
THEOREM SessionRunsTheServer == Spec => Server!Spec
<1>1. Init => Server!Init
  BY DEF Init
<1>. QED  BY <1>1, DrivesServer, TypeCorrect, PTL DEF Spec, Server!Spec

-----------------------------------------------------------------------------
(* Logins.                                                                 *)

\* An accepted login.
Accepted(m) == m.cmd = "LOGIN_RET" /\ m.code = 0

\* A connection the server knows occupies its slot.
LinkInv == \A p \in Peers : link[p] # NULL => slot[p] # "free"

\* A client that never had a connection heard nothing.
SilentInv ==
  \A c \in Clients : connects[c] = 0 =>
    peer[c] = NULL /\ netMsgList[c] = <<>> /\ ~bLogin[c]

\* On the first connection no answer of an older one waits to be handled.
HeardInv ==
  \A c \in Clients : connects[c] = 1 /\ Linked(c) =>
    \A i \in DOMAIN netMsgList[c] :
      Accepted(netMsgList[c][i]) => peerData[peer[c]] = netMsgList[c][i].userid

\* LoginMeansBound without the client's own flag m_isConnected.
BoundInv ==
  \A c \in Clients : connects[c] = 1 /\ Linked(c) /\ bLogin[c] => peerData[peer[c]] = userID[c]

\* Each part needs the others: an answer moves from down to netMsgList to bLogin.
LoginInv == LinkInv /\ AcceptedIsBound /\ SilentInv /\ HeardInv /\ BoundInv

\* At the start there is no connection and no answer.
LEMMA LoginInit == Init => LoginInv
BY DEF Init, LoginInv, LinkInv, AcceptedIsBound, SilentInv, HeardInv, BoundInv, Linked

\* A slot with a connection has its user for good, until the connection ends:
\* the server only binds a slot that nobody is logged in on.
LEMMA SlotKept ==
  ASSUME Server!TypeOK, Server!PeerBinding, NEW p \in Peers, NEW m \in Requests, Handle(p, m),
         NEW q \in Peers
  PROVE  /\ peerData[q] \in Users => peerData'[q] = peerData[q]
         /\ slot[q] # "free" => slot'[q] # "free"
<1>1. ASSUME NEW u \in Users, Server!LoginReq(p, u)
      PROVE  /\ peerData[q] \in Users => peerData'[q] = peerData[q]
             /\ slot[q] # "free" => slot'[q] # "free"
  <2>1. slot[p] = "connected" /\ slot' = [slot EXCEPT ![p] = "asked"]
        /\ (peerData' = peerData \/ peerData' = [peerData EXCEPT ![p] = u])
    BY <1>1 DEF Server!LoginReq
  <2>2. peerData[p] \notin Users
    BY <2>1 DEF Server!PeerBinding
  <2>. QED  BY <2>1, <2>2 DEF Server!TypeOK
<1>2. \A c, s \in Users :
        Server!BuildReqUnknown(p, c, s) \/ Server!BuildReq(p, c, s) =>
          UNCHANGED <<peerData, slot>>
  BY DEF Server!BuildReqUnknown, Server!BuildReq, Server!Crash, Server!userVars
<1>3. \A r \in Server!RoomIDs :
        Server!UnbuildReqUnknown(p, r) \/ Server!UnbuildReqFreed(p, r) \/ Server!UnbuildReq(p, r)
          => UNCHANGED <<peerData, slot>>
  BY DEF Server!UnbuildReqUnknown, Server!UnbuildReqFreed, Server!UnbuildReq, Server!Crash,
         Server!userVars
<1>. QED  BY <1>1, <1>2, <1>3, Handled

\* A client of the network: what one step of it does to the others.
LEMMA OthersLogins ==
  ASSUME TypeOK, LoginInv,
         UNCHANGED <<slot, peerData, link>>, NEW c \in Clients,
         \A d \in Clients \ {c} :
           /\ peer'[d] = peer[d] /\ down'[d] = down[d] /\ netMsgList'[d] = netMsgList[d]
           /\ bLogin'[d] = bLogin[d] /\ userID'[d] = userID[d] /\ connects'[d] = connects[d],
         connects'[c] = connects[c], peer'[c] \in {peer[c], NULL},
         connects[c] = 0 => netMsgList'[c] = <<>> /\ ~bLogin'[c],
         Linked(c)' =>
           /\ \A i \in DOMAIN down'[c] :
                Accepted(down'[c][i]) => peerData[peer[c]] = down'[c][i].userid
           /\ connects[c] = 1 =>
                /\ \A i \in DOMAIN netMsgList'[c] :
                     Accepted(netMsgList'[c][i]) => peerData[peer[c]] = netMsgList'[c][i].userid
                /\ bLogin'[c] => peerData[peer[c]] = userID'[c]
  PROVE  LoginInv'
<1>0. \A d \in Clients : Linked(d)' => Linked(d) /\ peer'[d] = peer[d]
  BY DEF Linked
<1>1. LinkInv'
  BY DEF LoginInv, LinkInv
<1>2. SilentInv'
  BY DEF LoginInv, SilentInv
<1>3. AcceptedIsBound'
  BY <1>0 DEF LoginInv, AcceptedIsBound, Accepted
<1>4. HeardInv'
  BY <1>0 DEF LoginInv, HeardInv
<1>5. BoundInv'
  BY <1>0 DEF LoginInv, BoundInv
<1>. QED  BY <1>1, <1>2, <1>3, <1>4, <1>5 DEF LoginInv

\* Steps that leave logins and answers alone.
LEMMA SameLogins ==
  ASSUME LoginInv, UNCHANGED <<slot, peerData, link, peer, connects, down, netMsgList, session>>
  PROVE  LoginInv'
BY DEF LoginInv, LinkInv, AcceptedIsBound, SilentInv, HeardInv, BoundInv, Linked, session

\* The client drops its connection: by its time-out, or for an attempt to make
\* another that fails.
LEMMA DropLogins ==
  ASSUME TypeOK, LoginInv, NEW c \in Clients,
         OnClientDisconnect(c) \/ \E u \in Users : OnBtnLoginFail(c, u)
  PROVE  LoginInv'
<1>1. peer'[c] = NULL /\ UNCHANGED <<link, connects, netMsgList, bLogin>>
  BY DEF OnClientDisconnect, OnBtnLoginFail, TypeOK, session
<1>2. UNCHANGED <<slot, peerData>>
  BY DEF OnClientDisconnect, OnBtnLoginFail, server
<1>3. \A d \in Clients \ {c} :
        peer'[d] = peer[d] /\ down'[d] = down[d] /\ userID'[d] = userID[d]
  BY DEF OnClientDisconnect, OnBtnLoginFail, TypeOK, session
<1>4. ~Linked(c)'
  BY <1>1 DEF Linked
<1>5. connects[c] = 0 => netMsgList[c] = <<>> /\ ~bLogin[c]
  BY DEF LoginInv, SilentInv
<1>. QED  BY <1>1, <1>2, <1>3, <1>4, <1>5, OthersLogins

\* The net thread passes an answer on.
LEMMA ReceiveLogins ==
  ASSUME TypeOK, LoginInv, NEW c \in Clients, OnReceive(c)
  PROVE  LoginInv'
<1>1. /\ UNCHANGED <<slot, peerData, link, peer, connects, bLogin, userID>>
      /\ down' = [down EXCEPT ![c] = Tail(down[c])]
      /\ netMsgList' = [netMsgList EXCEPT ![c] = Append(netMsgList[c], Head(down[c]))]
      /\ peer[c] # NULL /\ down[c] # <<>>
  BY DEF OnReceive, server, net, session
<1>2. /\ down \in [Clients -> Seq(Answers)] /\ netMsgList \in [Clients -> Seq(Answers)]
      /\ down[c] \in Seq(Answers) /\ netMsgList[c] \in Seq(Answers)
  BY DEF TypeOK
<1>3. /\ down'[c] = Tail(down[c]) /\ netMsgList'[c] = Append(netMsgList[c], Head(down[c]))
      /\ \A d \in Clients \ {c} : down'[d] = down[d] /\ netMsgList'[d] = netMsgList[d]
  BY <1>1, <1>2
<1>4. /\ 1 \in DOMAIN down[c] /\ Head(down[c]) = down[c][1]
      /\ \A i \in DOMAIN Tail(down[c]) : \E j \in DOMAIN down[c] : Tail(down[c])[i] = down[c][j]
  BY <1>1, <1>2, Headed
<1>5. Linked(c)' <=> Linked(c)
  BY <1>1 DEF Linked
<1>6. ASSUME Linked(c)
      PROVE  /\ \A i \in DOMAIN down'[c] :
                  Accepted(down'[c][i]) => peerData[peer[c]] = down'[c][i].userid
             /\ Accepted(Head(down[c])) => peerData[peer[c]] = Head(down[c]).userid
  <2>1. \A j \in DOMAIN down[c] :
          Accepted(down[c][j]) => peerData[peer[c]] = down[c][j].userid
    BY <1>6 DEF LoginInv, AcceptedIsBound, Accepted
  <2>. QED  BY <1>3, <1>4, <2>1
<1>7. ASSUME Linked(c), connects[c] = 1
      PROVE  \A i \in DOMAIN netMsgList'[c] :
               Accepted(netMsgList'[c][i]) => peerData[peer[c]] = netMsgList'[c][i].userid
  <2>1. \A i \in DOMAIN netMsgList[c] :
          Accepted(netMsgList[c][i]) => peerData[peer[c]] = netMsgList[c][i].userid
    BY <1>7 DEF LoginInv, HeardInv
  <2>2. \A i \in DOMAIN netMsgList'[c] :
          \/ netMsgList'[c][i] = Head(down[c])
          \/ i \in DOMAIN netMsgList[c] /\ netMsgList'[c][i] = netMsgList[c][i]
    <3>1. Len(netMsgList[c]) \in Nat /\ DOMAIN netMsgList[c] = 1 .. Len(netMsgList[c])
      BY <1>2, LenProperties
    <3>2. Head(down[c]) \in Answers
      BY <1>1, <1>2, Headed
    <3>3. /\ DOMAIN netMsgList'[c] = 1 .. Len(netMsgList[c]) + 1
          /\ netMsgList'[c][Len(netMsgList[c]) + 1] = Head(down[c])
          /\ \A i \in 1 .. Len(netMsgList[c]) : netMsgList'[c][i] = netMsgList[c][i]
      BY <1>2, <1>3, <3>2, AppendProperties
    <3>. QED  BY <3>1, <3>3
  <2>. QED  BY <1>6, <1>7, <2>1, <2>2
<1>8. connects[c] # 0
  BY <1>1 DEF LoginInv, SilentInv
<1>9. connects[c] = 1 /\ Linked(c) /\ bLogin[c] => peerData[peer[c]] = userID[c]
  BY DEF LoginInv, BoundInv
<1>. QED  BY <1>1, <1>3, <1>5, <1>6, <1>7, <1>8, <1>9, OthersLogins

\* The client handles an answer.
LEMMA DispatchLogins ==
  ASSUME TypeOK, LoginInv, NEW c \in Clients, DispatchNetMsg(c)
  PROVE  LoginInv'
<1>1. PICK cmd \in {"LOGIN_RET", "BUILD_RET", "UNBUILD_RET"} :
        PopNetMsg(c, cmd) /\ ((OnLoginRet(c) /\ cmd = "LOGIN_RET") \/ UNCHANGED session)
  BY DEF DispatchNetMsg, OnLoginRet, OnBuildRetServer, OnBuildRetClient, OnUnbuildRet
<1>2. /\ UNCHANGED <<slot, peerData, link, peer, connects, down>>
      /\ netMsgList[c] # <<>> /\ netMsgList[c] \in Seq(Answers)
      /\ netMsgList \in [Clients -> Seq(Answers)]
      /\ netMsgList' = [netMsgList EXCEPT ![c] = Tail(netMsgList[c])]
  BY <1>1 DEF PopNetMsg, TypeOK, server, net
<1>3. /\ netMsgList'[c] = Tail(netMsgList[c])
      /\ \A d \in Clients \ {c} : netMsgList'[d] = netMsgList[d]
  BY <1>2
<1>4. /\ 1 \in DOMAIN netMsgList[c] /\ Head(netMsgList[c]) = netMsgList[c][1]
      /\ \A i \in DOMAIN Tail(netMsgList[c]) :
           \E j \in DOMAIN netMsgList[c] : Tail(netMsgList[c])[i] = netMsgList[c][j]
  BY <1>2, Headed
<1>5. \A d \in Clients \ {c} : bLogin'[d] = bLogin[d] /\ userID'[d] = userID[d]
  BY <1>1 DEF OnLoginRet, session, TypeOK
<1>6. \/ bLogin'[c] = bLogin[c] /\ userID'[c] = userID[c]
      \/ /\ Accepted(Head(netMsgList[c]))
         /\ userID'[c] = Head(netMsgList[c]).userid
  <2>1. CASE UNCHANGED session
    BY <2>1 DEF session
  <2>2. CASE OnLoginRet(c) /\ cmd = "LOGIN_RET"
    <3>1. Head(netMsgList[c]).cmd = "LOGIN_RET"
      BY <1>1, <2>2 DEF PopNetMsg
    <3>2. CASE ~LoginAccepted(Head(netMsgList[c]))
      BY <2>2, <3>2 DEF OnLoginRet, session
    <3>3. CASE LoginAccepted(Head(netMsgList[c]))
      <4>1. userID' = [userID EXCEPT ![c] = Head(netMsgList[c]).userid]
        BY <2>2, <3>3 DEF OnLoginRet, LoginUser
      <4>. QED  BY <3>1, <3>3, <4>1 DEF Accepted, LoginAccepted, TypeOK
    <3>. QED  BY <3>2, <3>3
  <2>. QED  BY <1>1, <2>1, <2>2
<1>7. connects[c] # 0
  BY <1>2 DEF LoginInv, SilentInv
<1>8. ASSUME Linked(c)
      PROVE  \A i \in DOMAIN down[c] :
               Accepted(down[c][i]) => peerData[peer[c]] = down[c][i].userid
  BY <1>8 DEF LoginInv, AcceptedIsBound, Accepted
<1>9. ASSUME Linked(c), connects[c] = 1
      PROVE  /\ \A i \in DOMAIN netMsgList'[c] :
                  Accepted(netMsgList'[c][i]) => peerData[peer[c]] = netMsgList'[c][i].userid
             /\ bLogin'[c] => peerData[peer[c]] = userID'[c]
  <2>1. \A i \in DOMAIN netMsgList[c] :
          Accepted(netMsgList[c][i]) => peerData[peer[c]] = netMsgList[c][i].userid
    BY <1>9 DEF LoginInv, HeardInv
  <2>2. bLogin[c] => peerData[peer[c]] = userID[c]
    BY <1>9 DEF LoginInv, BoundInv
  <2>3. Accepted(Head(netMsgList[c])) => peerData[peer[c]] = Head(netMsgList[c]).userid
    BY <1>4, <2>1
  <2>4. \A i \in DOMAIN netMsgList'[c] :
          Accepted(netMsgList'[c][i]) => peerData[peer[c]] = netMsgList'[c][i].userid
    BY <1>3, <1>4, <2>1
  <2>5. bLogin'[c] => peerData[peer[c]] = userID'[c]
    BY <1>6, <2>2, <2>3
  <2>. QED  BY <2>4, <2>5
<1>10. Linked(c)' <=> Linked(c)
  BY <1>2 DEF Linked
<1>. QED  BY <1>2, <1>3, <1>5, <1>7, <1>8, <1>9, <1>10, OthersLogins

\* A new connection takes a slot that no other connection occupies.
LEMMA ConnectLogins ==
  ASSUME TypeOK, LoginInv, NEW c \in Clients, NEW u \in Users, OnBtnLogin(c, u)
  PROVE  LoginInv'
<1>1. PICK p \in Peers : /\ Server!OnConnect(p)
                         /\ peer' = [peer EXCEPT ![c] = p] /\ link' = [link EXCEPT ![p] = c]
  BY DEF OnBtnLogin
<1>2. /\ slot[p] = "free" /\ slot' = [slot EXCEPT ![p] = "connected"]
      /\ peerData' = [peerData EXCEPT ![p] = NULL]
  BY <1>1 DEF Server!OnConnect
<1>3. slot \in [Peers -> Server!Slot] /\ peerData \in [Peers -> Users \cup {NULL}]
      /\ peer \in [Clients -> Peers \cup {NULL}] /\ link \in [Peers -> Clients \cup {NULL}]
  BY DEF TypeOK, Server!TypeOK
<1>4. /\ ~bLogin[c] /\ UNCHANGED <<netMsgList, bLogin>>
      /\ down' = [down EXCEPT ![c] = <<>>] /\ userID' = [userID EXCEPT ![c] = u]
      /\ connects' = [connects EXCEPT ![c] = IF connects[c] = 0 THEN 1 ELSE 2]
  BY DEF OnBtnLogin, MayLogin, AfterReset
<1>5. down \in [Clients -> Seq(Answers)] /\ userID \in [Clients -> Users \cup {NULL}]
      /\ connects \in [Clients -> 0 .. 2]
  BY DEF TypeOK
<1>6. ASSUME NEW d \in Clients, d # c, Linked(d)'
      PROVE  Linked(d) /\ peer'[d] = peer[d] /\ peerData'[peer[d]] = peerData[peer[d]]
  <2>1. peer'[d] = peer[d] /\ peer[d] # NULL /\ peer[d] \in Peers
    BY <1>1, <1>3, <1>6 DEF Linked
  <2>2. peer[d] # p
    BY <1>1, <1>3, <1>6, <2>1 DEF Linked
  <2>. QED  BY <1>1, <1>2, <1>3, <1>6, <2>1, <2>2 DEF Linked
<1>7. LinkInv'
  BY <1>1, <1>2, <1>3 DEF LoginInv, LinkInv, Server!Slot
<1>8. AcceptedIsBound'
  <2>1. ASSUME NEW d \in Clients, Linked(d)', NEW i \in DOMAIN down'[d], Accepted(down'[d][i])
        PROVE  peerData'[peer'[d]] = down'[d][i].userid
    <3>1. CASE d = c
      BY <1>4, <1>5, <2>1, <3>1
    <3>2. CASE d # c
      <4>1. Linked(d) /\ peer'[d] = peer[d] /\ peerData'[peer[d]] = peerData[peer[d]]
        BY <1>6, <2>1, <3>2
      <4>2. down'[d] = down[d]
        BY <1>4, <1>5, <3>2
      <4>. QED  BY <2>1, <4>1, <4>2 DEF LoginInv, AcceptedIsBound, Accepted
    <3>. QED  BY <3>1, <3>2
  <2>. QED  BY <2>1 DEF AcceptedIsBound, Accepted
<1>9. SilentInv'
  <2>1. connects'[c] # 0 /\ \A d \in Clients \ {c} : connects'[d] = connects[d] /\ peer'[d] = peer[d]
    BY <1>1, <1>3, <1>4, <1>5
  <2>. QED  BY <1>4, <2>1 DEF LoginInv, SilentInv
<1>10. HeardInv'
  <2>1. ASSUME NEW d \in Clients, Linked(d)', connects'[d] = 1, NEW i \in DOMAIN netMsgList'[d],
               Accepted(netMsgList'[d][i])
        PROVE  peerData'[peer'[d]] = netMsgList'[d][i].userid
    <3>1. CASE d = c
      <4>1. connects[c] = 0
        BY <1>4, <1>5, <2>1, <3>1
      <4>. QED  BY <1>4, <2>1, <3>1, <4>1 DEF LoginInv, SilentInv
    <3>2. CASE d # c
      <4>1. Linked(d) /\ peer'[d] = peer[d] /\ peerData'[peer[d]] = peerData[peer[d]]
        BY <1>6, <2>1, <3>2
      <4>2. netMsgList'[d] = netMsgList[d] /\ connects'[d] = connects[d]
        BY <1>4, <1>5, <3>2
      <4>. QED  BY <2>1, <4>1, <4>2 DEF LoginInv, HeardInv
    <3>. QED  BY <3>1, <3>2
  <2>. QED  BY <2>1 DEF HeardInv
<1>11. BoundInv'
  <2>1. ASSUME NEW d \in Clients, Linked(d)', connects'[d] = 1, bLogin'[d]
        PROVE  peerData'[peer'[d]] = userID'[d]
    <3>1. d # c
      BY <1>4, <2>1
    <3>2. Linked(d) /\ peer'[d] = peer[d] /\ peerData'[peer[d]] = peerData[peer[d]]
      BY <1>6, <2>1, <3>1
    <3>3. connects'[d] = connects[d] /\ userID'[d] = userID[d]
      BY <1>4, <1>5, <3>1
    <3>. QED  BY <1>4, <2>1, <3>2, <3>3 DEF LoginInv, BoundInv
  <2>. QED  BY <2>1 DEF BoundInv
<1>. QED  BY <1>7, <1>8, <1>9, <1>10, <1>11 DEF LoginInv

\* The server handles a request.  Whoever is linked and has an accepted login
\* sits on a slot bound to that user, which the server does not bind again.
LEMMA ServerLogins ==
  ASSUME TypeOK, Server!PeerBinding, LoginInv, NEW p \in Peers, OnServerReceive(p)
  PROVE  LoginInv'
<1> DEFINE m == Head(up[p])
<1>1. m \in Requests /\ Handle(p, m) /\ Server!TypeOK
  <2>1. up[p] # <<>> /\ up[p] \in Seq(Requests)
    BY DEF OnServerReceive, TypeOK
  <2>. QED  BY <2>1, Headed DEF OnServerReceive, TypeOK
<1> HIDE DEF m
<1>2. UNCHANGED <<link, peer, connects, netMsgList, bLogin, userID>>
  BY DEF OnServerReceive, session
<1>3. \A q \in Peers : /\ peerData[q] \in Users => peerData'[q] = peerData[q]
                       /\ slot[q] # "free" => slot'[q] # "free"
  BY <1>1, SlotKept
<1>4. \A n \in sent' : Accepted(n.packet) => peerData'[n.to] = n.packet.userid
  <2>1. peerData \in [Peers -> Users \cup {NULL}]
    BY <1>1 DEF Server!TypeOK
  <2>. QED  BY <1>1, <2>1, Sends DEF Accepted
<1>5. ASSUME NEW c \in Clients, Linked(c)
      PROVE  peer[c] \in Peers /\ userID[c] \in Users
             /\ down[c] \in Seq(Answers) /\ netMsgList[c] \in Seq(Answers)
  BY <1>5 DEF Linked, TypeOK
<1>6. \A c \in Clients : Linked(c)' <=> Linked(c)
  BY <1>2 DEF Linked
<1>7. LinkInv'
  BY <1>2, <1>3 DEF LoginInv, LinkInv
<1>8. ASSUME NEW c \in Clients, Linked(c)', NEW i \in DOMAIN down'[c], Accepted(down'[c][i])
      PROVE  peerData'[peer'[c]] = down'[c][i].userid
  <2>1. Linked(c) /\ peer'[c] = peer[c]
    BY <1>2, <1>6, <1>8
  <2>2. CASE \E j \in DOMAIN down[c] : down'[c][i] = down[c][j]
    <3>1. PICK j \in DOMAIN down[c] : down'[c][i] = down[c][j]
      BY <2>2
    <3>2. peerData[peer[c]] = down[c][j].userid
      BY <1>8, <2>1, <3>1 DEF LoginInv, AcceptedIsBound, Accepted
    <3>3. down[c][j].userid \in Users
      <4>1. down[c][j] \in Answers
        BY <1>5, <2>1
      <4>. QED  BY <1>8, <3>1, <4>1, AnswerFields DEF Accepted
    <3>4. peerData'[peer[c]] = peerData[peer[c]]
      BY <1>3, <1>5, <2>1, <3>2, <3>3
    <3>. QED  BY <2>1, <3>1, <3>2, <3>4
  <2>3. CASE \E n \in sent' : n.to = peer[c] /\ n.packet = down'[c][i]
    BY <1>4, <1>8, <2>1, <2>3
  <2>4. down'[c] = down[c] => \E j \in DOMAIN down[c] : down'[c][i] = down[c][j]
    BY <1>8
  <2>. QED  BY <2>2, <2>3, <2>4, Routed
<1>9. AcceptedIsBound'
  BY <1>8 DEF AcceptedIsBound, Accepted
<1>10. SilentInv'
  BY <1>2 DEF LoginInv, SilentInv
<1>11. HeardInv'
  <2>1. ASSUME NEW c \in Clients, Linked(c), connects[c] = 1, NEW i \in DOMAIN netMsgList[c],
               Accepted(netMsgList[c][i])
        PROVE  peerData'[peer[c]] = netMsgList[c][i].userid
    <3>1. peerData[peer[c]] = netMsgList[c][i].userid
      BY <2>1 DEF LoginInv, HeardInv
    <3>2. netMsgList[c][i] \in Answers
      BY <1>5, <2>1
    <3>3. netMsgList[c][i].userid \in Users
      BY <2>1, <3>2, AnswerFields DEF Accepted
    <3>. QED  BY <1>3, <1>5, <2>1, <3>1, <3>3
  <2>. QED  BY <1>2, <1>6, <2>1 DEF HeardInv
<1>12. BoundInv'
  <2>1. ASSUME NEW c \in Clients, Linked(c), connects[c] = 1, bLogin[c]
        PROVE  peerData'[peer[c]] = userID[c]
    <3>1. peerData[peer[c]] = userID[c]
      BY <2>1 DEF LoginInv, BoundInv
    <3>. QED  BY <1>3, <1>5, <2>1, <3>1
  <2>. QED  BY <1>2, <1>6, <2>1 DEF BoundInv
<1>. QED  BY <1>7, <1>9, <1>10, <1>11, <1>12 DEF LoginInv

\* The server gives a connection up: its client is not linked from then on.
LEMMA TimeoutLogins ==
  ASSUME TypeOK, LoginInv, NEW p \in Peers, OnServerDisconnect(p)
  PROVE  LoginInv'
<1>1. /\ link' = [link EXCEPT ![p] = NULL]
      /\ UNCHANGED <<peer, connects, down, netMsgList, bLogin, userID>>
  BY DEF OnServerDisconnect, session
<1>2. \A q \in Peers \ {p} : peerData'[q] = peerData[q] /\ slot'[q] = slot[q]
  BY DEF OnServerDisconnect, Server!OnDisconnect, Server!OnDisconnectAnonymous, TypeOK,
         Server!TypeOK
<1>3. link \in [Peers -> Clients \cup {NULL}] /\ peer \in [Clients -> Peers \cup {NULL}]
      /\ NULL \notin Clients
  BY SessionAssumption DEF TypeOK
<1>4. ASSUME NEW c \in Clients, Linked(c)'
      PROVE  Linked(c) /\ peerData'[peer[c]] = peerData[peer[c]]
  <2>1. peer[c] \in Peers /\ peer[c] # p
    BY <1>1, <1>3, <1>4 DEF Linked
  <2>. QED  BY <1>1, <1>2, <1>3, <1>4, <2>1 DEF Linked
<1>5. LinkInv'
  BY <1>1, <1>2, <1>3 DEF LoginInv, LinkInv
<1>6. AcceptedIsBound'
  BY <1>1, <1>4 DEF LoginInv, AcceptedIsBound
<1>7. SilentInv'
  BY <1>1 DEF LoginInv, SilentInv
<1>8. HeardInv'
  BY <1>1, <1>4 DEF LoginInv, HeardInv
<1>9. BoundInv'
  BY <1>1, <1>4 DEF LoginInv, BoundInv
<1>. QED  BY <1>5, <1>6, <1>7, <1>8, <1>9 DEF LoginInv

\* Every step keeps what was accepted true.
LEMMA LoginNext ==
  TypeOK /\ Server!PeerBinding /\ LoginInv /\ [Next]_vars => LoginInv'
<1> SUFFICES ASSUME TypeOK, Server!PeerBinding, LoginInv, [Next]_vars  PROVE LoginInv'
  OBVIOUS
<1>1. CASE UNCHANGED vars
  BY <1>1, SameLogins DEF vars, server, net
<1>2. ASSUME NEW c \in Clients, OnBtnBuild(c) \/ BuildReq(c) \/ OnViewerClose(c)
      PROVE  LoginInv'
  BY <1>2, SameLogins DEF OnBtnBuild, BuildReq, OnViewerClose, server, net
<1>. QED
  BY <1>1, <1>2, ConnectLogins, DropLogins, ReceiveLogins, DispatchLogins, ServerLogins,
     TimeoutLogins DEF Next

\* Hence the invariant holds throughout a session.
LEMMA LoginInvHolds == Spec => []LoginInv
<1>1. Spec => [](TypeOK /\ Server!PeerBinding)
  BY SessionRunsTheServer, ServerBound, TypeCorrect, PTL
<1>. QED  BY <1>1, LoginInit, LoginNext, PTL DEF Spec

\* A login accepted on the connection that a client has now is one that the
\* server has on record for it, however often the client drops its connection
\* and makes a new one (PandaRC.cpp:55, Network.cpp:86).
THEOREM AcceptedIsBoundHolds == Spec => []AcceptedIsBound
<1>1. LoginInv => AcceptedIsBound
  BY DEF LoginInv
<1>. QED  BY <1>1, LoginInvHolds, PTL

\* On its first connection a client that takes itself to be logged in is logged
\* in on the server, under the user id it goes by (PandaRC.cpp:146).
THEOREM LoginMeansBoundHolds == Spec => []LoginMeansBound
<1>1. LoginInv => LoginMeansBound
  BY DEF LoginInv, BoundInv, LoginMeansBound, FirstConnection
<1>. QED  BY <1>1, LoginInvHolds, PTL

-----------------------------------------------------------------------------
(* Rooms: what the answers under way tell a client.                        *)

\* Every element of a finite set is in the sequence made of it.
LEMMA SetSequenceOnto ==
  ASSUME NEW S, IsFiniteSet(S), NEW x \in S
  PROVE  \E i \in DOMAIN SetToSeq(S) : SetToSeq(S)[i] = x
<1> DEFINE n == Cardinality(S)
<1>1. n \in Nat /\ ExistsBijection(1..n, S)
  BY FS_CardinalityType
<1>2. PICK f \in Bijection(1..n, S) : TRUE
  BY <1>1 DEF ExistsBijection
<1>3. f \in [1..n -> S] /\ IsInjective(f)
  BY <1>2 DEF Bijection, Injection, IsInjective
<1>4. SetToSeq(S) \in [1..n -> S] /\ IsInjective(SetToSeq(S))
  BY <1>3 DEF SetToSeq
<1>5. SetToSeq(S) \in Injection(1..n, S)
  BY <1>4 DEF Injection, IsInjective
<1>6. IsFiniteSet(1..n) /\ Cardinality(1..n) = n
  BY <1>1, FS_Interval
<1>7. SetToSeq(S) \in Surjection(1..n, S)
  BY <1>5, <1>6, FS_Injection
<1>. QED  BY <1>4, <1>7 DEF Surjection

\* What was queued for a slot reaches it.
LEMMA PacketsOnto ==
  ASSUME IsFiniteSet(sent'), sent' \subseteq [to : Peers, packet : Answers], NEW n \in sent'
  PROVE  \E i \in DOMAIN PacketsTo(n.to) : PacketsTo(n.to)[i] = n.packet
<1> DEFINE mine == {m.packet : m \in {k \in sent' : k.to = n.to}}
           first == {m \in mine : ~ForViewer(m)}
           second == {m \in mine : ForViewer(m)}
<1>1. PacketsTo(n.to) = SetToSeq(first) \o SetToSeq(second)
  BY DEF PacketsTo
<1>2. IsFiniteSet(mine)
  <2> DEFINE addressed == {k \in sent' : k.to = n.to}
             f == [k \in addressed |-> k.packet]
  <2>1. IsFiniteSet(addressed)
    BY FS_Subset
  <2>2. f \in Surjection(addressed, mine)
    BY DEF Surjection
  <2>. QED  BY <2>1, <2>2, FS_Surjection
<1>3. n.packet \in first \/ n.packet \in second
  OBVIOUS
<1>4. first \subseteq mine /\ second \subseteq mine
  OBVIOUS
<1> HIDE DEF mine, first, second
<1>5. IsFiniteSet(first) /\ IsFiniteSet(second)
  BY <1>2, <1>4, FS_Subset
<1>6. SetToSeq(first) \in Seq(first) /\ SetToSeq(second) \in Seq(second)
  BY <1>5, SetSequence
<1> DEFINE a == SetToSeq(first)
           b == SetToSeq(second)
<1>7. a \in Seq(mine) /\ b \in Seq(mine)
  BY <1>4, <1>6
<1>8. \/ \E i \in DOMAIN a : a[i] = n.packet
      \/ \E i \in DOMAIN b : b[i] = n.packet
  BY <1>3, <1>5, SetSequenceOnto
<1>9. PacketsTo(n.to) = a \o b
  BY <1>1
<1> HIDE DEF a, b
<1>10. /\ Len(a) \in Nat /\ Len(b) \in Nat /\ DOMAIN a = 1..Len(a) /\ DOMAIN b = 1..Len(b)
       /\ DOMAIN (a \o b) = 1 .. Len(a) + Len(b)
       /\ \A i \in 1 .. Len(a) : (a \o b)[i] = a[i]
       /\ \A i \in 1 .. Len(b) : (a \o b)[i + Len(a)] = b[i]
  BY <1>7, ConcatProperties, LenProperties
<1>11. CASE \E i \in DOMAIN a : a[i] = n.packet
  <2>1. PICK i \in DOMAIN a : a[i] = n.packet
    BY <1>11
  <2>2. i \in DOMAIN (a \o b) /\ (a \o b)[i] = n.packet
    BY <1>10, <2>1
  <2>. QED  BY <1>9, <2>2
<1>12. CASE \E i \in DOMAIN b : b[i] = n.packet
  <2>1. PICK i \in DOMAIN b : b[i] = n.packet
    BY <1>12
  <2>2. i + Len(a) \in DOMAIN (a \o b) /\ (a \o b)[i + Len(a)] = n.packet
    BY <1>10, <2>1
  <2>. QED  BY <1>9, <2>2
<1>. QED  BY <1>8, <1>11, <1>12

\* What a client has once it handled one answer more.
AfterAnswer(S, m, service) ==
  IF m.cmd = "BUILD_RET" /\ m.service = service THEN S \cup {m.roomid}
  ELSE IF m.cmd = "UNBUILD_RET" /\ m.code = 0 /\ m.service = service THEN S \ {m.roomid}
  ELSE S

\* Handling the first answer leaves what the client will have as it is.
LEMMA ReplayTail ==
  ASSUME NEW q \in Seq(Answers), q # <<>>, NEW k \in {1, 2}, NEW S
  PROVE  Replay(AfterAnswer(S, Head(q), k), Tail(q), k) = Replay(S, q, k)
<1> DEFINE m == q[1]
           t == Tail(q)
<1>1. /\ Len(q) \in Nat /\ Len(q) > 0 /\ DOMAIN q = 1..Len(q) /\ Head(q) = m
      /\ t \in Seq(Answers) /\ Len(t) = Len(q) - 1
      /\ \A i \in 1 .. Len(q) - 1 : t[i] = q[i + 1]
  BY HeadTailProperties, LenProperties, EmptySeq
<1>2. DOMAIN t = 1 .. Len(q) - 1
  BY <1>1, LenProperties
<1> HIDE DEF t, m
<1> SUFFICES ASSUME NEW r \in Server!RoomIDs
             PROVE  r \in Replay(AfterAnswer(S, m, k), t, k) <=> r \in Replay(S, q, k)
  BY <1>1 DEF Replay, t
<1>3. \A i \in 0 .. Len(q) - 1 : OpenAfter(t, i, r, k) <=> OpenAfter(q, i + 1, r, k)
  <2> SUFFICES ASSUME NEW i \in 0 .. Len(q) - 1
               PROVE  OpenAfter(t, i, r, k) <=> OpenAfter(q, i + 1, r, k)
    OBVIOUS
  <2>1. ASSUME OpenAfter(t, i, r, k), NEW j \in i + 2 .. Len(q)  PROVE ~Closes(q[j], r, k)
    <3>1. j - 1 \in i + 1 .. Len(t) /\ t[j - 1] = q[j]
      BY <1>1, <2>1
    <3>. QED  BY <2>1, <3>1 DEF OpenAfter
  <2>2. ASSUME OpenAfter(q, i + 1, r, k), NEW j \in i + 1 .. Len(t)  PROVE ~Closes(t[j], r, k)
    <3>1. j + 1 \in i + 2 .. Len(q) /\ t[j] = q[j + 1]
      BY <1>1, <2>2
    <3>. QED  BY <2>2, <3>1 DEF OpenAfter
  <2>3. i + 1 + 1 = i + 2
    OBVIOUS
  <2>. QED  BY <2>1, <2>2, <2>3 DEF OpenAfter
<1>4. OpenAfter(q, 0, r, k) <=> ~Closes(m, r, k) /\ OpenAfter(q, 1, r, k)
  BY <1>1 DEF OpenAfter, m
<1>5. (\E i \in DOMAIN q : Opens(q[i], r, k) /\ OpenAfter(q, i, r, k))
        <=> \/ Opens(m, r, k) /\ OpenAfter(q, 1, r, k)
            \/ \E i \in DOMAIN t : Opens(t[i], r, k) /\ OpenAfter(t, i, r, k)
  <2>1. ASSUME NEW i \in DOMAIN q, Opens(q[i], r, k), OpenAfter(q, i, r, k), i # 1
        PROVE  \E j \in DOMAIN t : Opens(t[j], r, k) /\ OpenAfter(t, j, r, k)
    <3>1. i - 1 \in DOMAIN t /\ t[i - 1] = q[i] /\ i - 1 \in 0 .. Len(q) - 1 /\ i - 1 + 1 = i
      BY <1>1, <1>2, <2>1
    <3>. QED  BY <1>3, <2>1, <3>1
  <2>2. ASSUME NEW i \in DOMAIN t, Opens(t[i], r, k), OpenAfter(t, i, r, k)
        PROVE  \E j \in DOMAIN q : Opens(q[j], r, k) /\ OpenAfter(q, j, r, k)
    <3>1. i + 1 \in DOMAIN q /\ t[i] = q[i + 1] /\ i \in 0 .. Len(q) - 1
      BY <1>1, <1>2
    <3>. QED  BY <1>3, <2>2, <3>1
  <2>3. 1 \in DOMAIN q
    BY <1>1
  <2>. QED  BY <2>1, <2>2, <2>3 DEF m
<1>6. OpenAfter(t, 0, r, k) <=> OpenAfter(q, 1, r, k)
  BY <1>1, <1>3
<1>7. r \in AfterAnswer(S, m, k) <=> Opens(m, r, k) \/ (r \in S /\ ~Closes(m, r, k))
  BY DEF AfterAnswer, Opens, Closes
<1>. QED  BY <1>4, <1>5, <1>6, <1>7 DEF Replay

\* What more answers change.
LEMMA ReplayJoined ==
  ASSUME NEW q \in Seq(Answers), NEW t \in Seq(Answers), NEW k \in {1, 2}, NEW S,
         NEW r \in Server!RoomIDs
  PROVE  /\ (\A i \in DOMAIN t : ~Opens(t[i], r, k) /\ ~Closes(t[i], r, k))
              => (r \in Replay(S, q \o t, k) <=> r \in Replay(S, q, k))
         /\ (\A i \in DOMAIN t : ~Closes(t[i], r, k)) /\ (\E i \in DOMAIN t : Opens(t[i], r, k))
              => r \in Replay(S, q \o t, k)
         /\ (\A i \in DOMAIN t : ~Opens(t[i], r, k)) /\ (\E i \in DOMAIN t : Closes(t[i], r, k))
              => r \notin Replay(S, q \o t, k)
<1> DEFINE n == Len(q)
           z == q \o t
<1>1. /\ n \in Nat /\ Len(t) \in Nat /\ DOMAIN q = 1..n /\ DOMAIN t = 1..Len(t)
      /\ z \in Seq(Answers) /\ Len(z) = n + Len(t) /\ DOMAIN z = 1 .. n + Len(t)
      /\ \A i \in 1 .. n : z[i] = q[i]
      /\ \A i \in 1 .. Len(t) : z[n + i] = t[i]
  BY ConcatProperties, LenProperties
<1> HIDE DEF z, n
<1>2. \A i \in 1 .. n + Len(t) : i > n => i - n \in DOMAIN t /\ z[i] = t[i - n]
  <2> SUFFICES ASSUME NEW i \in 1 .. n + Len(t), i > n
               PROVE  i - n \in DOMAIN t /\ z[i] = t[i - n]
    OBVIOUS
  <2>1. i - n \in 1 .. Len(t) /\ n + (i - n) = i
    BY <1>1
  <2>. QED  BY <1>1, <2>1
<1>3. ASSUME \A i \in DOMAIN t : ~Closes(t[i], r, k), NEW i \in 0 .. n, OpenAfter(q, i, r, k)
      PROVE  OpenAfter(z, i, r, k)
  <2> SUFFICES ASSUME NEW j \in i + 1 .. Len(z)  PROVE ~Closes(z[j], r, k)
    BY DEF OpenAfter
  <2>1. CASE j <= n
    <3>1. j \in i + 1 .. n /\ z[j] = q[j]
      BY <1>1, <2>1
    <3>. QED  BY <1>3, <3>1 DEF OpenAfter, n
  <2>2. CASE j > n
    <3>1. j \in 1 .. n + Len(t)
      BY <1>1
    <3>. QED  BY <1>2, <1>3, <2>2, <3>1
  <2>. QED  BY <1>1, <2>1, <2>2
<1>4. ASSUME NEW i \in 0 .. n, OpenAfter(z, i, r, k)
      PROVE  OpenAfter(q, i, r, k)
  <2> SUFFICES ASSUME NEW j \in i + 1 .. n  PROVE ~Closes(q[j], r, k)
    BY DEF OpenAfter, n
  <2>1. j \in i + 1 .. Len(z) /\ z[j] = q[j]
    BY <1>1
  <2>. QED  BY <1>4, <2>1 DEF OpenAfter
<1>5. ASSUME \A i \in DOMAIN t : ~Opens(t[i], r, k) /\ ~Closes(t[i], r, k)
      PROVE  r \in Replay(S, z, k) <=> r \in Replay(S, q, k)
  <2>1. OpenAfter(z, 0, r, k) <=> OpenAfter(q, 0, r, k)
    BY <1>1, <1>3, <1>4, <1>5
  <2>2. ASSUME NEW i \in DOMAIN z, Opens(z[i], r, k), OpenAfter(z, i, r, k)
        PROVE  \E j \in DOMAIN q : Opens(q[j], r, k) /\ OpenAfter(q, j, r, k)
    <3>1. i <= n
      BY <1>1, <1>2, <1>5, <2>2
    <3>2. i \in DOMAIN q /\ i \in 0 .. n /\ z[i] = q[i]
      BY <1>1, <3>1
    <3>. QED  BY <1>4, <2>2, <3>2
  <2>3. ASSUME NEW i \in DOMAIN q, Opens(q[i], r, k), OpenAfter(q, i, r, k)
        PROVE  \E j \in DOMAIN z : Opens(z[j], r, k) /\ OpenAfter(z, j, r, k)
    <3>1. i \in DOMAIN z /\ i \in 0 .. n /\ z[i] = q[i]
      BY <1>1
    <3>. QED  BY <1>3, <1>5, <2>3, <3>1
  <2>. QED  BY <2>1, <2>2, <2>3 DEF Replay
<1>6. ASSUME \A i \in DOMAIN t : ~Closes(t[i], r, k), NEW i \in DOMAIN t, Opens(t[i], r, k)
      PROVE  r \in Replay(S, z, k)
  <2>1. n + i \in DOMAIN z /\ z[n + i] = t[i]
    BY <1>1
  <2>2. OpenAfter(z, n + i, r, k)
    <3> SUFFICES ASSUME NEW j \in n + i + 1 .. Len(z)  PROVE ~Closes(z[j], r, k)
      BY DEF OpenAfter
    <3>1. j \in 1 .. n + Len(t) /\ j > n
      BY <1>1
    <3>. QED  BY <1>2, <1>6, <3>1
  <2>. QED  BY <1>6, <2>1, <2>2 DEF Replay
<1>7. ASSUME \A i \in DOMAIN t : ~Opens(t[i], r, k), NEW j \in DOMAIN t, Closes(t[j], r, k)
      PROVE  r \notin Replay(S, z, k)
  <2>1. n + j \in 1 .. Len(z) /\ z[n + j] = t[j]
    BY <1>1
  <2>2. ~OpenAfter(z, 0, r, k)
    BY <1>7, <2>1 DEF OpenAfter
  <2>3. ASSUME NEW i \in DOMAIN z, Opens(z[i], r, k), OpenAfter(z, i, r, k)  PROVE FALSE
    <3>1. i <= n
      BY <1>1, <1>2, <1>7, <2>3
    <3>2. n + j \in i + 1 .. Len(z)
      BY <1>1, <2>1, <2>3, <3>1
    <3>. QED  BY <1>7, <2>1, <2>3, <3>2 DEF OpenAfter
  <2>. QED  BY <2>2, <2>3 DEF Replay
<1>. QED  BY <1>5, <1>6, <1>7 DEF z

-----------------------------------------------------------------------------
(* What the handler of a request does to users and rooms.                  *)

\* An answer that neither opens nor closes a room.
Quiet(m) == \A r \in Server!RoomIDs, k \in {1, 2} : ~Opens(m, r, k) /\ ~Closes(m, r, k)

\* A login that is accepted.
LoggedIn(p, u) ==
  /\ UNCHANGED <<roomList, roomMap, heap, autoRoomID>>
  /\ peerData[p] = NULL /\ userPeer[u] = NULL
  /\ peerData' = [peerData EXCEPT ![p] = u] /\ userPeer' = [userPeer EXCEPT ![u] = p]
  /\ \A n \in sent' : Quiet(n.packet)

\* A request that changes no room and no login: refused, unknown or deadly.
Idle(m) ==
  /\ UNCHANGED <<roomList, roomMap, heap, autoRoomID, peerData, userPeer>>
  /\ \A n \in sent' : Quiet(n.packet)
  /\ \A r \in Server!RoomIDs :
       m = UnbuildReqMsg(r) => roomMap[r] = NULL \/ heap[roomMap[r]] = NULL

BuildRet(r, k)   == [cmd |-> "BUILD_RET", roomid |-> r, service |-> k]
UnbuildRet(r, k) == [cmd |-> "UNBUILD_RET", code |-> 0, roomid |-> r, service |-> k]

\* Room id is built for viewer u in block a.
Built(u, a, id) ==
  /\ heap[a] = NULL /\ id = autoRoomID + 1
  /\ heap' = [heap EXCEPT ![a] = [id |-> id, client |-> u, server |-> Streamer]]
  /\ roomMap' = [roomMap EXCEPT ![id] = a]
  /\ autoRoomID' = id
  /\ roomList' = [roomList EXCEPT ![Streamer] = @ \cup {id}]
  /\ sent' = Server!Send2Client(userPeer[Streamer], BuildRet(id, 1))
               \cup Server!Send2Client(userPeer[u], BuildRet(id, 2))
  /\ UNCHANGED <<peerData, userPeer>>

\* The room found under id r is closed.
Unbuilt(r) ==
  /\ roomMap[r] \in Addrs /\ heap[roomMap[r]] # NULL
  /\ heap' = [a \in Addrs |-> IF a = roomMap[r] THEN NULL ELSE heap[a]]
  /\ \A v \in Users :
       roomList'[v] = IF v = heap[roomMap[r]].server
                      THEN roomList[v] \ {r, heap[roomMap[r]].id} ELSE roomList[v]
  /\ sent' = Server!Send2Client(userPeer[heap[roomMap[r]].server], UnbuildRet(r, 1))
               \cup Server!Send2Client(userPeer[heap[roomMap[r]].client], UnbuildRet(r, 2))
  /\ UNCHANGED <<roomMap, autoRoomID, peerData, userPeer>>

\* Whatever a handler does is one of these four.
LEMMA HandledAs ==
  ASSUME Server!TypeOK, Server!PeerBinding, NEW p \in Peers, NEW m \in Requests, Handle(p, m)
  PROVE  \/ \E u \in Users : m = LoginReqMsg(u) /\ LoggedIn(p, u)
         \/ Idle(m)
         \/ \E u \in Users, a \in Addrs, id \in Server!RoomIDs :
              m = BuildReqMsg(u) /\ Built(u, a, id)
         \/ \E r \in Server!RoomIDs : m = UnbuildReqMsg(r) /\ Unbuilt(r)
<1>1. CASE \E u \in Users : m = LoginReqMsg(u)
  <2>1. PICK u \in Users : m = LoginReqMsg(u)
    BY <1>1
  <2>2. m.cmd = "LOGIN_REQ" /\ m.userid = u
    BY <2>1 DEF LoginReqMsg
  <2>3. Server!LoginReq(p, u)
    BY <2>2 DEF Handle
  <2>4. UNCHANGED <<roomList, roomMap, heap, autoRoomID>>
    BY <2>3 DEF Server!LoginReq, Server!roomVars
  <2>5. \A n \in sent' : Quiet(n.packet)
    BY <2>3 DEF Server!LoginReq, Server!Send2Client, Quiet, Opens, Closes
  <2>6. peerData[p] = NULL
    BY <2>3 DEF Server!LoginReq, Server!PeerBinding, Server!TypeOK
  <2>7. \A r \in Server!RoomIDs : m # UnbuildReqMsg(r)
    BY <2>2 DEF UnbuildReqMsg
  <2>. QED  BY <2>1, <2>3, <2>4, <2>5, <2>6, <2>7 DEF Server!LoginReq, LoggedIn, Idle
<1>2. CASE \E u \in Users : m = BuildReqMsg(u)
  <2>1. PICK u \in Users : m = BuildReqMsg(u)
    BY <1>2
  <2>2. m.cmd = "BUILD_REQ" /\ m.client = u /\ m.server = Streamer
    BY <2>1 DEF BuildReqMsg
  <2>3. Server!BuildReqUnknown(p, u, Streamer) \/ Server!BuildReq(p, u, Streamer)
    BY <2>2 DEF Handle
  <2>4. \A r \in Server!RoomIDs : m # UnbuildReqMsg(r)
    BY <2>2 DEF UnbuildReqMsg
  <2>5. CASE Server!BuildReqUnknown(p, u, Streamer)
    BY <2>4, <2>5 DEF Server!BuildReqUnknown, Server!Crash, Server!userVars, Server!roomVars, Idle
  <2>6. CASE Server!BuildReq(p, u, Streamer)
    <3> DEFINE id == autoRoomID + 1
    <3>1. Server!GenRoomID(autoRoomID) = id /\ id \in Server!RoomIDs
      <4>1. autoRoomID \in 0 .. MaxRoomID /\ autoRoomID < BuildLimit
            /\ MaxRoomID \in Nat /\ BuildLimit \in 0 .. MaxRoomID
        BY <2>6, SessionAssumption DEF Server!BuildReq, Server!TypeOK
      <4>2. autoRoomID % MaxRoomID = autoRoomID
        BY <4>1
      <4>. QED  BY <4>1, <4>2 DEF Server!GenRoomID, Server!RoomIDs
    <3> HIDE DEF id
    <3>2. PICK a \in Addrs :
            /\ heap[a] = NULL
            /\ heap' = [heap EXCEPT ![a] = [id |-> id, client |-> u, server |-> Streamer]]
            /\ roomMap' = [roomMap EXCEPT ![id] = a]
      BY <2>6, <3>1 DEF Server!BuildReq, Server!NewRoom
    <3>3. /\ autoRoomID' = id /\ roomList' = [roomList EXCEPT ![Streamer] = @ \cup {id}]
          /\ UNCHANGED <<peerData, userPeer>>
          /\ sent' = Server!Send2Client(userPeer[Streamer], BuildRet(id, 1))
                       \cup Server!Send2Client(userPeer[u], BuildRet(id, 2))
      BY <2>6, <3>1 DEF Server!BuildReq, Server!userVars, BuildRet
    <3>4. Built(u, a, id)
      BY <3>2, <3>3 DEF Built, id
    <3>. QED  BY <2>1, <3>1, <3>4
  <2>. QED  BY <2>3, <2>5, <2>6
<1>3. CASE \E r \in Server!RoomIDs : m = UnbuildReqMsg(r)
  <2>1. PICK r \in Server!RoomIDs : m = UnbuildReqMsg(r)
    BY <1>3
  <2>2. m.cmd = "UNBUILD_REQ" /\ m.roomid = r
    BY <2>1 DEF UnbuildReqMsg
  <2>3. Server!UnbuildReqUnknown(p, r) \/ Server!UnbuildReqFreed(p, r) \/ Server!UnbuildReq(p, r)
    BY <2>2 DEF Handle
  <2>4. \A q \in Server!RoomIDs : m = UnbuildReqMsg(q) => q = r
    BY <2>2 DEF UnbuildReqMsg
  <2>5. CASE Server!UnbuildReqUnknown(p, r)
    <3>1. \A n \in sent' : Quiet(n.packet)
      BY <2>5 DEF Server!UnbuildReqUnknown, Server!Send2Client, Quiet, Opens, Closes
    <3>. QED
      BY <2>4, <2>5, <3>1 DEF Server!UnbuildReqUnknown, Server!GetRoom, Server!userVars,
         Server!roomVars, Idle
  <2>6. CASE Server!UnbuildReqFreed(p, r)
    BY <2>4, <2>6 DEF Server!UnbuildReqFreed, Server!Dangling, Server!Crash, Server!userVars,
       Server!roomVars, Idle
  <2>7. CASE Server!UnbuildReq(p, r)
    <3> DEFINE a == roomMap[r]
               room == heap[a]
    <3>1. a \in Addrs /\ room # NULL
      BY <2>7 DEF Server!UnbuildReq, Server!GetRoom, Server!Dangling, Server!TypeOK
    <3>2. /\ roomList' = Server!ListsAfterDelete(
                           Server!RemoveClientRoomID(roomList, room.server, r), {a})
          /\ heap' = Server!HeapAfterDelete({a})
          /\ sent' = Server!Send2Client(userPeer[room.server], UnbuildRet(r, 1))
                       \cup Server!Send2Client(userPeer[room.client], UnbuildRet(r, 2))
          /\ UNCHANGED <<roomMap, autoRoomID, peerData, userPeer>>
      BY <2>7 DEF Server!UnbuildReq, Server!GetRoom, Server!userVars, UnbuildRet
    <3>3. heap' = [b \in Addrs |-> IF b = a THEN NULL ELSE heap[b]]
      BY <3>2 DEF Server!HeapAfterDelete
    <3>4. ASSUME NEW v \in Users
          PROVE  roomList'[v] = IF v = room.server THEN roomList[v] \ {r, room.id} ELSE roomList[v]
      <4> DEFINE lists == Server!RemoveClientRoomID(roomList, room.server, r)
      <4>1. lists[v] = IF v = room.server THEN roomList[v] \ {r} ELSE roomList[v]
        BY DEF Server!RemoveClientRoomID, Server!TypeOK
      <4>2. roomList'[v] = lists[v] \ {heap[b].id : b \in {d \in {a} : heap[d].server = v}}
        BY <3>2 DEF Server!ListsAfterDelete
      <4>3. {heap[b].id : b \in {d \in {a} : heap[d].server = v}}
              = IF v = room.server THEN {room.id} ELSE {}
        BY DEF room
      <4> HIDE DEF lists, a, room
      <4>. QED  BY <4>1, <4>2, <4>3
    <3>5. Unbuilt(r)
      BY <3>1, <3>2, <3>3, <3>4 DEF Unbuilt
    <3>. QED  BY <2>1, <3>5
  <2>. QED  BY <2>3, <2>5, <2>6, <2>7
<1>. QED  BY <1>1, <1>2, <1>3, RequestFields

-----------------------------------------------------------------------------
(* The inductive invariant of the rooms.                                   *)

\* Ids in the map were issued.
IssuedOnly == \A r \in Server!RoomIDs : roomMap[r] # NULL => r <= autoRoomID

\* The server's part: what RoomMgrProofs shows of the tables.
Tables == Server!RoomTables /\ IssuedOnly

\* A user off line hears of none of its rooms.
OffLineUnheard ==
  \A u \in Users : userPeer[u] = NULL =>
    /\ \A r \in roomList[u] : <<r, 1>> \in unheard
    /\ \A a \in Addrs : heap[a] # NULL /\ heap[a].client = u => <<heap[a].id, 2>> \in unheard

\* Only issued ids are unheard of.
UnheardIssued == \A x \in unheard : x[1] <= autoRoomID

\* The server's rooms of a streamer, but for those it has not heard of.
Listed(c, r) ==
  /\ peerData[peer[c]] # NULL
  /\ r \in roomList[peerData[peer[c]]] /\ <<r, 1>> \notin unheard

\* StreamerKnowsRooms, room by room.
Knows(c) ==
  \A r \in Server!RoomIDs : r \in Replay(asServerRoom[c], Pending(c), 1) <=> Listed(c, r)

\* Answers under way that open room r for the viewer.
Promised(c, r) ==
  \/ \E i \in DOMAIN netMsgList[c] : Opens(netMsgList[c][i], r, 2)
  \/ \E i \in DOMAIN down[c] : Opens(down[c][i], r, 2)

\* A room the client will open a window for, has one for, or asked to close.
Awaited(c, r) ==
  \/ r \notin asClientRoom[c] /\ Promised(c, r)
  \/ windows[c] > 0 /\ viewer[c] = r
  \/ \E i \in DOMAIN up[peer[c]] : up[peer[c]][i] = UnbuildReqMsg(r)

\* A viewer's rooms have a window, will have one or are about to be closed.
Views(c) ==
  ~overlapped[c] /\ peerData[peer[c]] # NULL =>
    \A a \in Addrs, r \in Server!RoomIDs :
      heap[a] # NULL /\ heap[a].client = peerData[peer[c]] /\ heap[a].id = r =>
        <<r, 2>> \in unheard \/ Awaited(c, r)

\* Rooms a client knows, or will, have been issued: a new one is new to it.
KnownIssued(c) ==
  /\ \A r \in asClientRoom[c] : r <= autoRoomID
  /\ \A i \in DOMAIN netMsgList[c] :
       netMsgList[c][i].cmd = "BUILD_RET" => netMsgList[c][i].roomid <= autoRoomID
  /\ \A i \in DOMAIN down[c] : down[c][i].cmd = "BUILD_RET" => down[c][i].roomid <= autoRoomID

\* Every part for one client; the last two only on a first connection.
ClientRooms(c) ==
  /\ connects[c] = 0 => asServerRoom[c] = {}
  /\ ~overlapped[c] => windows[c] <= 1
  /\ KnownIssued(c)
  /\ FirstConnection(c) /\ BlocksDistinct => Knows(c) /\ Views(c)

\* The inductive invariant behind RoomsAgree.
RoomsInv == OffLineUnheard /\ UnheardIssued /\ \A c \in Clients : ClientRooms(c)

\* At the start there is no room and no client is connected.
LEMMA RoomsInit == Init => RoomsInv
BY SessionAssumption DEF Init, Server!Init, RoomsInv, OffLineUnheard, UnheardIssued, ClientRooms,
   KnownIssued, FirstConnection

\* The invariant says at least what RoomsAgree says.
LEMMA RoomsAgreeFollows == TypeOK /\ RoomsInv => RoomsAgree
<1> SUFFICES ASSUME TypeOK, RoomsInv  PROVE StreamerKnowsRooms /\ NoRoomWithoutWindow
  BY DEF RoomsAgree
<1>1. StreamerKnowsRooms
  <2> SUFFICES ASSUME NEW c \in Clients, FirstConnection(c), BlocksDistinct
               PROVE  Replay(asServerRoom[c], Pending(c), 1) =
                        IF peerData[peer[c]] = NULL THEN {}
                        ELSE {r \in roomList[peerData[peer[c]]] : <<r, 1>> \notin unheard}
    BY DEF StreamerKnowsRooms
  <2>1. Knows(c)
    BY DEF RoomsInv, ClientRooms
  <2>2. Replay(asServerRoom[c], Pending(c), 1) \subseteq Server!RoomIDs
    BY DEF Replay
  <2>3. peerData[peer[c]] # NULL => roomList[peerData[peer[c]]] \subseteq Server!RoomIDs
    BY DEF FirstConnection, Linked, TypeOK, Server!TypeOK
  <2>. QED  BY <2>1, <2>2, <2>3 DEF Knows, Listed
<1>2. NoRoomWithoutWindow
  <2> SUFFICES ASSUME NEW c \in Clients, FirstConnection(c), BlocksDistinct, ~overlapped[c],
                      windows[c] = 0, Pending(c) = <<>>, up[peer[c]] = <<>>,
                      peerData[peer[c]] # NULL, NEW a \in Addrs, heap[a] # NULL,
                      heap[a].client = peerData[peer[c]]
               PROVE  <<heap[a].id, 2>> \in unheard
    BY DEF NoRoomWithoutWindow
  <2>1. <<heap[a].id, 2>> \in unheard \/ Awaited(c, heap[a].id)
    <3>1. heap[a].id \in Server!RoomIDs
      BY DEF TypeOK, Server!TypeOK, Server!Room
    <3>. QED  BY <3>1 DEF RoomsInv, ClientRooms, Views
  <2>2. netMsgList[c] = <<>> /\ down[c] = <<>>
    BY ConcatProperties, EmptySeq, LenProperties DEF Pending, TypeOK
  <2>. QED  BY <2>1, <2>2 DEF Awaited, Promised
<1>. QED  BY <1>1, <1>2

\* A client that a step leaves alone.
LEMMA Untouched ==
  ASSUME NEW c \in Clients, ClientRooms(c),
         UNCHANGED <<roomList, roomMap, heap, autoRoomID, unheard>>,
         connects'[c] = connects[c], isConnected'[c] = isConnected[c], peer'[c] = peer[c],
         down'[c] = down[c], netMsgList'[c] = netMsgList[c], asServerRoom'[c] = asServerRoom[c],
         asClientRoom'[c] = asClientRoom[c], viewer'[c] = viewer[c], windows'[c] = windows[c],
         overlapped'[c] = overlapped[c],
         Linked(c)' => /\ Linked(c) /\ peerData'[peer[c]] = peerData[peer[c]]
                       /\ up'[peer[c]] = up[peer[c]]
  PROVE  ClientRooms(c)'
<1>1. FirstConnection(c)' => FirstConnection(c)
  BY DEF FirstConnection
<1>2. BlocksDistinct' <=> BlocksDistinct
  BY DEF BlocksDistinct
<1>3. Pending(c)' = Pending(c)
  BY DEF Pending
<1>4. FirstConnection(c)' /\ Knows(c) => Knows(c)'
  BY <1>3 DEF Knows, Listed, FirstConnection
<1>5. FirstConnection(c)' /\ Views(c) => Views(c)'
  BY DEF Views, Awaited, Promised, FirstConnection
<1>6. KnownIssued(c)'
  BY DEF ClientRooms, KnownIssued
<1>. QED  BY <1>1, <1>2, <1>4, <1>5, <1>6 DEF ClientRooms

\* Two clients never share a slot.
LEMMA OwnSlots ==
  ASSUME NEW c \in Clients, NEW d \in Clients, c # d, Linked(c), Linked(d)
  PROVE  peer[c] # peer[d]
BY DEF Linked

\* A step of client c that only moves messages or changes what it holds.
LEMMA ClientStep ==
  ASSUME TypeOK, RoomsInv, NEW c \in Clients,
         UNCHANGED <<roomList, roomMap, heap, autoRoomID, unheard, userPeer, peerData, link>>,
         \A d \in Clients \ {c} :
           /\ connects'[d] = connects[d] /\ isConnected'[d] = isConnected[d]
           /\ peer'[d] = peer[d] /\ down'[d] = down[d] /\ netMsgList'[d] = netMsgList[d]
           /\ asServerRoom'[d] = asServerRoom[d] /\ asClientRoom'[d] = asClientRoom[d]
           /\ viewer'[d] = viewer[d] /\ windows'[d] = windows[d]
           /\ overlapped'[d] = overlapped[d],
         \A p \in Peers : up'[p] # up[p] => Linked(c) /\ p = peer[c],
         ClientRooms(c)'
  PROVE  RoomsInv'
<1>1. ASSUME NEW d \in Clients, d # c  PROVE ClientRooms(d)'
  <2>1. Linked(d)' => /\ Linked(d) /\ peerData'[peer[d]] = peerData[peer[d]]
                      /\ up'[peer[d]] = up[peer[d]]
    <3>1. ASSUME Linked(d)'  PROVE Linked(d) /\ peer[d] \in Peers
      BY <1>1, <3>1 DEF Linked, TypeOK
    <3>. QED  BY <1>1, <3>1, OwnSlots
  <2>2. ClientRooms(d)
    BY DEF RoomsInv
  <2>. QED  BY <1>1, <2>1, <2>2, Untouched
<1>2. OffLineUnheard' /\ UnheardIssued'
  BY DEF RoomsInv, OffLineUnheard, UnheardIssued
<1>. QED  BY <1>1, <1>2 DEF RoomsInv

-----------------------------------------------------------------------------
(* The clients' steps.                                                     *)

\* A first connection starts with no room; a later one is outside the claim.
LEMMA ConnectRooms ==
  ASSUME TypeOK, LoginInv, RoomsInv, NEW c \in Clients, NEW u \in Users, OnBtnLogin(c, u)
  PROVE  RoomsInv'
<1>1. PICK p \in Peers : /\ Server!OnConnect(p)
                         /\ peer' = [peer EXCEPT ![c] = p] /\ link' = [link EXCEPT ![p] = c]
                         /\ up' = [up EXCEPT ![p] = <<LoginReqMsg(u)>>]
  BY DEF OnBtnLogin
<1>2. /\ peerData' = [peerData EXCEPT ![p] = NULL]
      /\ UNCHANGED <<roomList, roomMap, heap, autoRoomID, userPeer, unheard>>
  BY <1>1 DEF Server!OnConnect, Server!roomVars, OnBtnLogin
<1>3. /\ peerData \in [Peers -> Users \cup {NULL}] /\ up \in [Peers -> Seq(Requests)]
      /\ peer \in [Clients -> Peers \cup {NULL}] /\ link \in [Peers -> Clients \cup {NULL}]
      /\ down \in [Clients -> Seq(Answers)] /\ connects \in [Clients -> 0 .. 2]
      /\ isConnected \in [Clients -> BOOLEAN] /\ NULL \notin Peers
  BY SessionAssumption DEF TypeOK, Server!TypeOK
<1>4. /\ down' = [down EXCEPT ![c] = <<>>]
      /\ connects' = [connects EXCEPT ![c] = IF connects[c] = 0 THEN 1 ELSE 2]
      /\ isConnected' = [isConnected EXCEPT ![c] = TRUE]
      /\ UNCHANGED <<netMsgList, asServerRoom, asClientRoom, viewer, windows, overlapped>>
  BY DEF OnBtnLogin, AfterReset, rooms
<1>5. ASSUME NEW d \in Clients, d # c  PROVE ClientRooms(d)'
  <2>1. Linked(d)' => /\ Linked(d) /\ peerData'[peer[d]] = peerData[peer[d]]
                      /\ up'[peer[d]] = up[peer[d]]
    <3> SUFFICES ASSUME Linked(d)'
                 PROVE  /\ Linked(d) /\ peerData'[peer[d]] = peerData[peer[d]]
                        /\ up'[peer[d]] = up[peer[d]]
      OBVIOUS
    <3>1. peer'[d] = peer[d] /\ peer[d] \in Peers /\ peer[d] # p
      BY <1>1, <1>3, <1>5 DEF Linked
    <3>. QED  BY <1>1, <1>2, <1>3, <1>5, <3>1 DEF Linked
  <2>2. ClientRooms(d)
    BY DEF RoomsInv
  <2>3. /\ connects'[d] = connects[d] /\ isConnected'[d] = isConnected[d] /\ peer'[d] = peer[d]
        /\ down'[d] = down[d]
    BY <1>1, <1>3, <1>4, <1>5
  <2>. QED  BY <1>2, <1>4, <2>1, <2>2, <2>3, Untouched
<1>6. ClientRooms(c)'
  <2>1. connects'[c] # 0 /\ (connects'[c] = 1 => connects[c] = 0)
    BY <1>3, <1>4
  <2>2. down'[c] = <<>> /\ peer'[c] = p /\ peerData'[p] = NULL
    BY <1>1, <1>2, <1>3, <1>4
  <2>3. KnownIssued(c)'
    BY <1>2, <1>4, <2>2 DEF RoomsInv, ClientRooms, KnownIssued
  <2>4. ASSUME connects'[c] = 1  PROVE Knows(c)' /\ Views(c)'
    <3>1. asServerRoom[c] = {} /\ netMsgList[c] = <<>>
      BY <2>1, <2>4 DEF RoomsInv, ClientRooms, LoginInv, SilentInv
    <3>2. Pending(c)' = <<>> /\ asServerRoom'[c] = {}
      BY <1>4, <2>2, <3>1 DEF Pending
    <3>3. Replay({}, <<>>, 1) = {}
      BY DEF Replay
    <3>4. Replay(asServerRoom[c], Pending(c), 1)' = {}
      BY <3>2, <3>3 DEF Replay, Opens, OpenAfter, Closes
    <3>. QED  BY <2>2, <3>4 DEF Knows, Listed, Views
  <2>. QED  BY <1>4, <2>1, <2>3, <2>4 DEF RoomsInv, ClientRooms, FirstConnection
<1>7. OffLineUnheard' /\ UnheardIssued'
  BY <1>2 DEF RoomsInv, OffLineUnheard, UnheardIssued
<1>. QED  BY <1>5, <1>6, <1>7 DEF RoomsInv

\* A dropped connection takes the client outside the claim.
LEMMA DropRooms ==
  ASSUME TypeOK, RoomsInv, NEW c \in Clients,
         OnClientDisconnect(c) \/ \E u \in Users : OnBtnLoginFail(c, u)
  PROVE  RoomsInv'
<1>1. /\ UNCHANGED <<roomList, roomMap, heap, autoRoomID, unheard, userPeer, peerData, link, up,
                     connects, netMsgList, asServerRoom, asClientRoom, viewer, windows, overlapped>>
      /\ peer'[c] = NULL /\ down'[c] = <<>>
      /\ \A d \in Clients \ {c} : /\ isConnected'[d] = isConnected[d] /\ peer'[d] = peer[d]
                                  /\ down'[d] = down[d]
  BY DEF OnClientDisconnect, OnBtnLoginFail, TypeOK, server, rooms, AfterReset
<1>2. ~FirstConnection(c)'
  BY <1>1 DEF FirstConnection, Linked
<1>3. KnownIssued(c)'
  BY <1>1 DEF RoomsInv, ClientRooms, KnownIssued
<1>4. ClientRooms(c)'
  BY <1>1, <1>2, <1>3 DEF RoomsInv, ClientRooms
<1>. QED  BY <1>1, <1>4, ClientStep

\* Receiving the first message of the queue leaves the whole as it is.
LEMMA MovedHead ==
  ASSUME NEW S, NEW a \in Seq(S), NEW b \in Seq(S), b # <<>>
  PROVE  Append(a, Head(b)) \o Tail(b) = a \o b
<1>1. /\ Append(a, Head(b)) \o Tail(b) \in Seq(S) /\ a \o b \in Seq(S)
      /\ Len(Append(a, Head(b)) \o Tail(b)) = Len(a) + Len(b)
      /\ Len(a \o b) = Len(a) + Len(b)
  OBVIOUS
<1>2. \A i \in 1 .. Len(a) + Len(b) : (Append(a, Head(b)) \o Tail(b))[i] = (a \o b)[i]
  OBVIOUS
<1>. QED  BY <1>1, <1>2, SeqEqual

\* The net thread moves an answer; what is pending stays the same.
LEMMA ReceiveRooms ==
  ASSUME TypeOK, RoomsInv, NEW c \in Clients, OnReceive(c)
  PROVE  RoomsInv'
<1>1. /\ UNCHANGED <<roomList, roomMap, heap, autoRoomID, unheard, userPeer, peerData, link, up,
                     peer, isConnected, connects, asServerRoom, asClientRoom, viewer, windows,
                     overlapped>>
      /\ down[c] # <<>>
      /\ down \in [Clients -> Seq(Answers)] /\ netMsgList \in [Clients -> Seq(Answers)]
  BY DEF OnReceive, TypeOK, server, net, rooms
<1>2. /\ down'[c] = Tail(down[c]) /\ netMsgList'[c] = Append(netMsgList[c], Head(down[c]))
      /\ \A d \in Clients \ {c} : down'[d] = down[d] /\ netMsgList'[d] = netMsgList[d]
  BY <1>1 DEF OnReceive
<1>3. down[c] \in Seq(Answers) /\ netMsgList[c] \in Seq(Answers)
  BY <1>1
<1>4. Pending(c)' = Pending(c)
  BY <1>1, <1>2, <1>3, MovedHead DEF Pending
<1>5. /\ Head(down[c]) \in Answers /\ 1 \in DOMAIN down[c] /\ Head(down[c]) = down[c][1]
      /\ \A i \in DOMAIN Tail(down[c]) : \E j \in DOMAIN down[c] : Tail(down[c])[i] = down[c][j]
      /\ \A i \in DOMAIN down[c] : i = 1 \/ \E j \in DOMAIN Tail(down[c]) : Tail(down[c])[j] = down[c][i]
  <2>1. \A i \in DOMAIN down[c] : i = 1 \/ (i - 1 \in DOMAIN Tail(down[c]) /\ Tail(down[c])[i - 1] = down[c][i])
    BY <1>1, <1>3
  <2>. QED  BY <1>1, <1>3, <2>1, Headed
<1>6. /\ \A i \in DOMAIN netMsgList[c] : i \in DOMAIN netMsgList'[c] /\ netMsgList'[c][i] = netMsgList[c][i]
      /\ \E i \in DOMAIN netMsgList'[c] : netMsgList'[c][i] = Head(down[c])
      /\ \A i \in DOMAIN netMsgList'[c] :
           \/ netMsgList'[c][i] = Head(down[c])
           \/ i \in DOMAIN netMsgList[c] /\ netMsgList'[c][i] = netMsgList[c][i]
  <2>1. /\ DOMAIN netMsgList'[c] = 1 .. Len(netMsgList[c]) + 1
        /\ netMsgList'[c][Len(netMsgList[c]) + 1] = Head(down[c])
        /\ \A i \in 1 .. Len(netMsgList[c]) : netMsgList'[c][i] = netMsgList[c][i]
    BY <1>2, <1>3, <1>5, AppendProperties
  <2>2. Len(netMsgList[c]) \in Nat /\ DOMAIN netMsgList[c] = 1 .. Len(netMsgList[c])
    BY <1>3, LenProperties
  <2>. QED  BY <2>1, <2>2
<1>7. ASSUME NEW r, Promised(c, r)  PROVE Promised(c, r)'
  BY <1>2, <1>5, <1>6, <1>7 DEF Promised
<1>8. KnownIssued(c)'
  BY <1>1, <1>2, <1>5, <1>6 DEF RoomsInv, ClientRooms, KnownIssued
<1>9. Knows(c) => Knows(c)'
  BY <1>1, <1>4 DEF Knows, Listed
<1>10. Views(c) => Views(c)'
  BY <1>1, <1>7 DEF Views, Awaited
<1>11. (FirstConnection(c)' <=> FirstConnection(c)) /\ (BlocksDistinct' <=> BlocksDistinct)
  BY <1>1 DEF FirstConnection, Linked, BlocksDistinct
<1>12. ClientRooms(c)'
  BY <1>1, <1>8, <1>9, <1>10, <1>11 DEF RoomsInv, ClientRooms
<1>. QED  BY <1>1, <1>2, <1>12, ClientStep

\* A window is opened: if it was the first, the viewer's room is its room.
LEMMA OpenedFirst ==
  ASSUME TypeOK, NEW c \in Clients, NEW r, OpenViewer(c, r), ~overlapped'[c]
  PROVE  ~overlapped[c] /\ windows[c] = 0 /\ windows'[c] = 1 /\ viewer'[c] = r
<1>1. windows \in [Clients -> 0 .. MaxWindows] /\ overlapped \in [Clients -> BOOLEAN]
      /\ viewer \in [Clients -> Server!RoomIDs \cup {0}] /\ MaxWindows \in Nat
  BY SessionAssumption DEF TypeOK
<1>2. ~(overlapped[c] \/ windows[c] > 0)
  BY <1>1 DEF OpenViewer
<1>. QED  BY <1>1, <1>2 DEF OpenViewer

\* What an answer does to the client.
LEMMA Dispatched ==
  ASSUME TypeOK, NEW c \in Clients, DispatchNetMsg(c)
  PROVE  LET m == Head(netMsgList[c])
         IN  /\ netMsgList[c] # <<>> /\ m \in Answers
             /\ netMsgList' = [netMsgList EXCEPT ![c] = Tail(@)]
             /\ UNCHANGED <<roomList, roomMap, heap, autoRoomID, unheard, userPeer, peerData, link,
                            up, peer, isConnected, connects, down>>
             /\ asServerRoom' = [asServerRoom EXCEPT ![c] = AfterAnswer(@, m, 1)]
             /\ asClientRoom' = [asClientRoom EXCEPT ![c] = AfterAnswer(@, m, 2)]
             /\ \/ UNCHANGED <<viewer, windows, overlapped>>
                   /\ \A r : Opens(m, r, 2) => r \in asClientRoom[c]
                \/ OpenViewer(c, m.roomid)
             /\ \A d \in Clients \ {c} : /\ viewer'[d] = viewer[d] /\ windows'[d] = windows[d]
                                         /\ overlapped'[d] = overlapped[d]
<1> DEFINE m == Head(netMsgList[c])
<1>1. PICK cmd \in {"LOGIN_RET", "BUILD_RET", "UNBUILD_RET"} : PopNetMsg(c, cmd)
  BY DEF DispatchNetMsg, OnLoginRet, OnBuildRetServer, OnBuildRetClient, OnUnbuildRet
<1>2. m \in Answers /\ netMsgList[c] # <<>>
      /\ netMsgList' = [netMsgList EXCEPT ![c] = Tail(netMsgList[c])]
  BY <1>1, Popped DEF PopNetMsg
<1>3. UNCHANGED <<roomList, roomMap, heap, autoRoomID, unheard, userPeer, peerData, link,
                  up, peer, isConnected, connects, down>>
  BY <1>1 DEF PopNetMsg, server, net
<1>4. /\ asServerRoom \in [Clients -> SUBSET Server!RoomIDs]
      /\ asClientRoom \in [Clients -> SUBSET Server!RoomIDs]
  BY DEF TypeOK
<1>5. CASE OnLoginRet(c)
  <2>1. m.cmd = "LOGIN_RET"
    BY <1>5 DEF OnLoginRet, PopNetMsg
  <2>2. UNCHANGED <<asServerRoom, asClientRoom, viewer, windows, overlapped>>
    BY <1>5 DEF OnLoginRet, rooms
  <2>3. AfterAnswer(asServerRoom[c], m, 1) = asServerRoom[c]
        /\ AfterAnswer(asClientRoom[c], m, 2) = asClientRoom[c]
    BY <2>1 DEF AfterAnswer
  <2>4. \A r : ~Opens(m, r, 2)
    BY <2>1 DEF Opens
  <2>5. /\ asServerRoom' = [asServerRoom EXCEPT ![c] = AfterAnswer(@, m, 1)]
        /\ asClientRoom' = [asClientRoom EXCEPT ![c] = AfterAnswer(@, m, 2)]
    BY <1>4, <2>2, <2>3
  <2>. QED  BY <1>2, <1>3, <2>2, <2>4, <2>5
<1>6. CASE OnBuildRetServer(c)
  <2>1. m.cmd = "BUILD_RET" /\ m.service = 1
    BY <1>6 DEF OnBuildRetServer, PopNetMsg
  <2>2. /\ UNCHANGED <<asClientRoom, viewer, windows, overlapped>>
        /\ asServerRoom' = [asServerRoom EXCEPT ![c] = asServerRoom[c] \cup {m.roomid}]
    BY <1>6 DEF OnBuildRetServer
  <2>3. AfterAnswer(asServerRoom[c], m, 1) = asServerRoom[c] \cup {m.roomid}
        /\ AfterAnswer(asClientRoom[c], m, 2) = asClientRoom[c]
    BY <2>1 DEF AfterAnswer
  <2>4. \A r : ~Opens(m, r, 2)
    BY <2>1 DEF Opens
  <2>5. /\ asServerRoom' = [asServerRoom EXCEPT ![c] = AfterAnswer(@, m, 1)]
        /\ asClientRoom' = [asClientRoom EXCEPT ![c] = AfterAnswer(@, m, 2)]
    BY <1>4, <2>2, <2>3
  <2>. QED  BY <1>2, <1>3, <2>2, <2>4, <2>5
<1>7. CASE OnBuildRetClient(c)
  <2>1. m.cmd = "BUILD_RET" /\ m.service = 2
    BY <1>7 DEF OnBuildRetClient, PopNetMsg
  <2>2. UNCHANGED asServerRoom /\ AfterAnswer(asServerRoom[c], m, 1) = asServerRoom[c]
        /\ AfterAnswer(asClientRoom[c], m, 2) = asClientRoom[c] \cup {m.roomid}
    BY <1>7, <2>1 DEF OnBuildRetClient, AfterAnswer
  <2>3. CASE m.roomid \in asClientRoom[c]
    <3>1. UNCHANGED <<asClientRoom, viewer, windows, overlapped>>
      BY <1>7, <2>3 DEF OnBuildRetClient
    <3>2. asClientRoom[c] \cup {m.roomid} = asClientRoom[c]
      BY <2>3
    <3>. QED  BY <1>2, <1>3, <1>4, <2>2, <2>3, <3>1, <3>2 DEF Opens
  <2>4. CASE m.roomid \notin asClientRoom[c]
    <3>1. /\ asClientRoom' = [asClientRoom EXCEPT ![c] = asClientRoom[c] \cup {m.roomid}]
          /\ OpenViewer(c, m.roomid)
      BY <1>7, <2>4 DEF OnBuildRetClient
    <3>2. \A d \in Clients \ {c} : /\ viewer'[d] = viewer[d] /\ windows'[d] = windows[d]
                                   /\ overlapped'[d] = overlapped[d]
      BY <3>1 DEF OpenViewer, TypeOK
    <3>. QED  BY <1>2, <1>3, <1>4, <2>2, <3>1, <3>2
  <2>. QED  BY <2>3, <2>4
<1>8. CASE OnUnbuildRet(c)
  <2>1. m.cmd = "UNBUILD_RET"
    BY <1>8 DEF OnUnbuildRet, PopNetMsg
  <2>2. UNCHANGED <<viewer, windows, overlapped>>
    BY <1>8 DEF OnUnbuildRet
  <2>3. asServerRoom' = [asServerRoom EXCEPT ![c] = AfterAnswer(asServerRoom[c], m, 1)]
    <3>1. AfterAnswer(asServerRoom[c], m, 1) =
            IF m.code = 0 /\ m.service = 1 THEN asServerRoom[c] \ {m.roomid} ELSE asServerRoom[c]
      BY <2>1 DEF AfterAnswer
    <3>. QED  BY <1>4, <1>8, <3>1 DEF OnUnbuildRet, EraseRoom
  <2>4. asClientRoom' = [asClientRoom EXCEPT ![c] = AfterAnswer(asClientRoom[c], m, 2)]
    <3>1. AfterAnswer(asClientRoom[c], m, 2) =
            IF m.code = 0 /\ m.service = 2 THEN asClientRoom[c] \ {m.roomid} ELSE asClientRoom[c]
      BY <2>1 DEF AfterAnswer
    <3>. QED  BY <1>4, <1>8, <3>1 DEF OnUnbuildRet, EraseRoom
  <2>. QED  BY <1>2, <1>3, <2>1, <2>2, <2>3, <2>4 DEF Opens
<1>. QED  BY <1>5, <1>6, <1>7, <1>8 DEF DispatchNetMsg

\* The first of two queues is not empty: it has the head of both.
LEMMA TailOfBoth ==
  ASSUME NEW S, NEW a \in Seq(S), NEW b \in Seq(S), a # <<>>
  PROVE  /\ a \o b \in Seq(S) /\ a \o b # <<>>
         /\ Head(a \o b) = Head(a) /\ Tail(a \o b) = Tail(a) \o b
<1>1. /\ Tail(a \o b) \in Seq(S) /\ Tail(a) \o b \in Seq(S)
      /\ Len(Tail(a \o b)) = Len(a) + Len(b) - 1
      /\ Len(Tail(a) \o b) = Len(a) + Len(b) - 1
  OBVIOUS
<1>2. \A i \in 1 .. Len(a) + Len(b) - 1 : Tail(a \o b)[i] = (Tail(a) \o b)[i]
  OBVIOUS
<1>3. a \o b \in Seq(S) /\ a \o b # <<>> /\ Head(a \o b) = Head(a)
  OBVIOUS
<1>. QED  BY <1>1, <1>2, <1>3, SeqEqual

\* Handling an answer makes true what was pending.
LEMMA DispatchRooms ==
  ASSUME TypeOK, LoginInv, RoomsInv, NEW c \in Clients, DispatchNetMsg(c)
  PROVE  RoomsInv'
<1> DEFINE m == Head(netMsgList[c])
           q == Tail(netMsgList[c])
<1>1. /\ netMsgList[c] # <<>> /\ m \in Answers
      /\ netMsgList' = [netMsgList EXCEPT ![c] = q]
      /\ UNCHANGED <<roomList, roomMap, heap, autoRoomID, unheard, userPeer, peerData, link,
                     up, peer, isConnected, connects, down>>
      /\ asServerRoom' = [asServerRoom EXCEPT ![c] = AfterAnswer(asServerRoom[c], m, 1)]
      /\ asClientRoom' = [asClientRoom EXCEPT ![c] = AfterAnswer(asClientRoom[c], m, 2)]
      /\ \/ UNCHANGED <<viewer, windows, overlapped>>
            /\ \A r : Opens(m, r, 2) => r \in asClientRoom[c]
         \/ OpenViewer(c, m.roomid)
      /\ \A d \in Clients \ {c} : /\ viewer'[d] = viewer[d] /\ windows'[d] = windows[d]
                                  /\ overlapped'[d] = overlapped[d]
  BY Dispatched
<1>2. netMsgList[c] \in Seq(Answers) /\ down[c] \in Seq(Answers)
  BY DEF TypeOK
<1>3. /\ netMsgList'[c] = q /\ asServerRoom'[c] = AfterAnswer(asServerRoom[c], m, 1)
      /\ asClientRoom'[c] = AfterAnswer(asClientRoom[c], m, 2)
      /\ \A d \in Clients \ {c} : /\ netMsgList'[d] = netMsgList[d]
                                  /\ asServerRoom'[d] = asServerRoom[d]
                                  /\ asClientRoom'[d] = asClientRoom[d]
  BY <1>1 DEF TypeOK
<1>4. /\ m = netMsgList[c][1] /\ 1 \in DOMAIN netMsgList[c]
      /\ \A i \in DOMAIN q : \E j \in DOMAIN netMsgList[c] : q[i] = netMsgList[c][j]
      /\ \A i \in DOMAIN netMsgList[c] : i = 1 \/ \E j \in DOMAIN q : q[j] = netMsgList[c][i]
  <2>1. \A i \in DOMAIN netMsgList[c] : i = 1 \/ (i - 1 \in DOMAIN q /\ q[i - 1] = netMsgList[c][i])
    BY <1>1, <1>2
  <2>. QED  BY <1>1, <1>2, <2>1, Headed
<1>5. Pending(c) \in Seq(Answers) /\ Pending(c) # <<>> /\ Head(Pending(c)) = m
      /\ Pending(c)' = Tail(Pending(c))
  <2>1. Pending(c) = netMsgList[c] \o down[c] /\ Pending(c)' = Tail(netMsgList[c]) \o down[c]
    BY <1>1, <1>3 DEF Pending
  <2> DEFINE a == netMsgList[c]
             b == down[c]
  <2>2. /\ a \o b \in Seq(Answers) /\ a \o b # <<>>
        /\ Head(a \o b) = Head(a) /\ Tail(a \o b) = Tail(a) \o b
    <3>1. a # <<>>
      BY <1>1
    <3> HIDE DEF a, b
    <3>. QED  BY <1>2, <3>1, TailOfBoth DEF a, b
  <2>. QED  BY <2>1, <2>2
<1>6. connects'[c] # 0
  BY <1>1 DEF LoginInv, SilentInv
<1> HIDE DEF m, q
<1>7. KnownIssued(c)'
  <2>1. m.cmd = "BUILD_RET" => m.roomid <= autoRoomID
    BY <1>4 DEF RoomsInv, ClientRooms, KnownIssued
  <2>2. \A r \in asClientRoom'[c] : r <= autoRoomID
    BY <1>3, <2>1 DEF RoomsInv, ClientRooms, KnownIssued, AfterAnswer
  <2>. QED  BY <1>1, <1>3, <1>4, <2>2 DEF RoomsInv, ClientRooms, KnownIssued
<1>8. Knows(c) => Knows(c)'
  <2>1. Replay(asServerRoom'[c], Pending(c)', 1) = Replay(asServerRoom[c], Pending(c), 1)
    BY <1>3, <1>5, ReplayTail
  <2>2. Replay(asServerRoom[c], Pending(c), 1)' = Replay(asServerRoom'[c], Pending(c)', 1)
    BY DEF Replay, Opens, Closes, OpenAfter
  <2>. QED  BY <1>1, <2>1, <2>2 DEF Knows, Listed
<1>9. ~overlapped'[c] => ~overlapped[c] /\ windows'[c] <= 1
  <2>1. CASE UNCHANGED <<viewer, windows, overlapped>>
    BY <2>1 DEF RoomsInv, ClientRooms
  <2>2. CASE OpenViewer(c, m.roomid)
    BY <2>2, OpenedFirst
  <2>. QED  BY <1>1, <2>1, <2>2
<1>10. ASSUME Views(c)  PROVE Views(c)'
  <2> SUFFICES ASSUME ~overlapped'[c], peerData[peer[c]] # NULL, NEW a \in Addrs,
                      NEW r \in Server!RoomIDs, heap[a] # NULL,
                      heap[a].client = peerData[peer[c]], heap[a].id = r, <<r, 2>> \notin unheard
               PROVE  Awaited(c, r)'
    BY <1>1 DEF Views
  <2>1. Awaited(c, r)
    BY <1>9, <1>10 DEF Views
  <2>3. CASE \E i \in DOMAIN up[peer[c]] : up[peer[c]][i] = UnbuildReqMsg(r)
    BY <1>1, <2>3 DEF Awaited
  <2>4. CASE windows[c] > 0 /\ viewer[c] = r
    <3>1. ~OpenViewer(c, m.roomid)
      BY <2>4, OpenedFirst DEF TypeOK
    <3>. QED  BY <1>1, <2>4, <3>1 DEF Awaited
  <2>5. CASE r \notin asClientRoom[c] /\ Promised(c, r)
    <3>1. CASE Opens(m, r, 2)
      <4>1. OpenViewer(c, m.roomid) /\ m.roomid = r
        BY <1>1, <2>5, <3>1 DEF Opens
      <4>. QED  BY <4>1, OpenedFirst DEF Awaited
    <3>2. CASE ~Opens(m, r, 2)
      <4>1. r \notin asClientRoom'[c]
        BY <1>3, <2>5, <3>2 DEF AfterAnswer, Opens
      <4>2. Promised(c, r)'
        BY <1>1, <1>3, <1>4, <2>5, <3>2 DEF Promised
      <4>. QED  BY <4>1, <4>2 DEF Awaited
    <3>. QED  BY <3>1, <3>2
  <2>. QED  BY <2>1, <2>3, <2>4, <2>5 DEF Awaited
<1>11. (FirstConnection(c)' <=> FirstConnection(c)) /\ (BlocksDistinct' <=> BlocksDistinct)
  BY <1>1 DEF FirstConnection, Linked, BlocksDistinct
<1>12. ClientRooms(c)'
  BY <1>6, <1>7, <1>8, <1>9, <1>10, <1>11 DEF RoomsInv, ClientRooms
<1>. QED  BY <1>1, <1>3, <1>12, ClientStep

\* The build button.
LEMMA BuildButtonRooms ==
  ASSUME TypeOK, RoomsInv, NEW c \in Clients, OnBtnBuild(c)
  PROVE  RoomsInv'
<1>1. /\ OpenViewer(c, 1)
      /\ UNCHANGED <<roomList, roomMap, heap, autoRoomID, unheard, userPeer, peerData, link,
                     up, peer, isConnected, connects, down, netMsgList, asServerRoom, asClientRoom>>
  BY DEF OnBtnBuild, server, net
<1>2. \A d \in Clients \ {c} : /\ viewer'[d] = viewer[d] /\ windows'[d] = windows[d]
                               /\ overlapped'[d] = overlapped[d]
  BY <1>1 DEF OpenViewer, TypeOK
<1>3. ~overlapped'[c] => ~overlapped[c] /\ windows[c] = 0 /\ windows'[c] = 1
  BY <1>1, OpenedFirst
<1>4. Knows(c) => Knows(c)'
  BY <1>1 DEF Knows, Listed, Pending, Replay
<1>5. Views(c) => Views(c)'
  BY <1>1, <1>3 DEF Views, Awaited, Promised
<1>6. (FirstConnection(c)' <=> FirstConnection(c)) /\ (BlocksDistinct' <=> BlocksDistinct)
  BY <1>1 DEF FirstConnection, Linked, BlocksDistinct
<1>7. KnownIssued(c)'
  BY <1>1 DEF RoomsInv, ClientRooms, KnownIssued
<1>8. ClientRooms(c)'
  BY <1>1, <1>3, <1>4, <1>5, <1>6, <1>7 DEF RoomsInv, ClientRooms
<1>. QED  BY <1>1, <1>2, <1>8, ClientStep

\* A request more, on the client's own slot.
LEMMA SentMore ==
  ASSUME TypeOK, NEW c \in Clients, NEW m \in Requests, SendMsg(c, m)
  PROVE  /\ \A p \in Peers : up'[p] # up[p] => Linked(c) /\ p = peer[c]
         /\ isConnected[c] /\ Linked(c) => up'[peer[c]] = Append(up[peer[c]], m)
         /\ Linked(c) =>
              \A i \in DOMAIN up[peer[c]] : i \in DOMAIN up'[peer[c]]
                                            /\ up'[peer[c]][i] = up[peer[c]][i]
<1>1. up \in [Peers -> Seq(Requests)]
  BY DEF TypeOK
<1>2. CASE isConnected[c] /\ Linked(c)
  <2>1. peer[c] \in Peers /\ up[peer[c]] \in Seq(Requests)
    BY <1>1, <1>2 DEF Linked, TypeOK
  <2>2. up' = [up EXCEPT ![peer[c]] = Append(up[peer[c]], m)]
    BY <1>2 DEF SendMsg
  <2>3. up'[peer[c]] = Append(up[peer[c]], m)
    BY <1>1, <2>1, <2>2
  <2>4. \A i \in DOMAIN up[peer[c]] : i \in DOMAIN Append(up[peer[c]], m)
                                      /\ Append(up[peer[c]], m)[i] = up[peer[c]][i]
    BY <2>1
  <2>. QED  BY <1>1, <1>2, <2>2, <2>3, <2>4
<1>3. CASE ~(isConnected[c] /\ Linked(c))
  BY <1>3 DEF SendMsg
<1>. QED  BY <1>2, <1>3

\* A request to build changes nothing yet.
LEMMA BuildReqRooms ==
  ASSUME TypeOK, RoomsInv, NEW c \in Clients, BuildReq(c)
  PROVE  RoomsInv'
<1>1. /\ SendMsg(c, BuildReqMsg(userID[c])) /\ Linked(c)
      /\ UNCHANGED <<roomList, roomMap, heap, autoRoomID, unheard, userPeer, peerData, link,
                     peer, isConnected, connects, down, netMsgList, asServerRoom, asClientRoom,
                     viewer, windows, overlapped>>
  BY DEF BuildReq, server, rooms
<1>2. BuildReqMsg(userID[c]) \in Requests
  BY <1>1 DEF Linked, TypeOK, Requests
<1>3. /\ \A p \in Peers : up'[p] # up[p] => Linked(c) /\ p = peer[c]
      /\ \A i \in DOMAIN up[peer[c]] : i \in DOMAIN up'[peer[c]]
                                       /\ up'[peer[c]][i] = up[peer[c]][i]
  BY <1>1, <1>2, SentMore
<1>4. Knows(c) => Knows(c)'
  BY <1>1 DEF Knows, Listed, Pending, Replay
<1>5. Views(c) => Views(c)'
  BY <1>1, <1>3 DEF Views, Awaited, Promised
<1>6. (FirstConnection(c)' <=> FirstConnection(c)) /\ (BlocksDistinct' <=> BlocksDistinct)
  BY <1>1 DEF FirstConnection, Linked, BlocksDistinct
<1>7. KnownIssued(c)'
  BY <1>1 DEF RoomsInv, ClientRooms, KnownIssued
<1>8. ClientRooms(c)'
  BY <1>1, <1>4, <1>5, <1>6, <1>7 DEF RoomsInv, ClientRooms
<1>. QED  BY <1>1, <1>3, <1>8, ClientStep

\* A window is closed; if it is the only one, the server is asked to close the
\* room it shows.
LEMMA CloseRooms ==
  ASSUME TypeOK, RoomsInv, NEW c \in Clients, OnViewerClose(c)
  PROVE  RoomsInv'
<1>1. /\ windows[c] > 0
      /\ windows' = [windows EXCEPT ![c] = windows[c] - 1] /\ viewer' = [viewer EXCEPT ![c] = 0]
      /\ IF viewer[c] # 0 THEN SendMsg(c, UnbuildReqMsg(viewer[c])) ELSE UNCHANGED up
      /\ UNCHANGED <<roomList, roomMap, heap, autoRoomID, unheard, userPeer, peerData, link,
                     peer, isConnected, connects, down, netMsgList, asServerRoom, asClientRoom,
                     overlapped>>
  BY DEF OnViewerClose, UnbuildReq, server
<1>2. /\ windows \in [Clients -> 0 .. MaxWindows] /\ MaxWindows \in Nat
      /\ viewer \in [Clients -> Server!RoomIDs \cup {0}]
  BY SessionAssumption DEF TypeOK
<1>3. /\ windows'[c] = windows[c] - 1 /\ windows[c] \in Nat /\ viewer'[c] = 0
      /\ \A d \in Clients \ {c} : viewer'[d] = viewer[d] /\ windows'[d] = windows[d]
  BY <1>1, <1>2
<1>4. viewer[c] # 0 => UnbuildReqMsg(viewer[c]) \in Requests
  BY <1>2 DEF Requests
<1>5. /\ \A p \in Peers : up'[p] # up[p] => Linked(c) /\ p = peer[c]
      /\ Linked(c) => \A i \in DOMAIN up[peer[c]] : i \in DOMAIN up'[peer[c]]
                                                    /\ up'[peer[c]][i] = up[peer[c]][i]
      /\ viewer[c] # 0 /\ isConnected[c] /\ Linked(c)
           => up'[peer[c]] = Append(up[peer[c]], UnbuildReqMsg(viewer[c]))
  BY <1>1, <1>4, SentMore
<1>6. Knows(c) => Knows(c)'
  BY <1>1 DEF Knows, Listed, Pending, Replay
<1>7. ASSUME Views(c), FirstConnection(c)  PROVE Views(c)'
  <2> SUFFICES ASSUME ~overlapped[c], peerData[peer[c]] # NULL, NEW a \in Addrs,
                      NEW r \in Server!RoomIDs, heap[a] # NULL,
                      heap[a].client = peerData[peer[c]], heap[a].id = r, <<r, 2>> \notin unheard
               PROVE  Awaited(c, r)'
    BY <1>1 DEF Views
  <2>1. Awaited(c, r)
    BY <1>7 DEF Views
  <2>3. CASE windows[c] > 0 /\ viewer[c] = r
    <3>1. r # 0
      BY <2>1 DEF Server!RoomIDs
    <3>2. up'[peer[c]] = Append(up[peer[c]], UnbuildReqMsg(r)) /\ up[peer[c]] \in Seq(Requests)
      BY <1>5, <1>7, <2>3, <3>1 DEF FirstConnection, Linked, TypeOK
    <3>3. Len(up[peer[c]]) + 1 \in DOMAIN up'[peer[c]]
          /\ up'[peer[c]][Len(up[peer[c]]) + 1] = UnbuildReqMsg(r)
      BY <3>2
    <3>. QED  BY <1>1, <3>3 DEF Awaited
  <2>4. CASE r \notin asClientRoom[c] /\ Promised(c, r)
    BY <1>1, <2>4 DEF Awaited, Promised
  <2>5. CASE \E i \in DOMAIN up[peer[c]] : up[peer[c]][i] = UnbuildReqMsg(r)
    BY <1>1, <1>5, <1>7, <2>5 DEF Awaited, FirstConnection
  <2>. QED  BY <2>1, <2>3, <2>4, <2>5 DEF Awaited
<1>8. (FirstConnection(c)' <=> FirstConnection(c)) /\ (BlocksDistinct' <=> BlocksDistinct)
  BY <1>1 DEF FirstConnection, Linked, BlocksDistinct
<1>9. KnownIssued(c)'
  BY <1>1 DEF RoomsInv, ClientRooms, KnownIssued
<1>10. ~overlapped'[c] => windows'[c] <= 1
  BY <1>1, <1>3 DEF RoomsInv, ClientRooms
<1>11. ClientRooms(c)'
  BY <1>1, <1>6, <1>7, <1>8, <1>9, <1>10 DEF RoomsInv, ClientRooms
<1>. QED  BY <1>1, <1>3, <1>5, <1>11, ClientStep

-----------------------------------------------------------------------------
(* The server's steps.                                                     *)

\* The request handled, and what no handler touches.
LEMMA Serves ==
  ASSUME TypeOK, NEW p \in Peers, OnServerReceive(p)
  PROVE  /\ up[p] # <<>> /\ up[p] \in Seq(Requests)
         /\ Head(up[p]) \in Requests /\ Handle(p, Head(up[p]))
         /\ UNCHANGED <<link, peer, isConnected, connects, netMsgList, asServerRoom, asClientRoom,
                        viewer, windows, overlapped>>
         /\ up' = [up EXCEPT ![p] = Tail(@)]
         /\ unheard \subseteq unheard'
<1>1. up[p] # <<>> /\ up[p] \in Seq(Requests)
  BY DEF OnServerReceive, TypeOK
<1>2. Head(up[p]) \in Requests
  BY <1>1, Headed
<1>. QED  BY <1>1, <1>2 DEF OnServerReceive, rooms

\* A linked client is sent all that was queued for its slot, and only that.
LEMMA SentDown ==
  ASSUME TypeOK, NEW p \in Peers, OnServerReceive(p), NEW c \in Clients
  PROVE  /\ ~Linked(c) => down'[c] = down[c]
         /\ Linked(c) =>
              \E t \in Seq(Answers) :
                /\ down'[c] = down[c] \o t /\ Pending(c)' = Pending(c) \o t
                /\ \A i \in DOMAIN t : \E n \in sent' : n.to = peer[c] /\ n.packet = t[i]
                /\ \A n \in sent' : n.to = peer[c] => \E i \in DOMAIN t : t[i] = n.packet
<1>1. CASE ~Linked(c)
  BY <1>1 DEF OnServerReceive, Route
<1>2. CASE Linked(c)
  <2> DEFINE t == PacketsTo(peer[c])
  <2>1. down'[c] = down[c] \o t
    BY <1>2 DEF OnServerReceive, Route
  <2>2. peer[c] \in Peers /\ down[c] \in Seq(Answers) /\ netMsgList[c] \in Seq(Answers)
    BY <1>2 DEF Linked, TypeOK
  <2>3. IsFiniteSet(sent') /\ sent' \subseteq [to : Peers, packet : Answers]
    BY Serves, Sends DEF TypeOK
  <2>4. /\ t \in Seq(Answers)
        /\ \A i \in DOMAIN t : \E n \in sent' : n.to = peer[c] /\ n.packet = t[i]
    BY <2>2, <2>3, Packets
  <2>5. \A n \in sent' : n.to = peer[c] => \E i \in DOMAIN t : t[i] = n.packet
    BY <2>3, PacketsOnto
  <2> HIDE DEF t
  <2>6. Pending(c)' = netMsgList[c] \o (down[c] \o t)
    BY <2>1, Serves DEF Pending
  <2>7. (netMsgList[c] \o down[c]) \o t = netMsgList[c] \o (down[c] \o t)
    <3> DEFINE a == netMsgList[c]
               b == down[c]
    <3>1. a \in Seq(Answers) /\ b \in Seq(Answers) /\ t \in Seq(Answers)
      BY <2>2, <2>4
    <3> HIDE DEF a, b
    <3>2. (a \o b) \o t = a \o (b \o t)
      BY <3>1, ConcatAssociative
    <3>. QED  BY <3>2 DEF a, b
  <2>. QED  BY <1>2, <2>1, <2>4, <2>5, <2>6, <2>7 DEF Pending
<1>. QED  BY <1>1, <1>2

\* What is pending is a sequence of answers.
LEMMA PendingTyped ==
  ASSUME TypeOK, NEW c \in Clients
  PROVE  Pending(c) \in Seq(Answers)
<1>1. netMsgList[c] \in Seq(Answers) /\ down[c] \in Seq(Answers)
  BY DEF TypeOK
<1>. QED  BY <1>1, ConcatProperties DEF Pending

\* What a handler's answers tell a streamer about room r.
LEMMA RoomsTold ==
  ASSUME TypeOK, NEW p \in Peers, OnServerReceive(p), NEW c \in Clients, Linked(c),
         NEW r \in Server!RoomIDs
  PROVE  LET mine == {n.packet : n \in {k \in sent' : k.to = peer[c]}}
             told == Replay(asServerRoom[c], Pending(c), 1)'
         IN  /\ (\A m \in mine : ~Opens(m, r, 1) /\ ~Closes(m, r, 1))
                  => (r \in told <=> r \in Replay(asServerRoom[c], Pending(c), 1))
             /\ (\A m \in mine : ~Closes(m, r, 1)) /\ (\E m \in mine : Opens(m, r, 1))
                  => r \in told
             /\ (\A m \in mine : ~Opens(m, r, 1)) /\ (\E m \in mine : Closes(m, r, 1))
                  => r \notin told
<1> DEFINE mine == {n.packet : n \in {k \in sent' : k.to = peer[c]}}
<1>1. PICK t \in Seq(Answers) :
        /\ Pending(c)' = Pending(c) \o t
        /\ \A i \in DOMAIN t : \E n \in sent' : n.to = peer[c] /\ n.packet = t[i]
        /\ \A n \in sent' : n.to = peer[c] => \E i \in DOMAIN t : t[i] = n.packet
  BY SentDown
<1>2. Replay(asServerRoom[c], Pending(c), 1)' = Replay(asServerRoom'[c], Pending(c)', 1)
  BY DEF Replay, Opens, Closes, OpenAfter
<1>3. Replay(asServerRoom'[c], Pending(c)', 1) = Replay(asServerRoom[c], Pending(c) \o t, 1)
  BY <1>1, Serves
<1> DEFINE R  == Replay(asServerRoom[c], Pending(c), 1)
           RR == Replay(asServerRoom[c], Pending(c) \o t, 1)
<1>4. /\ (\A i \in DOMAIN t : ~Opens(t[i], r, 1) /\ ~Closes(t[i], r, 1)) => (r \in RR <=> r \in R)
      /\ (\A i \in DOMAIN t : ~Closes(t[i], r, 1)) /\ (\E i \in DOMAIN t : Opens(t[i], r, 1))
           => r \in RR
      /\ (\A i \in DOMAIN t : ~Opens(t[i], r, 1)) /\ (\E i \in DOMAIN t : Closes(t[i], r, 1))
           => r \notin RR
  BY PendingTyped, ReplayJoined
<1>5. Replay(asServerRoom[c], Pending(c), 1)' = RR
  BY <1>2, <1>3
<1>6. (\A i \in DOMAIN t : t[i] \in mine) /\ (\A m \in mine : \E i \in DOMAIN t : t[i] = m)
  BY <1>1
<1> HIDE DEF RR, R, mine
<1>7. /\ (\A m \in mine : ~Opens(m, r, 1) /\ ~Closes(m, r, 1)) => (r \in RR <=> r \in R)
      /\ (\A m \in mine : ~Closes(m, r, 1)) /\ (\E m \in mine : Opens(m, r, 1)) => r \in RR
      /\ (\A m \in mine : ~Opens(m, r, 1)) /\ (\E m \in mine : Closes(m, r, 1)) => r \notin RR
  BY <1>4, <1>6, Zenon
<1>. QED  BY <1>5, <1>7 DEF R, mine

\* Promises are kept, and a request stays in its queue until it is handled.
LEMMA StillAwaited ==
  ASSUME TypeOK, NEW p \in Peers, OnServerReceive(p), NEW c \in Clients, Linked(c), NEW r,
         Awaited(c, r), ~(peer[c] = p /\ Head(up[p]) = UnbuildReqMsg(r))
  PROVE  Awaited(c, r)'
<1>1. PICK t \in Seq(Answers) : down'[c] = down[c] \o t
  BY SentDown
<1>2. down[c] \in Seq(Answers) /\ peer[c] \in Peers /\ up \in [Peers -> Seq(Requests)]
  BY DEF TypeOK, Linked
<1>3. \A i \in DOMAIN down[c] : i \in DOMAIN down'[c] /\ down'[c][i] = down[c][i]
  <2>1. /\ Len(down[c]) \in Nat /\ Len(t) \in Nat /\ DOMAIN down[c] = 1 .. Len(down[c])
        /\ DOMAIN down'[c] = 1 .. Len(down[c]) + Len(t)
        /\ \A i \in 1 .. Len(down[c]) : down'[c][i] = down[c][i]
    BY <1>1, <1>2, ConcatProperties, LenProperties
  <2>. QED  BY <2>1
<1>4. CASE r \notin asClientRoom[c] /\ Promised(c, r)
  BY <1>3, <1>4, Serves DEF Awaited, Promised
<1>5. CASE windows[c] > 0 /\ viewer[c] = r
  BY <1>5, Serves DEF Awaited
<1>6. CASE \E i \in DOMAIN up[peer[c]] : up[peer[c]][i] = UnbuildReqMsg(r)
  <2>1. PICK i \in DOMAIN up[peer[c]] : up[peer[c]][i] = UnbuildReqMsg(r)
    BY <1>6
  <2>2. CASE peer[c] # p
    <3>1. up'[peer[c]] = up[peer[c]] /\ peer'[c] = peer[c]
      BY <1>2, <2>2, Serves
    <3>. QED  BY <2>1, <3>1 DEF Awaited
  <2>3. CASE peer[c] = p
    <3>1. up'[p] = Tail(up[p]) /\ peer'[c] = p /\ up[p] # <<>> /\ up[p] \in Seq(Requests)
      BY <1>2, <2>3, Serves
    <3>2. i # 1
      BY <2>1, <2>3, <3>1, Headed
    <3>3. i - 1 \in DOMAIN Tail(up[p]) /\ Tail(up[p])[i - 1] = up[p][i]
      BY <2>1, <2>3, <3>1, <3>2
    <3>. QED  BY <2>1, <2>3, <3>1, <3>3 DEF Awaited
  <2>. QED  BY <2>2, <2>3
<1>. QED  BY <1>4, <1>5, <1>6 DEF Awaited

\* The parts of the invariant that every handler keeps alike.
LEMMA ServerStep ==
  ASSUME TypeOK, Server!TypeOK', RoomsInv, NEW p \in Peers, OnServerReceive(p),
         autoRoomID <= autoRoomID',
         \A n \in sent' : n.packet.cmd = "BUILD_RET" => n.packet.roomid <= autoRoomID',
         OffLineUnheard', UnheardIssued',
         \A c \in Clients : FirstConnection(c) /\ BlocksDistinct' => Knows(c)' /\ Views(c)'
  PROVE  RoomsInv'
<1> SUFFICES ASSUME NEW c \in Clients  PROVE ClientRooms(c)'
  BY DEF RoomsInv
<1>1. ClientRooms(c)
  BY DEF RoomsInv
<1>2. FirstConnection(c)' <=> FirstConnection(c)
  BY Serves DEF FirstConnection, Linked
<1>3. autoRoomID \in Nat /\ autoRoomID' \in Nat
  BY SessionAssumption DEF TypeOK, Server!TypeOK
<1>4. KnownIssued(c)'
  <2>1. \A r \in asClientRoom'[c] : r <= autoRoomID'
    <3>1. \A r \in asClientRoom[c] : r \in Nat /\ r <= autoRoomID
      BY <1>1, SessionAssumption DEF ClientRooms, KnownIssued, TypeOK, Server!RoomIDs
    <3>. QED  BY <1>3, <3>1, Serves
  <2>2. \A m \in Answers : m.cmd = "BUILD_RET" => m.roomid \in Nat
    BY AnswerFields, SessionAssumption DEF Server!RoomIDs
  <2>3. \A i \in DOMAIN netMsgList'[c] :
          netMsgList'[c][i].cmd = "BUILD_RET" => netMsgList'[c][i].roomid <= autoRoomID'
    <3>1. \A i \in DOMAIN netMsgList[c] : netMsgList[c][i] \in Answers
      BY DEF TypeOK
    <3>2. \A i \in DOMAIN netMsgList[c] :
            netMsgList[c][i].cmd = "BUILD_RET" => netMsgList[c][i].roomid <= autoRoomID
      BY <1>1 DEF ClientRooms, KnownIssued
    <3>. QED  BY <1>3, <2>2, <3>1, <3>2, Serves
  <2>4. \A i \in DOMAIN down'[c] : down'[c][i].cmd = "BUILD_RET" => down'[c][i].roomid <= autoRoomID'
    <3>1. \A i \in DOMAIN down[c] : down[c][i] \in Answers
      BY DEF TypeOK
    <3>2. \A i \in DOMAIN down[c] :
            down[c][i].cmd = "BUILD_RET" => down[c][i].roomid <= autoRoomID
      BY <1>1 DEF ClientRooms, KnownIssued
    <3>3. \A i \in DOMAIN down'[c] :
            \/ \E j \in DOMAIN down[c] : down'[c][i] = down[c][j]
            \/ \E n \in sent' : n.packet = down'[c][i]
      BY Routed
    <3>. QED  BY <1>3, <2>2, <3>1, <3>2, <3>3
  <2>. QED  BY <2>1, <2>3, <2>4 DEF KnownIssued
<1>5. (connects'[c] = 0 => asServerRoom'[c] = {}) /\ (~overlapped'[c] => windows'[c] <= 1)
  BY <1>1, Serves DEF ClientRooms
<1>. QED  BY <1>2, <1>4, <1>5 DEF ClientRooms

\* Logins, and requests that change no room.
LEMMA QuietRooms ==
  ASSUME TypeOK, Server!TypeOK', Server!PeerBinding, Tables, RoomsInv,
         NEW p \in Peers, OnServerReceive(p),
         Idle(Head(up[p])) \/ \E u \in Users : Head(up[p]) = LoginReqMsg(u) /\ LoggedIn(p, u)
  PROVE  RoomsInv'
<1>1. UNCHANGED <<roomList, roomMap, heap, autoRoomID>> /\ \A n \in sent' : Quiet(n.packet)
  BY DEF Idle, LoggedIn
<1>2. unheard' = unheard
  BY <1>1 DEF OnServerReceive
<1>3. BlocksDistinct' <=> BlocksDistinct
  BY <1>1 DEF BlocksDistinct
<1>4. /\ peerData \in [Peers -> Users \cup {NULL}] /\ userPeer \in [Users -> Peers \cup {NULL}]
      /\ NULL \notin Users
  BY SessionAssumption DEF TypeOK, Server!TypeOK
<1>5. \A q \in Peers : \/ peerData'[q] = peerData[q]
                       \/ /\ q = p /\ peerData[q] = NULL /\ peerData'[q] \in Users
                          /\ userPeer[peerData'[q]] = NULL
  BY <1>4 DEF Idle, LoggedIn
<1>6. OffLineUnheard' /\ UnheardIssued'
  <2>1. \A u \in Users : userPeer'[u] = NULL => userPeer[u] = NULL
    BY <1>4 DEF Idle, LoggedIn
  <2>. QED  BY <1>1, <1>2, <2>1 DEF RoomsInv, OffLineUnheard, UnheardIssued
<1>7. \A n \in sent' : n.packet.cmd = "BUILD_RET" => n.packet.roomid <= autoRoomID'
  <2> SUFFICES ASSUME NEW n \in sent', n.packet.cmd = "BUILD_RET"  PROVE FALSE
    OBVIOUS
  <2>1. n.packet \in Answers
    BY Serves, Sends DEF TypeOK
  <2>2. n.packet.roomid \in Server!RoomIDs /\ n.packet.service \in {1, 2}
    BY <2>1 DEF Answers, Server!LoginRet, Server!BuildRet, Server!UnbuildRet
  <2>. QED  BY <1>1, <2>2 DEF Quiet, Opens
<1>8. ASSUME NEW c \in Clients, FirstConnection(c), BlocksDistinct  PROVE Knows(c)' /\ Views(c)'
  <2>1. Knows(c) /\ Views(c) /\ Linked(c) /\ peer[c] \in Peers /\ peer'[c] = peer[c]
    BY <1>8, Serves DEF RoomsInv, ClientRooms, FirstConnection, Linked, TypeOK
  <2>2. ASSUME NEW r \in Server!RoomIDs
        PROVE  r \in Replay(asServerRoom[c], Pending(c), 1)' <=> Listed(c, r)'
    <3>1. \A n \in sent' : ~Opens(n.packet, r, 1) /\ ~Closes(n.packet, r, 1)
      BY <1>1 DEF Quiet
    <3>2. r \in Replay(asServerRoom[c], Pending(c), 1)'
            <=> r \in Replay(asServerRoom[c], Pending(c), 1)
      BY <2>1, <3>1, RoomsTold
    <3>4. Listed(c, r)' <=> Listed(c, r)
      <4>1. CASE peerData'[peer[c]] = peerData[peer[c]]
        BY <1>1, <1>2, <2>1, <4>1 DEF Listed
      <4>2. CASE /\ peerData[peer[c]] = NULL /\ peerData'[peer[c]] \in Users
                 /\ userPeer[peerData'[peer[c]]] = NULL
        BY <1>1, <1>2, <2>1, <4>2 DEF Listed, RoomsInv, OffLineUnheard
      <4>. QED  BY <1>5, <2>1, <4>1, <4>2
    <3>. QED  BY <2>1, <3>2, <3>4 DEF Knows
  <2>3. ASSUME ~overlapped'[c], peerData'[peer[c]] # NULL, NEW a \in Addrs,
               NEW r \in Server!RoomIDs, heap[a] # NULL,
               heap[a].client = peerData'[peer[c]], heap[a].id = r, <<r, 2>> \notin unheard
        PROVE  Awaited(c, r)'
    <3>1. CASE peerData'[peer[c]] = peerData[peer[c]]
      <4>1. Awaited(c, r)
        BY <2>1, <2>3, <3>1, Serves DEF Views
      <4>2. roomMap[r] = a
        BY <2>3 DEF Tables, Server!RoomTables, Server!LiveRoomsListed
      <4>3. ~(Head(up[p]) = UnbuildReqMsg(r))
        <5>1. \A u \in Users : LoginReqMsg(u) # UnbuildReqMsg(r)
          BY DEF LoginReqMsg, UnbuildReqMsg
        <5>2. a # NULL
          BY SessionAssumption
        <5>. QED  BY <2>3, <4>2, <5>1, <5>2 DEF Idle
      <4>. QED  BY <2>1, <4>1, <4>3, StillAwaited
    <3>2. CASE /\ peerData'[peer[c]] \in Users /\ userPeer[peerData'[peer[c]]] = NULL
      BY <2>3, <3>2 DEF RoomsInv, OffLineUnheard
    <3>. QED  BY <1>5, <2>1, <3>1, <3>2
  <2>4. Views(c)'
    BY <1>1, <1>2, <2>1, <2>3 DEF Views
  <2>. QED  BY <2>2, <2>4 DEF Knows
<1>9. autoRoomID <= autoRoomID'
  BY <1>1, SessionAssumption DEF TypeOK, Server!TypeOK
<1>. QED  BY <1>3, <1>6, <1>7, <1>8, <1>9, ServerStep

\* A viewer's answer that is queued is on its way.
LEMMA OpeningSent ==
  ASSUME TypeOK, NEW p \in Peers, OnServerReceive(p), NEW c \in Clients, Linked(c), NEW r,
         NEW n \in sent', n.to = peer[c], Opens(n.packet, r, 2)
  PROVE  \E i \in DOMAIN down'[c] : Opens(down'[c][i], r, 2)
<1>1. PICK t \in Seq(Answers) :
        /\ down'[c] = down[c] \o t
        /\ \A k \in sent' : k.to = peer[c] => \E i \in DOMAIN t : t[i] = k.packet
  BY SentDown
<1>2. PICK i \in DOMAIN t : t[i] = n.packet
  BY <1>1
<1>3. down[c] \in Seq(Answers)
  BY DEF TypeOK
<1>4. /\ Len(down[c]) \in Nat /\ Len(t) \in Nat /\ DOMAIN t = 1 .. Len(t)
      /\ DOMAIN down'[c] = 1 .. Len(down[c]) + Len(t)
      /\ \A j \in 1 .. Len(t) : down'[c][j + Len(down[c])] = t[j]
  BY <1>1, <1>3, ConcatProperties, LenProperties
<1>5. i + Len(down[c]) \in DOMAIN down'[c] /\ down'[c][i + Len(down[c])] = n.packet
  BY <1>2, <1>4
<1>. QED  BY <1>5

\* Rooms that the server knows of have ids that were given out.
LEMMA OldIds ==
  ASSUME TypeOK, Tables
  PROVE  /\ \A u \in Users : \A r \in roomList[u] : r \in Server!RoomIDs /\ r <= autoRoomID
         /\ \A a \in Addrs : heap[a] # NULL =>
              heap[a] \in Server!Room /\ heap[a].id \in Server!RoomIDs /\ heap[a].id <= autoRoomID
<1>1. \A u \in Users : \A r \in roomList[u] : r \in Server!RoomIDs /\ roomMap[r] # NULL
  BY DEF TypeOK, Server!TypeOK, Tables, Server!RoomTables, Server!ListedRoomsLive
<1>2. \A a \in Addrs : heap[a] # NULL => /\ heap[a] \in Server!Room
                                         /\ heap[a].id \in Server!RoomIDs /\ roomMap[heap[a].id] = a
  BY DEF TypeOK, Server!TypeOK, Tables, Server!RoomTables, Server!LiveRoomsListed, Server!Room
<1>3. NULL \notin Addrs
  BY SessionAssumption
<1>. QED  BY <1>1, <1>2, <1>3 DEF Tables, IssuedOnly

\* A room is built: its id is new to everybody.
LEMMA BuiltRooms ==
  ASSUME TypeOK, Server!TypeOK', Server!PeerBinding, Tables, RoomsInv,
         NEW p \in Peers, OnServerReceive(p), NEW u \in Users, NEW a \in Addrs,
         NEW id \in Server!RoomIDs, Head(up[p]) = BuildReqMsg(u), Built(u, a, id)
  PROVE  RoomsInv'
<1>1. /\ heap[a] = NULL /\ id = autoRoomID + 1 /\ autoRoomID' = id
      /\ UNCHANGED <<peerData, userPeer>>
      /\ sent' = Server!Send2Client(userPeer[Streamer], BuildRet(id, 1))
                   \cup Server!Send2Client(userPeer[u], BuildRet(id, 2))
  BY DEF Built
<1>2. /\ autoRoomID \in Nat /\ autoRoomID' \in Nat /\ autoRoomID < id /\ Streamer \in Users
      /\ NULL \notin Addrs \cup Peers \cup Users \cup Server!Room
  BY <1>1, SessionAssumption DEF TypeOK, Server!TypeOK
<1>3. /\ heap'[a] = [id |-> id, client |-> u, server |-> Streamer]
      /\ \A b \in Addrs \ {a} : heap'[b] = heap[b]
      /\ roomMap'[id] = a /\ \A r \in Server!RoomIDs \ {id} : roomMap'[r] = roomMap[r]
      /\ roomList'[Streamer] = roomList[Streamer] \cup {id}
      /\ \A v \in Users \ {Streamer} : roomList'[v] = roomList[v]
  BY SessionAssumption DEF Built, TypeOK, Server!TypeOK
<1>4. /\ \A r, k : <<r, k>> \in unheard' <=>
           \/ <<r, k>> \in unheard
           \/ r = id /\ k = 1 /\ userPeer[Streamer] = NULL
           \/ r = id /\ k = 2 /\ userPeer[u] = NULL
      /\ \A x \in unheard' : x \in unheard \/ x[1] = id
  <2>1. Head(up[p]).server = Streamer /\ Head(up[p]).client = u
    BY DEF BuildReqMsg
  <2>2. unheard' = unheard \cup
          {<<id, service>> : service \in
             {k \in {1, 2} : userPeer[IF k = 1 THEN Streamer ELSE u] = NULL}}
    BY <1>1, <1>2, <2>1 DEF OnServerReceive
  <2>. QED  BY <2>2
<1>5. /\ \A v \in Users : id \notin roomList[v]
      /\ \A b \in Addrs : heap[b] # NULL => heap[b].id # id
      /\ \A k : <<id, k>> \notin unheard
      /\ roomMap[id] = NULL
  <2>1. \A x \in unheard : x[1] <= autoRoomID
    BY DEF RoomsInv, UnheardIssued
  <2>2. \A k : <<id, k>>[1] = id
    OBVIOUS
  <2>3. ~(id <= autoRoomID)
    BY <1>1, <1>2
  <2>. QED  BY <2>1, <2>2, <2>3, OldIds DEF Tables, IssuedOnly
<1>6. OffLineUnheard'
  <2> SUFFICES ASSUME NEW v \in Users, userPeer[v] = NULL
               PROVE  /\ \A r \in roomList'[v] : <<r, 1>> \in unheard'
                      /\ \A b \in Addrs : heap'[b] # NULL /\ heap'[b].client = v =>
                           <<heap'[b].id, 2>> \in unheard'
    BY <1>1 DEF OffLineUnheard
  <2>1. /\ \A r \in roomList[v] : <<r, 1>> \in unheard
        /\ \A b \in Addrs : heap[b] # NULL /\ heap[b].client = v => <<heap[b].id, 2>> \in unheard
    BY DEF RoomsInv, OffLineUnheard
  <2>2. \A r \in roomList'[v] : <<r, 1>> \in unheard'
    BY <1>3, <1>4, <2>1
  <2>3. ASSUME NEW b \in Addrs, heap'[b] # NULL, heap'[b].client = v
        PROVE  <<heap'[b].id, 2>> \in unheard'
    BY <1>3, <1>4, <2>1, <2>3
  <2>. QED  BY <2>2, <2>3
<1>7. UnheardIssued'
  <2>1. \A x \in unheard : x[1] \in Nat /\ x[1] <= autoRoomID
    BY SessionAssumption DEF RoomsInv, UnheardIssued, TypeOK, Server!RoomIDs
  <2>2. \A x \in unheard' : x[1] <= autoRoomID'
    BY <1>1, <1>2, <1>4, <2>1
  <2>. QED  BY <2>2 DEF UnheardIssued
<1>8. \A n \in sent' : \/ n.to = userPeer[Streamer] /\ n.packet = BuildRet(id, 1)
                       \/ n.to = userPeer[u] /\ n.packet = BuildRet(id, 2)
  BY <1>1 DEF Server!Send2Client
<1>9. /\ userPeer[Streamer] # NULL => [to |-> userPeer[Streamer], packet |-> BuildRet(id, 1)] \in sent'
      /\ userPeer[u] # NULL => [to |-> userPeer[u], packet |-> BuildRet(id, 2)] \in sent'
  BY <1>1 DEF Server!Send2Client
<1>10. \A r, k, j : /\ ~Closes(BuildRet(id, k), r, j)
                    /\ Opens(BuildRet(id, k), r, j) <=> r = id /\ k = j
  BY DEF BuildRet, Opens, Closes
<1>11. \A n \in sent' : n.packet.cmd = "BUILD_RET" => n.packet.roomid <= autoRoomID'
  BY <1>1, <1>2, <1>8 DEF BuildRet
<1>12. BlocksDistinct' => BlocksDistinct
  <2> SUFFICES ASSUME BlocksDistinct', NEW r \in Server!RoomIDs, NEW q \in Server!RoomIDs,
                      r # q, roomMap[r] # NULL
               PROVE  roomMap[r] # roomMap[q]
    BY DEF BlocksDistinct
  <2>1. r # id /\ roomMap'[r] = roomMap[r] /\ roomMap'[r] # roomMap'[q]
    BY <1>3, <1>5 DEF BlocksDistinct
  <2>. QED  BY <1>3, <1>5, <2>1
<1>13. ASSUME NEW c \in Clients, FirstConnection(c), BlocksDistinct'  PROVE Knows(c)' /\ Views(c)'
  <2>1. Knows(c) /\ Views(c) /\ Linked(c) /\ peer[c] \in Peers /\ peer'[c] = peer[c]
    BY <1>12, <1>13, Serves DEF RoomsInv, ClientRooms, FirstConnection, Linked, TypeOK
  <2>2. \A v \in Users : peerData[peer[c]] = v <=> userPeer[v] = peer[c]
    BY <2>1 DEF Server!PeerBinding
  <2>3. peerData[peer[c]] # NULL => peerData[peer[c]] \in Users
    BY <2>1 DEF TypeOK, Server!TypeOK
  <2>4. ASSUME NEW r \in Server!RoomIDs
        PROVE  r \in Replay(asServerRoom[c], Pending(c), 1)' <=> Listed(c, r)'
    <3> DEFINE mine == {n.packet : n \in {k \in sent' : k.to = peer[c]}}
               told == Replay(asServerRoom[c], Pending(c), 1)'
    <3>1. /\ (\A m \in mine : ~Opens(m, r, 1) /\ ~Closes(m, r, 1))
               => (r \in told <=> r \in Replay(asServerRoom[c], Pending(c), 1))
          /\ (\A m \in mine : ~Closes(m, r, 1)) /\ (\E m \in mine : Opens(m, r, 1)) => r \in told
      BY <2>1, RoomsTold
    <3>2. Listed(c, r)' <=> /\ peerData[peer[c]] # NULL
                            /\ r \in roomList'[peerData[peer[c]]] /\ <<r, 1>> \notin unheard'
      BY <1>1, <2>1 DEF Listed
    <3>3. r \in Replay(asServerRoom[c], Pending(c), 1) <=> Listed(c, r)
      BY <2>1 DEF Knows
    <3>4. \A m \in mine : ~Closes(m, r, 1)
      BY <1>8, <1>10
    <3>5. CASE r # id
      <4>1. \A m \in mine : ~Opens(m, r, 1)
        BY <1>8, <1>10, <3>5
      <4>2. Listed(c, r)' <=> Listed(c, r)
        BY <1>3, <1>4, <2>3, <3>2, <3>5 DEF Listed
      <4>. QED  BY <3>1, <3>3, <3>4, <4>1, <4>2
    <3>6. CASE r = id /\ peerData[peer[c]] = Streamer
      <4>1. userPeer[Streamer] = peer[c] /\ peer[c] # NULL
        BY <1>2, <2>1, <2>2, <3>6 DEF Linked
      <4>2. BuildRet(id, 1) \in mine
        BY <1>9, <4>1
      <4>3. Listed(c, r)'
        BY <1>2, <1>3, <1>4, <1>5, <3>2, <3>6, <4>1
      <4>. QED  BY <1>10, <3>1, <3>4, <3>6, <4>2, <4>3
    <3>7. CASE r = id /\ peerData[peer[c]] # Streamer
      <4>1. userPeer[Streamer] # peer[c]
        BY <1>2, <2>2, <3>7
      <4>2. \A m \in mine : ~Opens(m, r, 1)
        BY <1>8, <1>10, <3>7, <4>1
      <4>3. ~Listed(c, r) /\ ~Listed(c, r)'
        BY <1>3, <1>5, <2>3, <3>2, <3>7 DEF Listed
      <4>. QED  BY <3>1, <3>3, <3>4, <4>2, <4>3
    <3>. QED  BY <3>5, <3>6, <3>7
  <2>5. ASSUME ~overlapped'[c], peerData'[peer[c]] # NULL, NEW b \in Addrs,
               NEW r \in Server!RoomIDs, heap'[b] # NULL,
               heap'[b].client = peerData'[peer[c]], heap'[b].id = r, <<r, 2>> \notin unheard'
        PROVE  Awaited(c, r)'
    <3>1. CASE b # a
      <4>1. heap[b] # NULL /\ heap[b].client = peerData[peer[c]] /\ heap[b].id = r
            /\ <<r, 2>> \notin unheard /\ ~overlapped[c] /\ peerData[peer[c]] # NULL
        BY <1>1, <1>3, <1>4, <2>5, <3>1, Serves
      <4>2. Awaited(c, r)
        BY <2>1, <4>1 DEF Views
      <4>3. Head(up[p]) # UnbuildReqMsg(r)
        BY DEF BuildReqMsg, UnbuildReqMsg
      <4>. QED  BY <2>1, <4>2, <4>3, StillAwaited
    <3>2. CASE b = a
      <4>1. r = id /\ u = peerData[peer[c]]
        BY <1>1, <1>3, <2>5, <3>2
      <4>2. userPeer[u] = peer[c] /\ peer[c] # NULL
        BY <1>2, <2>1, <2>2, <4>1
      <4>3. [to |-> peer[c], packet |-> BuildRet(id, 2)] \in sent'
        BY <1>9, <4>2
      <4>4. \E i \in DOMAIN down'[c] : Opens(down'[c][i], id, 2)
        <5> DEFINE n == [to |-> peer[c], packet |-> BuildRet(id, 2)]
        <5>1. n.to = peer[c] /\ Opens(n.packet, id, 2) /\ n \in sent'
          BY <1>10, <4>3
        <5> HIDE DEF n
        <5>. QED  BY <2>1, <5>1, OpeningSent
      <4>5. id \notin asClientRoom'[c]
        <5>1. \A q \in asClientRoom[c] : q <= autoRoomID
          BY DEF RoomsInv, ClientRooms, KnownIssued
        <5>. QED  BY <1>1, <1>2, <5>1, Serves
      <4>. QED  BY <4>1, <4>4, <4>5 DEF Awaited, Promised, Opens
    <3>. QED  BY <3>1, <3>2
  <2>6. Views(c)'
    BY <2>1, <2>5 DEF Views
  <2>. QED  BY <2>4, <2>6 DEF Knows
<1>. QED  BY <1>1, <1>2, <1>6, <1>7, <1>11, <1>13, ServerStep

\* A room is closed: its streamer hears of it, and nobody awaits it any more.
LEMMA UnbuiltRooms ==
  ASSUME TypeOK, Server!TypeOK', Server!PeerBinding, Tables, RoomsInv,
         NEW p \in Peers, OnServerReceive(p), NEW r \in Server!RoomIDs,
         Head(up[p]) = UnbuildReqMsg(r), Unbuilt(r)
  PROVE  RoomsInv'
<1> DEFINE a == roomMap[r]
           s == heap[a].server
           k == heap[a].client
<1>1. /\ a \in Addrs /\ heap[a] # NULL
      /\ UNCHANGED <<roomMap, autoRoomID, peerData, userPeer>>
      /\ \A b \in Addrs : heap'[b] = IF b = a THEN NULL ELSE heap[b]
      /\ \A v \in Users : roomList'[v] = IF v = s THEN roomList[v] \ {r, heap[a].id}
                                         ELSE roomList[v]
      /\ sent' = Server!Send2Client(userPeer[s], UnbuildRet(r, 1))
                   \cup Server!Send2Client(userPeer[k], UnbuildRet(r, 2))
  BY DEF Unbuilt
<1>2. unheard' = unheard
  BY <1>1 DEF OnServerReceive
<1>3. /\ autoRoomID \in Nat /\ NULL \notin Addrs \cup Peers \cup Users
      /\ s \in Users /\ k \in Users
  BY <1>1, SessionAssumption DEF TypeOK, Server!TypeOK, Server!Room
<1>4. /\ \A b \in Addrs : heap[b] # NULL => roomMap[heap[b].id] = b /\ heap[b].id \in Server!RoomIDs
      /\ \A v \in Users : \A q \in roomList[v] : heap[roomMap[q]].server = v
  BY OldIds DEF Tables, Server!RoomTables, Server!LiveRoomsListed, Server!ListedRoomsLive
<1>5. BlocksDistinct' <=> BlocksDistinct
  BY <1>1 DEF BlocksDistinct
<1>6. BlocksDistinct => heap[a].id = r
  BY <1>1, <1>3, <1>4 DEF BlocksDistinct
<1>7. \A n \in sent' : \/ n.to = userPeer[s] /\ n.packet = UnbuildRet(r, 1)
                       \/ n.to = userPeer[k] /\ n.packet = UnbuildRet(r, 2)
  BY <1>1 DEF Server!Send2Client
<1>8. userPeer[s] # NULL => [to |-> userPeer[s], packet |-> UnbuildRet(r, 1)] \in sent'
  BY <1>1 DEF Server!Send2Client
<1>9. \A q, j, i : /\ ~Opens(UnbuildRet(r, j), q, i)
                   /\ Closes(UnbuildRet(r, j), q, i) <=> q = r /\ j = i
  BY DEF UnbuildRet, Opens, Closes
<1> HIDE DEF a, s, k
<1>10. OffLineUnheard' /\ UnheardIssued'
  <2>1. \A v \in Users : roomList'[v] \subseteq roomList[v]
    BY <1>1
  <2>2. \A b \in Addrs : heap'[b] # NULL => heap'[b] = heap[b]
    BY <1>1
  <2>. QED  BY <1>1, <1>2, <2>1, <2>2 DEF RoomsInv, OffLineUnheard, UnheardIssued
<1>11. \A n \in sent' : n.packet.cmd = "BUILD_RET" => n.packet.roomid <= autoRoomID'
  BY <1>7 DEF UnbuildRet
<1>12. ASSUME NEW c \in Clients, FirstConnection(c), BlocksDistinct'  PROVE Knows(c)' /\ Views(c)'
  <2>1. Knows(c) /\ Views(c) /\ Linked(c) /\ peer[c] \in Peers /\ peer'[c] = peer[c]
    BY <1>5, <1>12, Serves DEF RoomsInv, ClientRooms, FirstConnection, Linked, TypeOK
  <2>2. \A v \in Users : peerData[peer[c]] = v <=> userPeer[v] = peer[c]
    BY <2>1 DEF Server!PeerBinding
  <2>3. peerData[peer[c]] # NULL => peerData[peer[c]] \in Users
    BY <2>1 DEF TypeOK, Server!TypeOK
  <2>4. \A v \in Users : roomList'[v] = IF v = s THEN roomList[v] \ {r} ELSE roomList[v]
    BY <1>1, <1>5, <1>6, <1>12
  <2>5. ASSUME NEW q \in Server!RoomIDs
        PROVE  q \in Replay(asServerRoom[c], Pending(c), 1)' <=> Listed(c, q)'
    <3> DEFINE mine == {n.packet : n \in {i \in sent' : i.to = peer[c]}}
               told == Replay(asServerRoom[c], Pending(c), 1)'
    <3>1. /\ (\A m \in mine : ~Opens(m, q, 1) /\ ~Closes(m, q, 1))
               => (q \in told <=> q \in Replay(asServerRoom[c], Pending(c), 1))
          /\ (\A m \in mine : ~Opens(m, q, 1)) /\ (\E m \in mine : Closes(m, q, 1)) => q \notin told
      BY <2>1, RoomsTold
    <3>2. Listed(c, q)' <=> /\ peerData[peer[c]] # NULL
                            /\ q \in roomList'[peerData[peer[c]]] /\ <<q, 1>> \notin unheard
      BY <1>1, <1>2, <2>1 DEF Listed
    <3>3. q \in Replay(asServerRoom[c], Pending(c), 1) <=> Listed(c, q)
      BY <2>1 DEF Knows
    <3>4. \A m \in mine : ~Opens(m, q, 1)
      BY <1>7, <1>9
    <3>5. CASE q # r
      <4>1. \A m \in mine : ~Closes(m, q, 1)
        BY <1>7, <1>9, <3>5
      <4>2. Listed(c, q)' <=> Listed(c, q)
        BY <2>3, <2>4, <3>2, <3>5 DEF Listed
      <4>. QED  BY <3>1, <3>3, <3>4, <4>1, <4>2
    <3>6. CASE q = r /\ peerData[peer[c]] = s
      <4>1. userPeer[s] = peer[c] /\ peer[c] # NULL
        BY <1>3, <2>1, <2>2, <3>6 DEF Linked
      <4>2. UnbuildRet(r, 1) \in mine
        BY <1>8, <4>1
      <4>3. ~Listed(c, q)'
        BY <1>3, <2>4, <3>2, <3>6
      <4>. QED  BY <1>9, <3>1, <3>4, <3>6, <4>2, <4>3
    <3>7. CASE q = r /\ peerData[peer[c]] # s
      <4>1. userPeer[s] # peer[c]
        BY <1>3, <2>2, <3>7
      <4>2. \A m \in mine : ~Closes(m, q, 1)
        BY <1>7, <1>9, <3>7, <4>1
      <4>3. ~Listed(c, q) /\ ~Listed(c, q)'
        BY <1>4, <2>3, <2>4, <3>2, <3>7 DEF Listed, a, s
      <4>. QED  BY <3>1, <3>3, <3>4, <4>2, <4>3
    <3>. QED  BY <3>5, <3>6, <3>7
  <2>6. ASSUME ~overlapped'[c], peerData'[peer[c]] # NULL, NEW b \in Addrs,
               NEW q \in Server!RoomIDs, heap'[b] # NULL,
               heap'[b].client = peerData'[peer[c]], heap'[b].id = q, <<q, 2>> \notin unheard'
        PROVE  Awaited(c, q)'
    <3>1. b # a /\ heap'[b] = heap[b]
      BY <1>1, <2>6
    <3>2. heap[b] # NULL /\ heap[b].client = peerData[peer[c]] /\ heap[b].id = q
          /\ <<q, 2>> \notin unheard /\ ~overlapped[c] /\ peerData[peer[c]] # NULL
      BY <1>1, <1>2, <2>6, <3>1, Serves
    <3>3. Awaited(c, q)
      BY <2>1, <3>2 DEF Views
    <3>4. q # r
      BY <1>4, <3>1, <3>2 DEF a
    <3>5. Head(up[p]) # UnbuildReqMsg(q)
      <4>1. UnbuildReqMsg(q).roomid = q /\ UnbuildReqMsg(r).roomid = r
        BY DEF UnbuildReqMsg
      <4>. QED  BY <3>4, <4>1
    <3>. QED  BY <2>1, <3>3, <3>5, StillAwaited
  <2>7. Views(c)'
    BY <2>1, <2>6 DEF Views
  <2>. QED  BY <2>5, <2>7 DEF Knows
<1>13. autoRoomID <= autoRoomID'
  BY <1>1, <1>3
<1>. QED  BY <1>10, <1>11, <1>12, <1>13, ServerStep

\* The server gives a connection up: the user's own rooms are deleted, of those
\* it views it does not hear again.
LEMMA TimeoutRooms ==
  ASSUME TypeOK, Server!PeerBinding, Tables, RoomsInv, NEW p \in Peers, OnServerDisconnect(p)
  PROVE  RoomsInv'
<1>1. /\ link' = [link EXCEPT ![p] = NULL] /\ up' = [up EXCEPT ![p] = <<>>]
      /\ UNCHANGED <<peer, isConnected, connects, down, netMsgList, asServerRoom, asClientRoom,
                     viewer, windows, overlapped>>
  BY DEF OnServerDisconnect, rooms
<1>2. /\ link \in [Peers -> Clients \cup {NULL}] /\ up \in [Peers -> Seq(Requests)]
      /\ peerData \in [Peers -> Users \cup {NULL}] /\ userPeer \in [Users -> Peers \cup {NULL}]
      /\ roomMap \in [Server!RoomIDs -> Addrs \cup {NULL}] /\ heap \in [Addrs -> Server!Room \cup {NULL}]
      /\ NULL \notin Clients \cup Users \cup Peers \cup Addrs \cup Server!Room
      /\ roomList \in [Users -> SUBSET Server!RoomIDs]
  BY SessionAssumption DEF TypeOK, Server!TypeOK
<1>3. ASSUME NEW c \in Clients, Linked(c)'
      PROVE  /\ Linked(c) /\ peer[c] \in Peers \ {p} /\ up'[peer[c]] = up[peer[c]]
  <2>1. peer[c] \in Peers /\ peer[c] # p
    BY <1>1, <1>2, <1>3 DEF Linked, TypeOK
  <2>. QED  BY <1>1, <1>2, <1>3, <2>1 DEF Linked
<1>4. CASE Server!OnDisconnectAnonymous(p)
  <2>1. UNCHANGED <<roomList, roomMap, heap, autoRoomID, userPeer, peerData>> /\ peerData[p] = NULL
    BY <1>4 DEF Server!OnDisconnectAnonymous, Server!roomVars
  <2>2. unheard' = unheard
    BY <2>1 DEF OnServerDisconnect
  <2>3. ASSUME NEW c \in Clients  PROVE ClientRooms(c)'
    <3>1. ClientRooms(c)
      BY DEF RoomsInv
    <3>. QED  BY <1>1, <1>3, <2>1, <2>2, <3>1, Untouched
  <2>. QED  BY <2>1, <2>2, <2>3 DEF RoomsInv, OffLineUnheard, UnheardIssued
<1>5. CASE Server!OnDisconnect(p)
  <2> DEFINE u == peerData[p]
             listed == {r \in roomList[u] : roomMap[r] # NULL}
             A == {roomMap[r] : r \in {q \in listed : ~Server!Dangling(q)}}
  <2>1. /\ u # NULL /\ u \in Users
        /\ userPeer' = [userPeer EXCEPT ![u] = NULL]
        /\ roomList' = [v \in Users |->
             roomList[v] \ {heap[a].id : a \in {b \in A : heap[b].server = v}}]
        /\ heap' = [a \in Addrs |-> IF a \in A THEN NULL ELSE heap[a]]
        /\ peerData' = [peerData EXCEPT ![p] = NULL]
        /\ UNCHANGED <<roomMap, autoRoomID>>
    BY <1>2, <1>5 DEF Server!OnDisconnect, Server!GetRoom, Server!ClearPeer,
       Server!ListsAfterDelete, Server!HeapAfterDelete
  <2>2. unheard' = unheard \cup {<<heap[a].id, 2>> :
          a \in {b \in Addrs : heap'[b] # NULL /\ heap[b].client = u}}
    BY <2>1 DEF OnServerDisconnect
  <2>3. \A v \in Users : \A r \in roomList[v] :
          /\ r \in Server!RoomIDs /\ roomMap[r] \in Addrs /\ heap[roomMap[r]] # NULL
          /\ heap[roomMap[r]].id = r /\ heap[roomMap[r]].server = v
    BY <1>2 DEF Tables, Server!RoomTables, Server!ListedRoomsLive
  <2>4. \A r \in roomList[u] : roomMap[r] \in A
    BY <1>2, <2>1, <2>3 DEF Server!Dangling
  <2>5. \A a \in A : heap[a].server = u
    BY <2>1, <2>3
  <2> HIDE DEF A
  <2>6. roomList'[u] = {}
    <3>1. roomList'[u] = roomList[u] \ {heap[a].id : a \in {b \in A : heap[b].server = u}}
      BY <2>1
    <3>2. \A r \in roomList[u] : roomMap[r] \in A /\ heap[roomMap[r]].server = u
                                  /\ heap[roomMap[r]].id = r
      BY <2>1, <2>3, <2>4
    <3>3. \A r \in roomList[u] : r \in {heap[a].id : a \in {b \in A : heap[b].server = u}}
      BY <3>2
    <3>. QED  BY <3>1, <3>3
  <2>7. \A v \in Users \ {u} : roomList'[v] = roomList[v]
    BY <2>1, <2>5
  <2>8. \A b \in Addrs : heap'[b] # NULL => heap[b] # NULL /\ heap'[b] = heap[b]
    BY <2>1
  <2>9. \A r : <<r, 1>> \in unheard' <=> <<r, 1>> \in unheard
    BY <2>2
  <2>10. \A b \in Addrs : heap'[b] # NULL /\ heap[b].client = u => <<heap[b].id, 2>> \in unheard'
    BY <2>2
  <2>11. unheard \subseteq unheard'
    BY <2>2
  <2>12. OffLineUnheard'
    <3> SUFFICES ASSUME NEW v \in Users, userPeer'[v] = NULL
                 PROVE  /\ \A r \in roomList'[v] : <<r, 1>> \in unheard'
                        /\ \A b \in Addrs : heap'[b] # NULL /\ heap'[b].client = v =>
                             <<heap'[b].id, 2>> \in unheard'
      BY DEF OffLineUnheard
    <3>1. CASE v = u
      BY <2>6, <2>8, <2>10, <3>1
    <3>2. CASE v # u
      <4>1. userPeer[v] = NULL /\ roomList'[v] = roomList[v]
        BY <1>2, <2>1, <2>7, <3>2
      <4>2. /\ \A r \in roomList[v] : <<r, 1>> \in unheard
            /\ \A b \in Addrs : heap[b] # NULL /\ heap[b].client = v => <<heap[b].id, 2>> \in unheard
        BY <4>1 DEF RoomsInv, OffLineUnheard
      <4>. QED  BY <2>8, <2>11, <4>1, <4>2
    <3>. QED  BY <3>1, <3>2
  <2>13. UnheardIssued'
    <3>1. \A x \in unheard : x[1] <= autoRoomID
      BY DEF RoomsInv, UnheardIssued
    <3>2. \A b \in Addrs : heap'[b] # NULL => heap[b].id <= autoRoomID
      BY <2>8, OldIds
    <3>3. \A x \in unheard' : x \in unheard
             \/ \E b \in Addrs : heap'[b] # NULL /\ x = <<heap[b].id, 2>>
      BY <2>2
    <3>4. \A x \in unheard' : x[1] <= autoRoomID
      <4> SUFFICES ASSUME NEW x \in unheard', x \notin unheard  PROVE x[1] <= autoRoomID
        BY <3>1
      <4>1. PICK b \in Addrs : heap'[b] # NULL /\ x = <<heap[b].id, 2>>
        BY <3>3
      <4>2. x[1] = heap[b].id
        BY <4>1
      <4>. QED  BY <3>2, <4>1, <4>2
    <3>. QED  BY <2>1, <3>4 DEF UnheardIssued
  <2>14. ASSUME NEW c \in Clients  PROVE ClientRooms(c)'
    <3>1. ClientRooms(c)
      BY DEF RoomsInv
    <3>2. KnownIssued(c)'
      BY <1>1, <2>1, <3>1 DEF ClientRooms, KnownIssued
    <3>3. ASSUME FirstConnection(c)', BlocksDistinct'  PROVE Knows(c)' /\ Views(c)'
      <4>1. /\ Linked(c)' /\ Linked(c) /\ peer[c] \in Peers \ {p} /\ up'[peer[c]] = up[peer[c]]
            /\ peer'[c] = peer[c]
        BY <1>1, <1>3, <3>3 DEF FirstConnection
      <4>2. FirstConnection(c) /\ BlocksDistinct
        BY <1>1, <2>1, <3>3, <4>1 DEF FirstConnection, BlocksDistinct
      <4>3. Knows(c) /\ Views(c)
        BY <3>1, <4>2 DEF ClientRooms
      <4>4. peerData'[peer[c]] = peerData[peer[c]]
        BY <1>2, <2>1, <4>1
      <4>5. peerData[peer[c]] # NULL => peerData[peer[c]] \in Users \ {u}
        BY <1>2, <2>1, <4>1 DEF Server!PeerBinding
      <4>6. ASSUME NEW r \in Server!RoomIDs
            PROVE  r \in Replay(asServerRoom[c], Pending(c), 1)' <=> Listed(c, r)'
        <5>1. Listed(c, r)' <=> Listed(c, r)
          BY <2>7, <2>9, <4>1, <4>4, <4>5 DEF Listed
        <5>2. Replay(asServerRoom[c], Pending(c), 1)' = Replay(asServerRoom'[c], Pending(c)', 1)
          BY DEF Replay, Opens, Closes, OpenAfter
        <5>3. Pending(c)' = Pending(c) /\ asServerRoom'[c] = asServerRoom[c]
          BY <1>1 DEF Pending
        <5>. QED  BY <4>3, <5>1, <5>2, <5>3 DEF Knows
      <4>7. ASSUME ~overlapped'[c], peerData'[peer[c]] # NULL, NEW b \in Addrs,
                   NEW r \in Server!RoomIDs, heap'[b] # NULL,
                   heap'[b].client = peerData'[peer[c]], heap'[b].id = r, <<r, 2>> \notin unheard'
            PROVE  Awaited(c, r)'
        <5>1. heap[b] # NULL /\ heap[b].client = peerData[peer[c]] /\ heap[b].id = r
              /\ <<r, 2>> \notin unheard /\ ~overlapped[c] /\ peerData[peer[c]] # NULL
          BY <1>1, <2>8, <2>11, <4>4, <4>7
        <5>2. Awaited(c, r)
          BY <4>3, <5>1 DEF Views
        <5>3. up'[peer'[c]] = up[peer[c]]
          BY <4>1
        <5>. QED  BY <1>1, <5>2, <5>3 DEF Awaited, Promised
      <4>8. Views(c)'
        BY <4>1, <4>7 DEF Views
      <4>. QED  BY <4>6, <4>8 DEF Knows
    <3>. QED  BY <1>1, <3>1, <3>2, <3>3 DEF ClientRooms
  <2>. QED  BY <2>12, <2>13, <2>14 DEF RoomsInv
<1>. QED  BY <1>4, <1>5 DEF OnServerDisconnect

\* Every step of client or server keeps what they make of the rooms.
LEMMA RoomsNext ==
  TypeOK /\ TypeOK' /\ Server!PeerBinding /\ Tables /\ LoginInv /\ RoomsInv /\ [Next]_vars
    => RoomsInv'
<1> SUFFICES ASSUME TypeOK, TypeOK', Server!PeerBinding, Tables, LoginInv, RoomsInv, [Next]_vars
             PROVE  RoomsInv'
  OBVIOUS
<1>1. CASE UNCHANGED vars
  <2>1. /\ UNCHANGED <<roomList, roomMap, heap, autoRoomID, unheard, userPeer, peerData, link, up,
                       peer, isConnected, connects, down, netMsgList, asServerRoom, asClientRoom,
                       viewer, windows, overlapped>>
    BY <1>1 DEF vars, server, net, rooms
  <2>2. ASSUME NEW c \in Clients  PROVE ClientRooms(c)'
    <3>1. ClientRooms(c) /\ (Linked(c)' => Linked(c))
      BY <2>1 DEF RoomsInv, Linked
    <3>. QED  BY <2>1, <3>1, Untouched
  <2>. QED  BY <2>1, <2>2 DEF RoomsInv, OffLineUnheard, UnheardIssued
<1>2. ASSUME NEW p \in Peers, OnServerReceive(p)  PROVE RoomsInv'
  <2>1. Server!TypeOK /\ Server!TypeOK'
    BY DEF TypeOK
  <2>2. Head(up[p]) \in Requests /\ Handle(p, Head(up[p]))
    BY <1>2, Serves
  <2>3. \/ Idle(Head(up[p])) \/ \E u \in Users : Head(up[p]) = LoginReqMsg(u) /\ LoggedIn(p, u)
        \/ \E u \in Users, a \in Addrs, id \in Server!RoomIDs :
             Head(up[p]) = BuildReqMsg(u) /\ Built(u, a, id)
        \/ \E r \in Server!RoomIDs : Head(up[p]) = UnbuildReqMsg(r) /\ Unbuilt(r)
    BY <2>1, <2>2, HandledAs
  <2>. QED  BY <1>2, <2>1, <2>3, QuietRooms, BuiltRooms, UnbuiltRooms
<1>. QED
  BY <1>1, <1>2, ConnectRooms, DropRooms, ReceiveRooms, DispatchRooms, BuildButtonRooms,
     BuildReqRooms, CloseRooms, TimeoutRooms DEF Next

\* The server's tables agree throughout a session.
LEMMA TablesHold == Spec => []Tables
<1>1. Server!Spec => ServerProofs!Spec
  <2>1. Server!Init => ServerProofs!Init
    BY SameServer
  <2>2. [Server!Next]_(Server!vars) => [ServerProofs!Next]_(ServerProofs!vars)
    BY SameSteps DEF Server!vars, ServerProofs!vars
  <2>. QED  BY <2>1, <2>2, PTL DEF Server!Spec, ServerProofs!Spec
<1>2. ServerProofs!Spec => []ServerProofs!IInv
  BY ServerProofs!Invariance, ServerConstants
<1>3. ServerProofs!IInv => Tables
  BY DEF ServerProofs!IInv, ServerProofs!ListedRoomsLive, ServerProofs!LiveRoomsListed,
     ServerProofs!IssuedOnly, Tables, IssuedOnly, Server!RoomTables, Server!ListedRoomsLive,
     Server!LiveRoomsListed, Server!RoomIDs, ServerProofs!RoomIDs
<1>. QED  BY <1>1, <1>2, <1>3, SessionRunsTheServer, PTL

\* Rooms are the same to the streamer, to the viewer and to the server once what
\* is under way is counted in: the streamer's set of rooms is the server's list
\* (PandaRC.cpp:171, 209, RoomMgr.cpp:160), and a viewer without a window, with
\* nothing under way, has no room left.
THEOREM RoomsAgreeHolds == Spec => []RoomsAgree
<1>1. Spec => [](TypeOK /\ Server!PeerBinding)
  BY SessionRunsTheServer, ServerBound, TypeCorrect, PTL
<1>2. Spec => []RoomsInv
  BY <1>1, RoomsInit, RoomsNext, TablesHold, LoginInvHolds, PTL DEF Spec
<1>. QED  BY <1>1, <1>2, RoomsAgreeFollows, PTL
=============================================================================
