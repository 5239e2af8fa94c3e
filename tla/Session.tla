------------------------------ MODULE Session ------------------------------
(***************************************************************************)
(* Clients and relay server together: each client's session (PandaRC.cpp   *)
(* over QNetThread.cpp and the client half of Network.cpp), the server of  *)
(* module RoomMgr, and the ENet connections between them.                  *)
(*                                                                         *)
(* A connection is reliable and ordered until it breaks.  Each side learns *)
(* of the break by itself: the client by its own time-out or because it    *)
(* resets the peer (enet_peer_reset tells the other side nothing), the     *)
(* server only by a time-out.  Until then the server's slot stays taken    *)
(* and its user logged in.                                                 *)
(*                                                                         *)
(* Frames do not change what is modelled here (see FrameQueue, RoomMgr).   *)
(* All viewer windows stand under key 1 of m_clientViewerMap, and closing  *)
(* any of them calls onViewerClose(1); so windows are only counted.        *)
(***************************************************************************)
EXTENDS Naturals, Sequences, SequencesExt

CONSTANTS
  Clients,     \* client processes
  Users, Peers, Addrs, MaxRoomID, BuildLimit, NULL,  \* as in RoomMgr
  Streamer,    \* the user every BUILD_REQ names as server_userid: 1 in the code
  MaxQueue,    \* bound: messages in flight or waiting in one queue
  MaxWindows,  \* bound: viewer windows open in one client
  MaxLogins    \* bound: connections of one client; from 3 on there is none

VARIABLES
  userMap, userPeer, roomList, roomMap, heap, autoRoomID, slot, peerData,
  crashed,      \* the server: see RoomMgr
  link,         \* slot -> the client whose connection occupies it, or NULL
  up,           \* slot -> requests under way on that connection
  peer,         \* Network::m_poClientPeer, or NULL: none, or it was reset
  isConnected,  \* QNetThread::m_isConnected
  down,         \* client -> answers under way on its present connection
  netMsgList,   \* PandaRC::m_netMsgList
  bLogin,       \* PandaRC::m_bLogin
  userID,       \* PandaRC::m_nUserID
  asServerRoom, \* PandaRC::m_asServerRoomMap
  asClientRoom, \* PandaRC::m_asClientRoomMap
  viewer,       \* room id of the viewer in m_clientViewerMap[1], 0: no entry
  windows,      \* number of viewer windows open
  connects,     \* history: connections the client made, counted up to 2
  overlapped,   \* history: two viewer windows of the client were open at once
  unheard,      \* history: <<room id, service>>, the user lost its slot since then
  sent          \* as in RoomMgr; last, so that a state without it has one least copy

server  == <<userMap, userPeer, roomList, roomMap, heap, autoRoomID, slot, peerData,
             sent, crashed>>
session == <<bLogin, userID>>
rooms   == <<asServerRoom, asClientRoom, viewer, windows, overlapped>>
net     == <<link, up, peer, isConnected, connects>>
vars    == <<server, unheard, net, down, netMsgList, session, rooms>>

Server == INSTANCE RoomMgr

ASSUME SessionAssumption ==
  /\ Streamer \in Users
  /\ NULL \notin Clients \cup Users \cup Peers \cup Addrs \cup Server!Room
  /\ MaxRoomID \in Nat \ {0} /\ BuildLimit \in 0 .. MaxRoomID
  /\ {MaxQueue, MaxWindows, MaxLogins} \subseteq Nat

\* The client and the server agree that the client has a connection.
Linked(c) == peer[c] # NULL /\ link[peer[c]] = c

-----------------------------------------------------------------------------
(* Messages.                                                               *)

LoginReqMsg(u)   == [cmd |-> "LOGIN_REQ", userid |-> u]
BuildReqMsg(u)   == [cmd |-> "BUILD_REQ", client |-> u, server |-> Streamer]
UnbuildReqMsg(r) == [cmd |-> "UNBUILD_REQ", roomid |-> r]
Requests == {LoginReqMsg(u) : u \in Users} \cup {BuildReqMsg(u) : u \in Users}
              \cup {UnbuildReqMsg(r) : r \in Server!RoomIDs}

\* QNetThread::sendMsg: dropped without a connection, lost if the server has
\* given up the connection.
SendMsg(c, m) ==
  up' = IF isConnected[c] /\ Linked(c) THEN [up EXCEPT ![peer[c]] = Append(@, m)] ELSE up

\* enet_peer_send to slot p, in the order of the handler's calls: the streamer's
\* answer (service 1) before the viewer's (service 2).
ForViewer(m) == m.cmd # "LOGIN_RET" /\ m.service = 2

PacketsTo(p) ==
  LET mine == {m.packet : m \in {n \in sent' : n.to = p}}
  IN SetToSeq({m \in mine : ~ForViewer(m)}) \o SetToSeq({m \in mine : ForViewer(m)})

\* What the handler queued reaches the clients that still use the slot.
Route ==
  down' = [c \in Clients |-> IF Linked(c) THEN down[c] \o PacketsTo(peer[c]) ELSE down[c]]

-----------------------------------------------------------------------------
(* The client.                                                             *)

\* onBtnLogin shows a message box and returns when m_bLogin is set.
MayLogin(c) == ~bLogin[c]

\* Mutant: what ENet has queued for the old connection is still delivered.
AfterResetMutant(q) == q

\* enet_peer_reset discards the packets of the connection.
AfterReset(q) == <<>>

\* onBtnLogin, Network::Connect: the old connection is dropped without a word to
\* the server; CONNECT arrives and the callback sends LOGIN_REQ.
OnBtnLogin(c, u) ==
  /\ MayLogin(c) /\ connects[c] < MaxLogins
  /\ userID' = [userID EXCEPT ![c] = u]
  /\ \E p \in Peers :
       /\ Server!OnConnect(p)
       /\ peer' = [peer EXCEPT ![c] = p]
       /\ link' = [link EXCEPT ![p] = c]
       /\ up' = [up EXCEPT ![p] = <<LoginReqMsg(u)>>]
  /\ isConnected' = [isConnected EXCEPT ![c] = TRUE]
  /\ down' = [down EXCEPT ![c] = AfterReset(@)]
  /\ connects' = [connects EXCEPT ![c] = IF @ = 0 THEN 1 ELSE 2]
  /\ UNCHANGED <<unheard, netMsgList, bLogin, rooms>>

\* No CONNECT within five seconds: m_isConnected keeps its old value.
OnBtnLoginFail(c, u) ==
  /\ MayLogin(c)
  /\ userID' = [userID EXCEPT ![c] = u]
  /\ peer' = [peer EXCEPT ![c] = NULL]
  /\ down' = [down EXCEPT ![c] = AfterReset(@)]
  /\ UNCHANGED <<server, unheard, link, up, isConnected, connects, netMsgList, bLogin, rooms>>

\* The client's time-out: ENET_EVENT_TYPE_DISCONNECT resets the peer.
OnClientDisconnect(c) ==
  /\ peer[c] # NULL
  /\ isConnected' = [isConnected EXCEPT ![c] = FALSE]
  /\ peer' = [peer EXCEPT ![c] = NULL]
  /\ down' = [down EXCEPT ![c] = AfterReset(@)]
  /\ UNCHANGED <<server, unheard, link, up, connects, netMsgList, session, rooms>>

\* OnReceive in the net thread: onReceiveNetMsg.
OnReceive(c) ==
  /\ peer[c] # NULL /\ down[c] # <<>>
  /\ Len(netMsgList[c]) < MaxQueue
  /\ netMsgList' = [netMsgList EXCEPT ![c] = Append(@, Head(down[c]))]
  /\ down' = [down EXCEPT ![c] = Tail(@)]
  /\ UNCHANGED <<server, unheard, net, session, rooms>>

\* dispatchNetMsg takes one message of kind cmd, of whichever connection.
PopNetMsg(c, cmd) ==
  /\ netMsgList[c] # <<>> /\ Head(netMsgList[c]).cmd = cmd
  /\ netMsgList' = [netMsgList EXCEPT ![c] = Tail(@)]
  /\ UNCHANGED <<server, unheard, net, down>>

LoginUser(m) == m.userid

\* Mutant: the code of the answer is not looked at.
LoginAcceptedMutant(m) == TRUE

\* A refusal is only logged.
LoginAccepted(m) == m.code = 0

OnLoginRet(c) ==
  /\ PopNetMsg(c, "LOGIN_RET")
  /\ LET m == Head(netMsgList[c]) IN
       IF LoginAccepted(m)
       THEN /\ bLogin' = [bLogin EXCEPT ![c] = TRUE]
            /\ userID' = [userID EXCEPT ![c] = LoginUser(m)]
       ELSE UNCHANGED session
  /\ UNCHANGED rooms

\* A viewer window for room r takes the entry of m_clientViewerMap.
OpenViewer(c, r) ==
  /\ windows[c] < MaxWindows
  /\ windows' = [windows EXCEPT ![c] = @ + 1]
  /\ viewer' = [viewer EXCEPT ![c] = r]
  /\ overlapped' = [overlapped EXCEPT ![c] = @ \/ windows[c] > 0]

\* service 1: this client streams in the room.
OnBuildRetServer(c) ==
  /\ PopNetMsg(c, "BUILD_RET")
  /\ LET m == Head(netMsgList[c]) IN
       /\ m.service = 1
       /\ asServerRoom' = [asServerRoom EXCEPT ![c] = @ \cup {m.roomid}]
  /\ UNCHANGED <<session, asClientRoom, viewer, windows, overlapped>>

\* service 2: this client views the room; an id it knows already is refused.
OnBuildRetClient(c) ==
  /\ PopNetMsg(c, "BUILD_RET")
  /\ LET m == Head(netMsgList[c]) IN
       /\ m.service = 2
       /\ IF m.roomid \in asClientRoom[c]
          THEN UNCHANGED <<asClientRoom, viewer, windows, overlapped>>
          ELSE /\ asClientRoom' = [asClientRoom EXCEPT ![c] = @ \cup {m.roomid}]
               /\ OpenViewer(c, m.roomid)
  /\ UNCHANGED <<session, asServerRoom>>

\* Mutant: the streamer forgets all its rooms with the first that is closed.
EraseRoomMutant(S, r) == {}

EraseRoom(S, r) == S \ {r}

OnUnbuildRet(c) ==
  /\ PopNetMsg(c, "UNBUILD_RET")
  /\ LET m == Head(netMsgList[c]) IN
       /\ asServerRoom' = IF m.code = 0 /\ m.service = 1
                          THEN [asServerRoom EXCEPT ![c] = EraseRoom(@, m.roomid)]
                          ELSE asServerRoom
       /\ asClientRoom' = IF m.code = 0 /\ m.service = 2
                          THEN [asClientRoom EXCEPT ![c] = EraseRoom(@, m.roomid)]
                          ELSE asClientRoom
  /\ UNCHANGED <<session, viewer, windows, overlapped>>

\* The build button opens a window for room 1 without asking the server.
OnBtnBuild(c) ==
  /\ OpenViewer(c, 1)
  /\ UNCHANGED <<server, unheard, net, down, netMsgList, session, asServerRoom, asClientRoom>>

BuildsUnderWay ==
  Cardinality({b \in Peers \X (1 .. MaxQueue) :
                 b[2] <= Len(up[b[1]]) /\ up[b[1]][b[2]].cmd = "BUILD_REQ"})

\* buildReq.  Its call in onBtnBuild is commented out at this commit; it is the
\* only place that says who may ask for which room.
BuildReq(c) ==
  /\ isConnected[c] /\ Linked(c) /\ Len(up[peer[c]]) < MaxQueue
  /\ autoRoomID + BuildsUnderWay < BuildLimit
  /\ SendMsg(c, BuildReqMsg(userID[c]))
  /\ UNCHANGED <<server, unheard, link, peer, isConnected, connects, down, netMsgList, session, rooms>>

UnbuildReq(c, r) == SendMsg(c, UnbuildReqMsg(r))

\* A window is closed.  The server is asked to close the room of the viewer in
\* the map, whichever window was closed; without an entry nothing is sent.
OnViewerClose(c) ==
  /\ windows[c] > 0
  /\ Linked(c) => Len(up[peer[c]]) < MaxQueue
  /\ windows' = [windows EXCEPT ![c] = @ - 1]
  /\ viewer' = [viewer EXCEPT ![c] = 0]
  /\ IF viewer[c] # 0 THEN UnbuildReq(c, viewer[c]) ELSE UNCHANGED up
  /\ UNCHANGED <<server, unheard, link, peer, isConnected, connects, down, netMsgList, session,
                 asServerRoom, asClientRoom, overlapped>>

-----------------------------------------------------------------------------
(* The server: one handler of RoomMgr per request or event.                *)

Handle(p, m) ==
  CASE m.cmd = "LOGIN_REQ"   -> Server!LoginReq(p, m.userid)
    [] m.cmd = "BUILD_REQ"   -> \/ Server!BuildReqUnknown(p, m.client, m.server)
                                \/ Server!BuildReq(p, m.client, m.server)
    [] m.cmd = "UNBUILD_REQ" -> \/ Server!UnbuildReqUnknown(p, m.roomid)
                                \/ Server!UnbuildReqFreed(p, m.roomid)
                                \/ Server!UnbuildReq(p, m.roomid)

OnServerReceive(p) ==
  /\ up[p] # <<>>
  /\ \A c \in Clients : Len(down[c]) < MaxQueue
  /\ Handle(p, Head(up[p]))
  /\ up' = [up EXCEPT ![p] = Tail(@)]
  /\ Route
  /\ unheard' = unheard \cup
       (IF autoRoomID' = autoRoomID THEN {}
        ELSE {<<autoRoomID', service>> : service \in
                {k \in {1, 2} : userPeer[IF k = 1 THEN Head(up[p]).server
                                        ELSE Head(up[p]).client] = NULL}})
  /\ UNCHANGED <<link, peer, isConnected, connects, netMsgList, session, rooms>>

\* The server's time-out for the slot; requests under way are lost.
OnServerDisconnect(p) ==
  /\ Server!OnDisconnect(p) \/ Server!OnDisconnectAnonymous(p)
  /\ link' = [link EXCEPT ![p] = NULL]
  /\ up' = [up EXCEPT ![p] = <<>>]
  /\ unheard' = unheard \cup {<<heap[a].id, 2>> :
       a \in {b \in Addrs : /\ heap'[b] # NULL
                            /\ peerData[p] # NULL /\ heap[b].client = peerData[p]}}
  /\ UNCHANGED <<peer, isConnected, connects, down, netMsgList, session, rooms>>

-----------------------------------------------------------------------------
Init ==
  /\ Server!Init
  /\ unheard = {}
  /\ link = [p \in Peers |-> NULL]
  /\ up = [p \in Peers |-> <<>>]
  /\ peer = [c \in Clients |-> NULL]
  /\ isConnected = [c \in Clients |-> FALSE]
  /\ down = [c \in Clients |-> <<>>]
  /\ netMsgList = [c \in Clients |-> <<>>]
  /\ bLogin = [c \in Clients |-> FALSE]
  /\ userID = [c \in Clients |-> NULL]
  /\ asServerRoom = [c \in Clients |-> {}]
  /\ asClientRoom = [c \in Clients |-> {}]
  /\ viewer = [c \in Clients |-> 0]
  /\ windows = [c \in Clients |-> 0]
  /\ connects = [c \in Clients |-> 0]
  /\ overlapped = [c \in Clients |-> FALSE]

DispatchNetMsg(c) ==
  OnLoginRet(c) \/ OnBuildRetServer(c) \/ OnBuildRetClient(c) \/ OnUnbuildRet(c)

Next ==
  \/ \E c \in Clients, u \in Users : OnBtnLogin(c, u) \/ OnBtnLoginFail(c, u)
  \/ \E c \in Clients :
       \/ OnClientDisconnect(c) \/ OnReceive(c) \/ DispatchNetMsg(c)
       \/ OnBtnBuild(c) \/ BuildReq(c) \/ OnViewerClose(c)
  \/ \E p \in Peers : OnServerReceive(p) \/ OnServerDisconnect(p)

Spec == Init /\ [][Next]_vars

-----------------------------------------------------------------------------
(* Properties.                                                             *)

\* What a client receives: FRAME_SYNC has no part here.
Answers == Server!LoginRet \cup Server!BuildRet \cup Server!UnbuildRet

\* Every variable has its type, and a client with a connection has a user id.
TypeOK ==
  /\ Server!TypeOK
  /\ link \in [Peers -> Clients \cup {NULL}]
  /\ up \in [Peers -> Seq(Requests)]
  /\ peer \in [Clients -> Peers \cup {NULL}]
  /\ isConnected \in [Clients -> BOOLEAN]
  /\ down \in [Clients -> Seq(Answers)] /\ netMsgList \in [Clients -> Seq(Answers)]
  /\ bLogin \in [Clients -> BOOLEAN]
  /\ userID \in [Clients -> Users \cup {NULL}]
  /\ \A c \in Clients : peer[c] # NULL => userID[c] \in Users
  /\ asServerRoom \in [Clients -> SUBSET Server!RoomIDs]
  /\ asClientRoom \in [Clients -> SUBSET Server!RoomIDs]
  /\ viewer \in [Clients -> Server!RoomIDs \cup {0}]
  /\ windows \in [Clients -> 0 .. MaxWindows]
  /\ connects \in [Clients -> 0 .. 2]
  /\ overlapped \in [Clients -> BOOLEAN]
  /\ unheard \subseteq Server!RoomIDs \X {1, 2}

\* The client is on its first connection and the server has it too.
FirstConnection(c) == connects[c] = 1 /\ isConnected[c] /\ Linked(c)

\* What the client will do with the answers it has not handled yet.
Pending(c) == netMsgList[c] \o down[c]

\* A client that takes itself to be logged in is logged in, under that user id,
\* on the connection it uses: LOGIN_RET, the server's binding and the client's
\* flag agree as long as the client has not connected twice.  (A second click
\* on the button before LOGIN_RET is handled breaks it: the stale answer of the
\* first connection sets m_bLogin while the server refuses the second.)
LoginMeansBound ==
  \A c \in Clients :
    FirstConnection(c) /\ bLogin[c] => peerData[peer[c]] = userID[c]

\* However often the client drops its connection and makes a new one, a login
\* accepted on the present connection is one the server has on record for it.
AcceptedIsBound ==
  \A c \in Clients : Linked(c) =>
    \A i \in DOMAIN down[c] :
      down[c][i].cmd = "LOGIN_RET" /\ down[c][i].code = 0 =>
        peerData[peer[c]] = down[c][i].userid

\* No room that was closed shares its block with a later one.
BlocksDistinct ==
  \A r, q \in Server!RoomIDs : r # q /\ roomMap[r] # NULL => roomMap[r] # roomMap[q]

\* Answers by which room r is opened, or closed, for a service.
Opens(m, r, service) == m.cmd = "BUILD_RET" /\ m.roomid = r /\ m.service = service
Closes(m, r, service) ==
  m.cmd = "UNBUILD_RET" /\ m.code = 0 /\ m.roomid = r /\ m.service = service

\* No answer of q after the first i closes r.
OpenAfter(q, i, r, service) == \A j \in i + 1 .. Len(q) : ~Closes(q[j], r, service)

\* The rooms of S and q once the client has handled the answers in q.
Replay(S, q, service) ==
  {r \in Server!RoomIDs :
     \/ r \in S /\ OpenAfter(q, 0, r, service)
     \/ \E i \in DOMAIN q : Opens(q[i], r, service) /\ OpenAfter(q, i, r, service)}

\* The streamer's set of rooms, brought up to date with the answers under way,
\* is the server's list of that streamer: no order of builds and closings by
\* any viewer makes a client stream into a closed room or miss an open one, as
\* long as no block of a closed room is used again (RoomMgr.cpp:188).  Rooms
\* built while the streamer was off line are the exception: the server lists
\* them and relays frames to them once the user is back, nobody tells the
\* client.
StreamerKnowsRooms ==
  \A c \in Clients :
    FirstConnection(c) /\ BlocksDistinct =>
      Replay(asServerRoom[c], Pending(c), 1) =
        IF peerData[peer[c]] = NULL THEN {}
        ELSE {r \in roomList[peerData[peer[c]]] : <<r, 1>> \notin unheard}

\* A viewer that never had two windows open, has none now and nothing under way
\* has no room left on the server: the streamer does not go on sending to it.
\* Rooms that a lost connection of the same user left behind are the exception:
\* the server keeps them, and no window will ever close them.
NoRoomWithoutWindow ==
  \A c \in Clients :
    /\ FirstConnection(c) /\ BlocksDistinct /\ ~overlapped[c]
    /\ windows[c] = 0 /\ Pending(c) = <<>> /\ up[peer[c]] = <<>>
    /\ peerData[peer[c]] # NULL
    => \A a \in Addrs :
         heap[a] # NULL /\ heap[a].client = peerData[peer[c]] =>
           <<heap[a].id, 2>> \in unheard

\* Rooms are the same to the streamer, to the viewer and to the server once
\* what is under way is counted in (PandaRC.cpp, RoomMgr.cpp).
RoomsAgree == StreamerKnowsRooms /\ NoRoomWithoutWindow

\* Whoever keeps trying gets in, although the server refuses a user whose old
\* slot has not timed out yet and the client drops connections without telling.
LoginSucceeds == \A c \in Clients : <>(bLogin[c] \/ crashed)
=============================================================================
