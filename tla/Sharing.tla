------------------------------ MODULE Sharing ------------------------------
(***************************************************************************)
(* A shared screen from the sharing client's list of frames to the viewing *)
(* clients' windows: the handler that comes and goes with the rooms, the   *)
(* frame thread, the relay and the windows.  RoomMgr, Session and          *)
(* FrameQueue have each part in detail; here are the pictures, and what    *)
(* joining and leaving do to them.                                         *)
(*                                                                         *)
(* Commands go over channel 0 of a connection and FRAME_SYNC over channel  *)
(* 1.  Each channel is reliable and ordered; nothing orders the two.  The  *)
(* screen is a row of tiles.  A frame is an interval of tiles; what it     *)
(* shows of a tile is told by its number among the frames queued of that   *)
(* tile.  Which of two frames was copied from the screen first is another  *)
(* question, and not always the same: the detectors of UpdatePipeline copy *)
(* and queue one beside the other.                                         *)
(***************************************************************************)
EXTENDS Naturals, Sequences, SequencesExt

CONSTANTS
  Viewers,   \* viewing clients
  Width,     \* tiles of the screen
  MaxVer,    \* bound: frames queued of a tile
  MaxJoins   \* bound: times a room is opened, by all the viewers together

ASSUME SharingAssumption ==
  /\ Width \in Nat \ {0} /\ MaxVer \in Nat \ {0} /\ MaxJoins \in Nat

Tiles == 1..Width

VARIABLES
  sent,        \* tile -> frames of it queued so far
  handler,     \* m_handlerSrv exists
  serverRoom,  \* m_asServerRoomMap, a room known by its viewer
  serverList,  \* m_pdServerList: frames
  up,          \* packets from the sharing client to the relay
  control,     \* BUILD_RET and UNBUILD_RET under way to the sharing client
  room,        \* the relay: viewers with a room
  joins,       \* times a room was opened
  built,       \* viewers with a BUILD_RET under way to them
  closing,     \* viewers with an UNBUILD_REQ under way from them
  down,        \* viewer -> packets under way to it
  window,      \* viewers with a window in m_clientViewerMap
  clientList,  \* viewer -> frames to draw
  pixmap,      \* viewer -> tiles its m_pixmap is wide; 0: there is none
  picture,     \* viewer -> tile -> number of the frame drawn last; 0: none
  reached,     \* history: viewer -> tile -> number of the newest frame that
               \* came for the present window; 0: none
  lost         \* history: viewer -> tile -> number of the newest frame that
               \* was not sent on to it, or dropped by it

sharer == <<sent, handler, serverRoom, serverList>>
relay  == <<up, control, room>>
link   == <<joins, built, closing, down>>
viewer == <<window, clientList, pixmap, picture, reached, lost>>
vars   == <<sharer, relay, link, viewer>>

Blank == [t \in Tiles |-> 0]

\* A frame shows a tile.
Covers(f, t) == t \in f.left..f.right

\* The newest number of each tile, with those of a packet.
Over(old, packet) ==
  [t \in Tiles |->
     Max({old[t]} \cup {f.ver[t] : f \in {g \in ToSet(packet) : Covers(g, t)}})]

Init ==
  /\ sent = Blank /\ handler = FALSE
  /\ serverRoom = {} /\ serverList = <<>>
  /\ up = <<>> /\ control = <<>> /\ room = {}
  /\ joins = 0 /\ built = {} /\ closing = {}
  /\ down = [v \in Viewers |-> <<>>]
  /\ window = {} /\ clientList = [v \in Viewers |-> <<>>]
  /\ pixmap = [v \in Viewers |-> 0]
  /\ picture = [v \in Viewers |-> Blank]
  /\ reached = picture /\ lost = picture

-----------------------------------------------------------------------------
(* The sharing client.                                                     *)

\* The next frame of an area: copied from the frame buffer.
Frame(first, last) ==
  [left |-> first, right |-> last, ver |-> [t \in first..last |-> sent[t] + 1]]

\* A detector queues a frame, one rectangle of its update (onUpdate,
\* addServerFrame).  While the handler exists any of its three threads may be
\* doing so, with any rectangle; deleting it joins them.
AddServerFrame(first, last) ==
  /\ handler /\ first <= last
  /\ \A t \in first..last : sent[t] < MaxVer
  /\ serverList' = Append(serverList, Frame(first, last))
  /\ sent' = [t \in Tiles |-> IF t \in first..last THEN sent[t] + 1 ELSE sent[t]]
  /\ UNCHANGED <<handler, serverRoom, relay, link, viewer>>

\* Mutant: the packet has the frames in the reverse order.
PackedMutant(list) == Reverse(list)

\* combindFrame and setBuffer for each frame in turn.
Packed(list) == list

\* updateServer, on the timer of the frame thread.
UpdateServer ==
  /\ serverList # <<>>
  /\ up' = Append(up, Packed(serverList))
  /\ serverList' = <<>>
  /\ UNCHANGED <<sent, handler, serverRoom, control, room, link, viewer>>

\* onBuildRet for the sharing side: the first room brings the handler.
OnBuildRetServer ==
  /\ control # <<>> /\ Head(control).cmd = "BUILD_RET"
  /\ control' = Tail(control)
  /\ serverRoom' = serverRoom \cup {Head(control).viewer}
  /\ handler' = TRUE
  /\ UNCHANGED <<sent, serverList, up, room, link, viewer>>

\* Mutant: all rooms go.
RoomsLeftMutant(v) == {}

RoomsLeft(v) == serverRoom \ {v}

\* onUnbuildRet: with its last room the handler goes, and its detectors.
OnUnbuildRetServer ==
  /\ control # <<>> /\ Head(control).cmd = "UNBUILD_RET"
  /\ control' = Tail(control)
  /\ serverRoom' = RoomsLeft(Head(control).viewer)
  /\ handler' = (handler /\ serverRoom' # {})
  /\ UNCHANGED <<sent, serverList, up, room, link, viewer>>

-----------------------------------------------------------------------------
(* The relay.                                                              *)

\* FRAME_SYNC goes to the client of each of the sharing user's rooms.
FrameSync ==
  /\ up # <<>> /\ up' = Tail(up)
  /\ down' = [v \in Viewers |->
                IF v \in room THEN Append(down[v], Head(up)) ELSE down[v]]
  /\ lost' = [v \in Viewers |->
                IF v \in room THEN lost[v] ELSE Over(lost[v], Head(up))]
  /\ UNCHANGED <<sharer, control, room, joins, built, closing, window,
                 clientList, pixmap, picture, reached>>

\* BUILD_REQ of a viewer: a room, and BUILD_RET to both sides.
BuildReq(v) ==
  /\ v \notin room \cup window \cup closing /\ joins < MaxJoins
  /\ joins' = joins + 1
  /\ room' = room \cup {v}
  /\ control' = Append(control, [cmd |-> "BUILD_RET", viewer |-> v])
  /\ built' = built \cup {v}
  /\ UNCHANGED <<sharer, up, closing, down, viewer>>

UnbuildReq(v) ==
  /\ v \in closing /\ closing' = closing \ {v}
  /\ room' = room \ {v}
  /\ control' = Append(control, [cmd |-> "UNBUILD_RET", viewer |-> v])
  /\ UNCHANGED <<sharer, up, joins, built, down, viewer>>

-----------------------------------------------------------------------------
(* A viewing client.                                                       *)

\* onBuildRet for the viewing side: a new window, with no picture yet.
OnBuildRetClient(v) ==
  /\ v \in built /\ built' = built \ {v}
  /\ window' = window \cup {v}
  /\ pixmap' = [pixmap EXCEPT ![v] = 0]
  /\ picture' = [picture EXCEPT ![v] = Blank]
  /\ reached' = [reached EXCEPT ![v] = Blank]
  /\ UNCHANGED <<sharer, relay, joins, closing, down, clientList, lost>>

\* Mutants: the frames of a packet go before those that wait, or its last one
\* is left out.
UnpackedMutant(list, packet) == packet \o list
UnpackedShortMutant(list, packet) == list \o Front(packet)

Unpacked(list, packet) == list \o packet

\* onFrameSync: without a window the packet is dropped.
OnFrameSync(v) ==
  /\ down[v] # <<>>
  /\ down' = [down EXCEPT ![v] = Tail(@)]
  /\ LET packet == Head(down[v]) IN
       IF v \in window
       THEN /\ clientList' = [clientList EXCEPT ![v] = Unpacked(@, packet)]
            /\ reached' = [reached EXCEPT ![v] = Over(@, packet)]
            /\ UNCHANGED lost
       ELSE /\ lost' = [lost EXCEPT ![v] = Over(@, packet)]
            /\ UNCHANGED <<clientList, reached>>
  /\ UNCHANGED <<sharer, relay, joins, built, closing, window, pixmap, picture>>

\* onPaintDataChanged.  The first frame drawn gives m_pixmap its size, for
\* good; what lies outside is not drawn.
DrawFrame(v) ==
  /\ v \in window /\ clientList[v] # <<>>
  /\ clientList' = [clientList EXCEPT ![v] = Tail(@)]
  /\ LET f == Head(clientList[v]) IN
       /\ pixmap' = [pixmap EXCEPT ![v] =
                       IF @ = 0 THEN f.right - f.left + 1 ELSE @]
       /\ picture' = [picture EXCEPT ![v] = [t \in Tiles |->
                        IF Covers(f, t) /\ t <= pixmap'[v]
                        THEN f.ver[t] ELSE picture[v][t]]]
  /\ UNCHANGED <<sharer, relay, link, window, reached, lost>>

\* onViewerClose.
ViewerClose(v) ==
  /\ v \in window /\ window' = window \ {v}
  /\ closing' = closing \cup {v}
  /\ UNCHANGED <<sharer, relay, joins, built, down, clientList, pixmap, picture,
                 reached, lost>>

-----------------------------------------------------------------------------
Deliver ==
  \/ UpdateServer \/ OnBuildRetServer \/ OnUnbuildRetServer \/ FrameSync
  \/ \E v \in Viewers :
       UnbuildReq(v) \/ OnBuildRetClient(v) \/ OnFrameSync(v) \/ DrawFrame(v)

Next ==
  \/ \E first, last \in Tiles : AddServerFrame(first, last)
  \/ \E v \in Viewers : BuildReq(v) \/ ViewerClose(v)
  \/ Deliver

Spec == Init /\ [][Next]_vars

-----------------------------------------------------------------------------
Frames ==
  UNION {[left : {i[1]}, right : {i[2]}, ver : [i[1]..i[2] -> 1..MaxVer]] :
           i \in {j \in Tiles \X Tiles : j[1] <= j[2]}}

\* Its numbers are ones that have been given.
FrameOK(f) == \A t \in Tiles : Covers(f, t) => f.ver[t] <= sent[t]

\* The frames of a series of packets.
InPackets(q) == UNION {ToSet(q[i]) : i \in DOMAIN q}

\* The frames under way to viewer v, and those that came.
OnWay(v) == ToSet(serverList) \cup InPackets(up) \cup InPackets(down[v])
Arrived(v) == ToSet(clientList[v])

Pictures == [Viewers -> [Tiles -> 0..MaxVer]]

\* Every frame has numbers that have been given.
TypeOK ==
  /\ sent \in [Tiles -> 0..MaxVer] /\ handler \in BOOLEAN
  /\ serverList \in Seq(Frames) /\ up \in Seq(Seq(Frames))
  /\ down \in [Viewers -> Seq(Seq(Frames))]
  /\ clientList \in [Viewers -> Seq(Frames)]
  /\ \A v \in Viewers : \A f \in OnWay(v) \cup Arrived(v) : FrameOK(f)
  /\ control \in Seq([cmd : {"BUILD_RET", "UNBUILD_RET"}, viewer : Viewers])
  /\ \A S \in {serverRoom, room, built, closing, window} : S \subseteq Viewers
  /\ joins \in 0..MaxJoins
  /\ pixmap \in [Viewers -> 0..Width]
  /\ picture \in Pictures /\ reached \in Pictures /\ lost \in Pictures

\* A window never goes back to a frame of a tile that was queued before the
\* one it shows, through two lists of frames, packets, the relay and leftovers
\* of an earlier window.
NeverBack ==
  [][\A v \in window \cap window' : \A t \in Tiles :
       picture'[v][t] >= picture[v][t]]_vars

\* Nothing is under way between the sharing client's list and the viewer.
Quiet(v) == /\ serverList = <<>> /\ up = <<>>
            /\ down[v] = <<>> /\ clientList[v] = <<>>

\* The window has room for the tile and misses no later frame of it.
Shows(v, t) ==
  t <= pixmap[v] /\ reached[v][t] # 0 /\ reached[v][t] >= lost[v][t]

\* When nothing is under way, a window that got the last frame of a tile, and
\* has room for it, shows the frame that was queued last, whoever joined or
\* left meanwhile and made the handler go and come back.
InStep ==
  \A v \in window : Quiet(v) =>
    \A t \in Tiles : Shows(v, t) => picture[v][t] = sent[t]

\* When the sharing client has heard all the relay told it, it knows the rooms
\* and has a handler exactly if there is one: a room that closes while another
\* opens does not take the other's handler with it.
HandlerForRooms ==
  control = <<>> => serverRoom = room /\ (handler <=> room # {})

\* A frame of a tile, or one queued after it, is shown in every window that
\* has room for it and misses no frame of it, or that window is closed.
FrameIsShown ==
  \A v \in Viewers, t \in Tiles, k \in 1..MaxVer :
    (v \in window /\ Shows(v, t) /\ sent[t] >= k)
      ~> (picture[v][t] >= k \/ v \notin window \/ ~Shows(v, t))
=============================================================================
