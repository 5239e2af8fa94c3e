------------------------------- MODULE MCLive -------------------------------
(***************************************************************************)
(* What must happen in the end, on instances small enough for TLC to look  *)
(* for every behaviour without an end: a login, a picture shared, a paint  *)
(* detected, packets of ENet and messages of a mail box.  They share no    *)
(* state; a behaviour is one of the instance that `subject' names, with    *)
(* the others as they were made.                                           *)
(***************************************************************************)
EXTENDS Sharing

CONSTANTS Clients, Users, Peers, Addrs, Streamer, Painted, Cursors, Mirror, Channels,
          Senders, None

VARIABLES
  subject,
  userMap, userPeer, roomList, roomMap, heap, autoRoomID, slot, peerData,  \* Session
  crashed, connection, requests, peer, isConnected, answers, netMsgList,
  bLogin, userID, asServerRoom, asClientRoom, viewerRoom, windows, connects,
  overlapped, unheard, loginsSent,
  mapped, painted, ring, counter, lastCounter, keeper, flag, absoluteRect, \* UpdatePipeline
  stage, fb, pc, upd, moved, at, frame, told, last, best, shared, alone,
  queued, outgoing, sentCommands, started, reliableWindows, wire, acks,    \* EnetChannel
  incoming, held, delivered,
  m_oMsgList, bytes, owes, failed, recv, received, messages                \* MailBox

Login == INSTANCE Session WITH
  NULL <- None, MaxRoomID <- 2, BuildLimit <- 0, MaxQueue <- 2, MaxWindows <- 0,
  MaxLogins <- 3, link <- connection, up <- requests, down <- answers,
  viewer <- viewerRoom, sent <- loginsSent

Pipeline == INSTANCE UpdatePipeline WITH
  Areas <- Painted, WindowMoves <- {}, RingSize <- 2, MaxPaint <- 2,
  screen <- painted, absolute <- absoluteRect

\* A packet of two fragments and one of one.
FewPackets == [c \in Channels |-> <<2, 3>>]

Pipe == INSTANCE EnetChannel WITH
  Ends <- FewPackets,
  Windows <- 6, WindowSize <- 2, Free <- 3, Lifetime <- 8, MaxOut <- 2

Box == INSTANCE MailBox WITH
  MaxMsgs <- 3, SockSize <- 2, Linux <- FALSE, Timed <- FALSE, sent <- messages

loginVars ==
  <<userMap, userPeer, roomList, roomMap, heap, autoRoomID, slot, peerData,
    crashed, connection, requests, peer, isConnected, answers, netMsgList,
    bLogin, userID, asServerRoom, asClientRoom, viewerRoom, windows, connects,
    overlapped, unheard, loginsSent>>
pipelineVars ==
  <<mapped, painted, ring, counter, lastCounter, keeper, flag, absoluteRect, stage,
    fb, pc, upd, moved, at, frame, told, last, best, shared, alone>>
channelVars ==
  <<queued, outgoing, sentCommands, started, reliableWindows, wire, acks,
    incoming, held, delivered>>
boxVars  == <<m_oMsgList, bytes, owes, failed, recv, received, messages>>
liveVars == <<subject, vars, loginVars, pipelineVars, channelVars, boxVars>>

LiveInit ==
  /\ subject \in {"sharing", "login", "pipeline", "channel", "box"}
  /\ Init /\ Login!Init /\ Pipeline!Init /\ Pipe!ChannelInit /\ Box!MailInit
  /\ mapped

LiveNext ==
  /\ UNCHANGED subject
  /\ \/ /\ subject = "sharing" /\ Next
        /\ UNCHANGED <<loginVars, pipelineVars, channelVars, boxVars>>
     \/ /\ subject = "login" /\ Login!Next
        /\ UNCHANGED <<vars, pipelineVars, channelVars, boxVars>>
     \/ /\ subject = "pipeline" /\ Pipeline!Next
        /\ UNCHANGED <<vars, loginVars, channelVars, boxVars>>
     \/ /\ subject = "channel" /\ (Pipe!ChannelNext \/ Pipe!Lose)
        /\ UNCHANGED <<vars, loginVars, pipelineVars, boxVars>>
     \/ /\ subject = "box" /\ Box!MailNext
        /\ UNCHANGED <<vars, loginVars, pipelineVars, channelVars>>

\* Timers run, packets arrive and windows are drawn.  No detector need queue
\* a frame, nor anybody join or leave.
SharingFairness ==
  /\ WF_vars(subject = "sharing" /\ UpdateServer)
  /\ WF_vars(subject = "sharing" /\ FrameSync)
  /\ WF_vars(subject = "sharing" /\ (OnBuildRetServer \/ OnUnbuildRetServer))
  /\ \A v \in Viewers :
       /\ WF_vars(subject = "sharing" /\ UnbuildReq(v))
       /\ WF_vars(subject = "sharing" /\ OnBuildRetClient(v))
       /\ WF_vars(subject = "sharing" /\ OnFrameSync(v))
       /\ WF_vars(subject = "sharing" /\ DrawFrame(v))

\* The button pressed again before the answer to the last login is handled.
Impatient(c) ==
  /\ Login!Linked(c) /\ (requests[peer[c]] # <<>> \/ Login!Pending(c) # <<>>)
  /\ \E u \in Users : Login!OnBtnLogin(c, u) \/ Login!OnBtnLoginFail(c, u)

\* A time-out on a connection that both sides still have.
Broken(c) ==
  Login!Linked(c) /\ (Login!OnClientDisconnect(c) \/ Login!OnServerDisconnect(peer[c]))

\* The user tries again and again, after a while only when the last try has been
\* answered, and after a while the network holds; ENet's time-outs end every
\* connection that only one side has; what is queued is sent, received, handled.
LoginFairness ==
  /\ <>[][~ (subject = "login" /\ \E c \in Clients : Impatient(c) \/ Broken(c))]_loginVars
  /\ \A c \in Clients :
       /\ \A u \in Users :
            /\ SF_loginVars(subject = "login" /\ Login!OnBtnLogin(c, u))
            /\ WF_loginVars(subject = "login" /\ (\/ Login!OnBtnLogin(c, u)
                                                  \/ Login!OnBtnLoginFail(c, u)))
       /\ WF_loginVars(subject = "login" /\ Login!OnReceive(c))
       /\ WF_loginVars(subject = "login" /\ Login!DispatchNetMsg(c))
  /\ \A p \in Peers :
       /\ WF_loginVars(subject = "login" /\ Login!OnServerReceive(p))
       /\ WF_loginVars(/\ subject = "login" /\ Login!OnServerDisconnect(p)
                       /\ ~ \E c \in Clients : peer[c] = p /\ connection[p] = c)

\* While the client is up the constructor goes on, each thread the system
\* started is scheduled, and the mirror detector wakes every 200 milliseconds.
\* The cursor detectors report when the cursor changes, and it need not.
PipelineFairness ==
  /\ WF_pipelineVars(subject = "pipeline" /\ Pipeline!Alive /\ Pipeline!Construct)
  /\ WF_pipelineVars(subject = "pipeline" /\ Pipeline!Alive /\ Pipeline!FollowRing)
  /\ \A t \in Cursors \cup {Mirror} :
       WF_pipelineVars(subject = "pipeline" /\ Pipeline!Alive /\ Pipeline!Update(t))

SomeTimeout == \E m \in ToSet(sentCommands) : Pipe!Timeout({m})

\* ENet's sender sends and times out; after a while the network loses no more.
ChannelFairness ==
  /\ <>[][~ (subject = "channel" /\ Pipe!Lose)]_channelVars
  /\ WF_channelVars(subject = "channel" /\ Pipe!Transmit)
  /\ WF_channelVars(subject = "channel" /\ SomeTimeout)
  /\ WF_channelVars(subject = "channel" /\ \E m \in wire : Pipe!Receive(m))
  /\ WF_channelVars(subject = "channel" /\ \E m \in acks : Pipe!GotAck(m))

\* A sender that has queued a message sends its byte; the receiver calls Recv
\* again and again.
BoxFairness ==
  /\ \A s \in Senders : WF_boxVars(subject = "box" /\ Box!Notify(s))
  /\ WF_boxVars(subject = "box" /\ Box!Call)
  /\ WF_boxVars(subject = "box" /\ Box!Recv)

LiveSpec ==
  /\ LiveInit /\ [][LiveNext]_liveVars
  /\ SharingFairness /\ LoginFairness /\ PipelineFairness
  /\ ChannelFairness /\ BoxFairness

-----------------------------------------------------------------------------
\* The properties of the instances, by their names in the modules.
LoginSucceeds   == subject = "login" => Login!LoginSucceeds
PaintIsSent     == subject = "pipeline" => Pipeline!PaintIsSent

\* A packet is delivered and acknowledged however often it is lost, and a
\* message in the mail box is received (protocol.c, MailBox.h).
NetworkDelivers == Pipe!PacketDelivered /\ Pipe!AllAcknowledged /\ Box!Delivered
=============================================================================
