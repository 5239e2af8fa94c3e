--------------------------- MODULE ClientThreads ---------------------------
(***************************************************************************)
(* The threads of the client and the three locks they share:               *)
(*   oMutex       QNetThread::m_oMutex, the ENet host                      *)
(*   netMsgMutex  PandaRC::m_netMsgMutex, the list of received messages    *)
(*   pdMutex      QFrameThread::m_pdMutex, the frame lists                 *)
(* Threads: the GUI (PandaRC, GLClientViewer), the net thread, the frame   *)
(* thread, and the detector threads of the streaming handler, which run    *)
(* UpdateHandlerServer::onUpdate.  A step is what a thread does between    *)
(* two lock operations.  The locks are critical sections: recursive, so    *)
(* the sendMsg inside the connect callback needs no step of its own.       *)
(*                                                                         *)
(* Frames themselves are in module FrameQueue; here a list only matters    *)
(* for the lock operations that depend on it.                              *)
(***************************************************************************)
EXTENDS Naturals, Sequences

CONSTANTS
  CursorDetectors,  \* m_cursorPosDetector, m_curShapeDetector
  Mirror,           \* the mirror driver's polling thread
  RoomIDs,          \* ids of the rooms in which this client streams
  MaxMsgs,          \* bound: received messages not yet dispatched
  NULL              \* nobody holds the lock

GUI       == "GUI"
Net       == "Net"
Frame     == "Frame"
Detectors == CursorDetectors \cup {Mirror}
Threads   == {GUI, Net, Frame} \cup Detectors
Locks     == {"oMutex", "netMsgMutex", "pdMutex"}

ASSUME ClientThreadsAssumption ==
  /\ {GUI, Net, Frame} \cap Detectors = {}
  /\ Mirror \notin CursorDetectors
  /\ NULL \notin Threads
  /\ MaxMsgs \in Nat

\* Received messages, as far as their handling takes locks or stops threads.
Msgs == [cmd : {"BUILD_RET", "UNBUILD_RET"}, service : {1}, roomid : RoomIDs]
          \cup [cmd : {"BUILD_RET"}, service : {2}] \cup [cmd : {"FRAME_SYNC", "OTHER"}]

VARIABLES
  pc,           \* where each thread is
  owner,        \* lock -> the thread that holds it, or NULL
  msgs,         \* m_netMsgList
  asServerRoom, \* m_asServerRoomMap
  handlerSrv,   \* m_handlerSrv # NULL
  terminating,  \* detectors whose m_terminated is set
  serverList,   \* kinds of the events in m_pdServerList
  killed        \* threads ended by QThread::terminate in closeEvent

vars == <<pc, owner, msgs, asServerRoom, handlerSrv, terminating, serverList, killed>>
data == <<msgs, asServerRoom, handlerSrv, terminating, serverList, killed>>

\* "none": the detector has no thread, or its thread returned.
\* The control points, by what the thread wants or holds there.
Wants(l) ==
  CASE l = "oMutex"      -> {"connect", "sendMsg", "netRun", "sendMsgRaw"}
    [] l = "netMsgMutex" -> {"dispatchNetMsg", "onReceiveNetMsg"}
    [] l = "pdMutex"     -> {"addClientFrame", "getClientFrame", "paint", "frameRun",
                             "addServerFrame"}

Holds(l) ==
  CASE l = "oMutex"      -> {"connecting", "sending", "netUpdate", "onReceiveNetMsg",
                             "pushMsg", "sendingRaw"}
    [] l = "netMsgMutex" -> {"handling", "handled", "addClientFrame", "pushClientFrame",
                             "getClientFrame", "popClientFrame", "waitCursor",
                             "waitMirror", "pushMsg"}
    [] l = "pdMutex"     -> {"pushClientFrame", "popClientFrame", "popPaint",
                             "updateServer", "updateClient", "sendMsgRaw", "sendingRaw",
                             "pushServerFrame"}

GUIPoints == {"eventLoop", "dispatchNetMsg", "handling", "handled", "addClientFrame",
              "pushClientFrame", "getClientFrame", "popClientFrame", "waitCursor",
              "waitMirror", "paint", "popPaint", "sendMsg", "sending", "connect",
              "connecting"}
NetPoints == {"netSleep", "netRun", "netUpdate", "onReceiveNetMsg", "pushMsg"}
FramePoints == {"frameSleep", "frameRun", "updateServer", "sendMsgRaw", "sendingRaw",
                "updateClient"}
DetectorPoints == {"none", "execute", "addServerFrame", "pushServerFrame"}

-----------------------------------------------------------------------------
(* Steps of a thread.                                                      *)

Go(t, from, to) ==
  /\ pc[t] = from /\ t \notin killed
  /\ pc' = [pc EXCEPT ![t] = to]

Acquire(t, l) ==
  /\ owner[l] = NULL
  /\ owner' = [owner EXCEPT ![l] = t]

Release(l) == owner' = [owner EXCEPT ![l] = NULL]

-----------------------------------------------------------------------------
(* The GUI thread.                                                         *)

\* The event loop starts: the timer's dispatchNetMsg, a queued paintDataChanged,
\* a viewer's close (onViewerClose, UnbuildReq), the login button (onBtnLogin).
GUIEvent ==
  /\ \E next \in {"dispatchNetMsg", "paint", "sendMsg", "connect"} :
       Go(GUI, "eventLoop", next)
  /\ UNCHANGED <<owner, data>>

\* closeEvent: both threads are ended wherever they are, locks included.
GUICloseEvent ==
  /\ Go(GUI, "eventLoop", "eventLoop")
  /\ killed' = {Net, Frame}
  /\ UNCHANGED <<owner, msgs, asServerRoom, handlerSrv, terminating, serverList>>

GUILockNetMsg ==
  /\ Go(GUI, "dispatchNetMsg", "handling") /\ Acquire(GUI, "netMsgMutex")
  /\ UNCHANGED data

GUINoMsg ==
  /\ Go(GUI, "handling", "eventLoop") /\ Release("netMsgMutex")
  /\ msgs = <<>>
  /\ UNCHANGED data

\* dispatchNetMsg takes one message and handles it under m_netMsgMutex.
PopMsg(cmd) ==
  /\ msgs # <<>> /\ Head(msgs).cmd = cmd
  /\ msgs' = Tail(msgs)

\* FRAME_SYNC: no viewer, or one addClientFrame per frame.
GUIHandleFrameSync ==
  /\ PopMsg("FRAME_SYNC")
  /\ \E next \in {"handled", "addClientFrame"} : Go(GUI, "handling", next)
  /\ UNCHANGED <<owner, asServerRoom, handlerSrv, terminating, serverList, killed>>

\* BUILD_RET: the streamer starts its detectors with its first room, the viewer
\* opens a window and drains the frame list.
GUIHandleBuildRet ==
  /\ PopMsg("BUILD_RET")
  /\ \/ /\ Head(msgs).service = 1
        /\ asServerRoom' = asServerRoom \cup {Head(msgs).roomid}
        /\ handlerSrv' = TRUE
        /\ pc[GUI] = "handling"
        /\ pc' = [t \in Threads |-> IF t = GUI THEN "handled"
                                    ELSE IF t \in Detectors /\ ~handlerSrv THEN "execute"
                                    ELSE pc[t]]
     \/ /\ Head(msgs).service = 2
        /\ Go(GUI, "handling", "getClientFrame")
        /\ UNCHANGED <<asServerRoom, handlerSrv>>
  /\ UNCHANGED <<owner, terminating, serverList, killed>>

\* UNBUILD_RET to the streamer: the last room to go deletes the handler.
GUIHandleUnbuildRet ==
  /\ PopMsg("UNBUILD_RET")
  /\ asServerRoom' = asServerRoom \ {Head(msgs).roomid}
  /\ \/ /\ asServerRoom' = {} /\ handlerSrv
        /\ Go(GUI, "handling", "waitCursor")
        /\ terminating' = CursorDetectors
     \/ /\ asServerRoom' # {} \/ ~handlerSrv
        /\ Go(GUI, "handling", "handled")
        /\ UNCHANGED terminating
  /\ UNCHANGED <<owner, handlerSrv, serverList, killed>>

\* Mutant: a message is answered from within its handler.
GUIHandleOtherMutant ==
  /\ PopMsg("OTHER")
  /\ Go(GUI, "handling", "sendMsg")
  /\ UNCHANGED <<owner, asServerRoom, handlerSrv, terminating, serverList, killed>>

\* LOGIN_RET, UNBUILD_RET to the viewer, refusals: no lock is taken.
GUIHandleOther ==
  /\ PopMsg("OTHER")
  /\ Go(GUI, "handling", "handled")
  /\ UNCHANGED <<owner, asServerRoom, handlerSrv, terminating, serverList, killed>>

GUIUnlockNetMsg ==
  /\ Go(GUI, "handled", "eventLoop") /\ Release("netMsgMutex")
  /\ UNCHANGED data

\* addClientFrame, once per frame of the packet.
GUIAddClientFrame ==
  /\ Go(GUI, "addClientFrame", "pushClientFrame") /\ Acquire(GUI, "pdMutex")
  /\ UNCHANGED data

GUIPushClientFrame ==
  /\ \E next \in {"addClientFrame", "handled"} : Go(GUI, "pushClientFrame", next)
  /\ Release("pdMutex")
  /\ UNCHANGED data

\* onPaintDataChanged called by onBuildRet: getClientFrame until it returns NULL.
GUIGetClientFrame ==
  /\ Go(GUI, "getClientFrame", "popClientFrame") /\ Acquire(GUI, "pdMutex")
  /\ UNCHANGED data

GUIPopClientFrame ==
  /\ \E next \in {"getClientFrame", "handled"} : Go(GUI, "popClientFrame", next)
  /\ Release("pdMutex")
  /\ UNCHANGED data

\* The same slot run from the event loop.
GUIPaint ==
  /\ Go(GUI, "paint", "popPaint") /\ Acquire(GUI, "pdMutex")
  /\ UNCHANGED data

GUIPopPaint ==
  /\ \E next \in {"paint", "eventLoop"} : Go(GUI, "popPaint", next)
  /\ Release("pdMutex")
  /\ UNCHANGED data

\* Mutant: the detectors are told to end but not joined.
GUIWaitCursorMutant ==
  /\ Go(GUI, "waitCursor", "waitMirror")
  /\ terminating' = Detectors
  /\ UNCHANGED <<owner, msgs, asServerRoom, handlerSrv, serverList, killed>>

\* Mutant: the mirror driver's thread is not told to end before it is joined.
GUIWaitCursorUntold ==
  /\ \A d \in CursorDetectors : pc[d] = "none"
  /\ Go(GUI, "waitCursor", "waitMirror")
  /\ UNCHANGED <<owner, data>>

\* terminateDetection joins the cursor detectors, then stops and joins the
\* mirror driver's thread.
GUIWaitCursor ==
  /\ \A d \in CursorDetectors : pc[d] = "none"
  /\ Go(GUI, "waitCursor", "waitMirror")
  /\ terminating' = Detectors
  /\ UNCHANGED <<owner, msgs, asServerRoom, handlerSrv, serverList, killed>>

\* The mirror thread is joined, the handler and its threads are destroyed.
GUIDeleteHandler ==
  /\ pc[Mirror] = "none"
  /\ Go(GUI, "waitMirror", "handled")
  /\ handlerSrv' = FALSE
  /\ terminating' = {}
  /\ UNCHANGED <<owner, msgs, asServerRoom, serverList, killed>>

GUISendMsg ==
  /\ Go(GUI, "sendMsg", "sending") /\ Acquire(GUI, "oMutex")
  /\ UNCHANGED data

GUISent ==
  /\ Go(GUI, "sending", "eventLoop") /\ Release("oMutex")
  /\ UNCHANGED data

\* QNetThread::connect waits for ENet, at most five seconds, under m_oMutex.
GUIConnect ==
  /\ Go(GUI, "connect", "connecting") /\ Acquire(GUI, "oMutex")
  /\ UNCHANGED data

GUIConnected ==
  /\ Go(GUI, "connecting", "eventLoop") /\ Release("oMutex")
  /\ UNCHANGED data

-----------------------------------------------------------------------------
(* The net thread: QNetThread::run.                                        *)

NetWake ==
  /\ Go(Net, "netSleep", "netRun")
  /\ UNCHANGED <<owner, data>>

NetLock ==
  /\ Go(Net, "netRun", "netUpdate") /\ Acquire(Net, "oMutex")
  /\ UNCHANGED data

\* ENet delivers a packet: OnReceive calls PandaRC::onReceiveNetMsg.
NetReceive ==
  /\ Len(msgs) < MaxMsgs
  /\ Go(Net, "netUpdate", "onReceiveNetMsg")
  /\ UNCHANGED <<owner, data>>

NetLockNetMsg ==
  /\ Go(Net, "onReceiveNetMsg", "pushMsg") /\ Acquire(Net, "netMsgMutex")
  /\ UNCHANGED data

NetPushMsg ==
  /\ Go(Net, "pushMsg", "netUpdate") /\ Release("netMsgMutex")
  /\ \E m \in Msgs : msgs' = Append(msgs, m)
  /\ UNCHANGED <<asServerRoom, handlerSrv, terminating, serverList, killed>>

NetUnlock ==
  /\ Go(Net, "netUpdate", "netSleep") /\ Release("oMutex")
  /\ UNCHANGED data

-----------------------------------------------------------------------------
(* The frame thread: QFrameThread::run, updateServer and updateClient under *)
(* m_pdMutex.                                                              *)

FrameWake ==
  /\ Go(Frame, "frameSleep", "frameRun")
  /\ UNCHANGED <<owner, data>>

FrameLock ==
  /\ Go(Frame, "frameRun", "updateServer") /\ Acquire(Frame, "pdMutex")
  /\ UNCHANGED data

\* The list is emptied.  A packet is sent if it has a frame: cursor events and
\* frames that do not compress are left out.
FrameUpdateServer ==
  /\ \/ "eFRAME" \in serverList /\ Go(Frame, "updateServer", "sendMsgRaw")
     \/ Go(Frame, "updateServer", "updateClient")
  /\ serverList' = {}
  /\ UNCHANGED <<owner, msgs, asServerRoom, handlerSrv, terminating, killed>>

\* Mutant: the packet is sent as the GUI sends its messages.
FrameSendMsgRawMutant ==
  /\ Go(Frame, "sendMsgRaw", "sending") /\ Acquire(Frame, "oMutex")
  /\ UNCHANGED data

FrameSendMsgRaw ==
  /\ Go(Frame, "sendMsgRaw", "sendingRaw") /\ Acquire(Frame, "oMutex")
  /\ UNCHANGED data

FrameSent ==
  /\ Go(Frame, "sendingRaw", "updateClient") /\ Release("oMutex")
  /\ UNCHANGED data

FrameUnlock ==
  /\ Go(Frame, "updateClient", "frameSleep") /\ Release("pdMutex")
  /\ UNCHANGED data

-----------------------------------------------------------------------------
(* A detector thread: execute, and UpdateHandlerServer::onUpdate when it    *)
(* finds a change.                                                         *)

DetectorUpdate(d) ==
  /\ d \notin terminating
  /\ Go(d, "execute", "addServerFrame")
  /\ UNCHANGED <<owner, data>>

DetectorLock(d) ==
  /\ Go(d, "addServerFrame", "pushServerFrame") /\ Acquire(d, "pdMutex")
  /\ UNCHANGED data

\* One addServerFrame per rectangle and one for the cursor.
DetectorPush(d, next) ==
  /\ Go(d, "pushServerFrame", next)
  /\ Release("pdMutex")
  /\ \E kind \in {"eFRAME", "eCURSOR"} : serverList' = serverList \cup {kind}
  /\ UNCHANGED <<msgs, asServerRoom, handlerSrv, terminating, killed>>

DetectorEnd(d) ==
  /\ d \in terminating
  /\ Go(d, "execute", "none")
  /\ UNCHANGED <<owner, data>>

-----------------------------------------------------------------------------
Init ==
  /\ pc = [t \in Threads |-> IF t = GUI THEN "eventLoop"
                             ELSE IF t = Net THEN "netSleep"
                             ELSE IF t = Frame THEN "frameSleep" ELSE "none"]
  /\ owner = [l \in Locks |-> NULL]
  /\ msgs = <<>>
  /\ asServerRoom = {}
  /\ handlerSrv = FALSE
  /\ terminating = {}
  /\ serverList = {}
  /\ killed = {}

GUIStep ==
  \/ GUIEvent \/ GUICloseEvent
  \/ GUILockNetMsg \/ GUINoMsg \/ GUIUnlockNetMsg
  \/ GUIHandleFrameSync \/ GUIHandleBuildRet \/ GUIHandleUnbuildRet \/ GUIHandleOther
  \/ GUIAddClientFrame \/ GUIPushClientFrame
  \/ GUIGetClientFrame \/ GUIPopClientFrame
  \/ GUIPaint \/ GUIPopPaint
  \/ GUIWaitCursor \/ GUIDeleteHandler
  \/ GUISendMsg \/ GUISent
  \/ GUIConnect \/ GUIConnected

NetStep ==
  NetWake \/ NetLock \/ NetReceive \/ NetLockNetMsg \/ NetPushMsg \/ NetUnlock

FrameStep ==
  \/ FrameWake \/ FrameLock \/ FrameUpdateServer \/ FrameSendMsgRaw
  \/ FrameSent \/ FrameUnlock

DetectorStep(d) ==
  \/ DetectorUpdate(d) \/ DetectorLock(d) \/ DetectorEnd(d)
  \/ DetectorPush(d, "addServerFrame") \/ DetectorPush(d, "execute")

Next == GUIStep \/ NetStep \/ FrameStep \/ \E d \in Detectors : DetectorStep(d)

Spec == Init /\ [][Next]_vars

-----------------------------------------------------------------------------
(* Properties.                                                             *)

\* Every variable has its type.
TypeOK ==
  /\ pc \in [Threads -> GUIPoints \cup NetPoints \cup FramePoints \cup DetectorPoints]
  /\ pc[GUI] \in GUIPoints /\ pc[Net] \in NetPoints /\ pc[Frame] \in FramePoints
  /\ \A d \in Detectors : pc[d] \in DetectorPoints
  /\ owner \in [Locks -> Threads \cup {NULL}]
  /\ msgs \in Seq(Msgs)
  /\ asServerRoom \subseteq RoomIDs
  /\ handlerSrv \in BOOLEAN
  /\ terminating \subseteq Detectors
  /\ serverList \subseteq {"eFRAME", "eCURSOR"}
  /\ killed \subseteq {Net, Frame}

\* The threads whose progress t waits for: the holder of the lock it wants, or
\* the detectors it joins.
WaitsFor(t) ==
  (UNION {{owner[l]} \ {NULL} : l \in {k \in Locks : pc[t] \in Wants(k)}})
    \cup {d \in CursorDetectors : pc[t] = "waitCursor" /\ pc[d] # "none"}
    \cup {d \in {Mirror} : pc[t] = "waitMirror" /\ pc[d] # "none"}

\* Threads that wait only for each other: none of them ever runs again.
Deadlock(S) == S # {} /\ \A t \in S : WaitsFor(t) \cap S # {}

\* The net thread delivers a message while the frame thread sends and the GUI,
\* handling a message, wants the frame lists or joins a detector that wants them.
LockCycle ==
  /\ pc[Net] = "onReceiveNetMsg"
  /\ pc[Frame] = "sendMsgRaw"
  /\ \/ pc[GUI] \in {"addClientFrame", "getClientFrame"}
     \/ pc[GUI] = "waitCursor" /\ \E d \in CursorDetectors : pc[d] = "addServerFrame"
     \/ pc[GUI] = "waitMirror" /\ pc[Mirror] = "addServerFrame"

\* The locks are taken in three different orders (net: oMutex, netMsgMutex; GUI:
\* netMsgMutex, pdMutex; frame: pdMutex, oMutex), and the GUI joins detectors
\* under netMsgMutex.  The lock cycle is the only way to deadlock: no two of the
\* threads, with or without detectors, can block each other for ever.
DeadlockIsLockCycle == \A S \in SUBSET Threads : Deadlock(S) => LockCycle

\* A killed thread still holds a lock.
Orphaned == \E l \in Locks : owner[l] \in killed

\* When the handler is gone no detector thread is left to call onUpdate on it:
\* terminateDetection has joined them all, whichever locks they wanted meanwhile.
NoDetectorWithoutHandler ==
  ~handlerSrv => \A d \in Detectors : pc[d] = "none"

\* The GUI is back in its event loop again and again: apart from the lock
\* cycle and from a lock orphaned by closeEvent nothing keeps it away for ever.
GUIReturns ==
  pc[GUI] # "eventLoop" ~>
    \/ pc[GUI] = "eventLoop"
    \/ LockCycle
    \/ Orphaned

\* A thread that is not waiting goes on.  The other threads sleep between two
\* uses of a lock (1 ms in QNetThread::run, up to 200 ms in QFrameThread::run,
\* 10 ms and more in the detectors), so a waiting thread gets it at some time.
\* Packets hold finitely many frames, updates finitely many rectangles.
GUIGoesOn ==
  \/ GUILockNetMsg \/ GUINoMsg \/ GUIUnlockNetMsg
  \/ GUIHandleFrameSync \/ GUIHandleBuildRet \/ GUIHandleUnbuildRet \/ GUIHandleOther
  \/ GUIAddClientFrame \/ GUIGetClientFrame \/ GUIPaint
  \/ GUIWaitCursor \/ GUIDeleteHandler
  \/ GUISendMsg \/ GUISent \/ GUIConnect \/ GUIConnected

GUILastFrame ==
  /\ GUIPushClientFrame \/ GUIPopClientFrame \/ GUIPopPaint
  /\ pc'[GUI] \in {"handled", "eventLoop"}

Fairness ==
  /\ SF_vars(GUIGoesOn)
  /\ SF_vars(GUILastFrame)
  /\ SF_vars(NetWake \/ NetLock \/ NetLockNetMsg \/ NetPushMsg)
  /\ SF_vars(NetUnlock)
  /\ SF_vars(FrameStep)
  /\ \A d \in Detectors :
       /\ SF_vars(DetectorLock(d) \/ DetectorEnd(d))
       /\ SF_vars(DetectorPush(d, "execute"))

FairSpec == Spec /\ Fairness

=============================================================================
