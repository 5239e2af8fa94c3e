----------------------- MODULE ClientThreadsProofs -----------------------
(***************************************************************************)
(* Proofs about the threads of the client, for any set of detectors, any   *)
(* rooms and any bound on the received messages.                           *)
(*                                                                         *)
(* The invariant: a thread owns exactly the locks its control point holds  *)
(* (Ownership), and while the handler's threads are joined the handler     *)
(* exists and the cursor detectors, once joined, stay ended (Joining).     *)
(***************************************************************************)
EXTENDS ClientThreads, TLAPS

PointsOf(t) ==
  IF t = GUI THEN GUIPoints ELSE IF t = Net THEN NetPoints
  ELSE IF t = Frame THEN FramePoints ELSE DetectorPoints

PcType   == /\ DOMAIN pc = Threads /\ pc = [t \in Threads |-> pc[t]]
            /\ \A t \in Threads : pc[t] \in PointsOf(t)
LockType == owner \in [Locks -> Threads \cup {NULL}]
DataType ==
  /\ msgs \in Seq(Msgs)
  /\ asServerRoom \subseteq RoomIDs
  /\ handlerSrv \in BOOLEAN
  /\ terminating \subseteq Detectors
  /\ serverList \subseteq {"eFRAME", "eCURSOR"}
  /\ killed \subseteq {Net, Frame}

Ownership ==
  \A l \in Locks : \A t \in Threads : owner[l] = t <=> pc[t] \in Holds(l)

LockInv == PcType /\ LockType /\ Ownership

Joining ==
  /\ pc[GUI] \in {"waitCursor", "waitMirror"} => handlerSrv
  /\ pc[GUI] = "waitMirror" => \A d \in CursorDetectors : pc[d] = "none"

\* A move from one control point to another keeps lock l or does not hold it.
Keeps(from, to, l) == from \in Holds(l) <=> to \in Holds(l)

\* The threads are different from each other and from NULL.
LEMMA ThreadsDistinct ==
  /\ GUI \in Threads /\ Net \in Threads /\ Frame \in Threads
  /\ GUI # Net /\ GUI # Frame /\ Net # Frame
  /\ \A d \in Detectors : d \in Threads /\ d # GUI /\ d # Net /\ d # Frame
  /\ \A t \in Threads : t # NULL
BY ClientThreadsAssumption DEF Threads, GUI, Net, Frame

\* PcType is the part of TypeOK about pc, thread by thread.
LEMMA PcTypeIs ==
  PcType <=>
    /\ pc \in [Threads -> GUIPoints \cup NetPoints \cup FramePoints \cup DetectorPoints]
    /\ pc[GUI] \in GUIPoints /\ pc[Net] \in NetPoints /\ pc[Frame] \in FramePoints
    /\ \A d \in Detectors : pc[d] \in DetectorPoints
BY ThreadsDistinct DEF PcType, PointsOf, Threads

\* TypeOK is the conjunction of the three parts.
LEMMA TypeOKIs == TypeOK <=> PcType /\ LockType /\ DataType
BY PcTypeIs DEF TypeOK, LockType, DataType

\* A thread that takes lock l and nothing else keeps the invariant of the locks.
LEMMA Take ==
  ASSUME LockInv, NEW t \in Threads, NEW l \in Locks, NEW from, NEW to \in PointsOf(t),
         Go(t, from, to), Acquire(t, l), to \in Holds(l),
         \A k \in Locks \ {l} : Keeps(from, to, k)
  PROVE  LockInv'
<1>1. PcType' /\ LockType'
  BY DEF LockInv, PcType, LockType, Go, Acquire
<1>2. ASSUME NEW k \in Locks, NEW u \in Threads
      PROVE  owner'[k] = u <=> pc'[u] \in Holds(k)
  BY ThreadsDistinct
  DEF LockInv, PcType, LockType, Ownership, Keeps, Go, Acquire
<1>. QED  BY <1>1, <1>2 DEF LockInv, Ownership

\* So does a thread that releases lock l, which it holds.
LEMMA Drop ==
  ASSUME LockInv, NEW t \in Threads, NEW l \in Locks, NEW from, NEW to \in PointsOf(t),
         Go(t, from, to), Release(l), from \in Holds(l), to \notin Holds(l),
         \A k \in Locks \ {l} : Keeps(from, to, k)
  PROVE  LockInv'
<1>1. PcType' /\ LockType'
  BY DEF LockInv, PcType, LockType, Go, Release
<1>2. ASSUME NEW k \in Locks, NEW u \in Threads
      PROVE  owner'[k] = u <=> pc'[u] \in Holds(k)
  BY ThreadsDistinct
  DEF LockInv, PcType, LockType, Ownership, Keeps, Go, Release
<1>. QED  BY <1>1, <1>2 DEF LockInv, Ownership

\* So does a thread that moves on with the locks it has.
LEMMA Move ==
  ASSUME LockInv, NEW t \in Threads, NEW from, NEW to \in PointsOf(t),
         Go(t, from, to), owner' = owner, \A k \in Locks : Keeps(from, to, k)
  PROVE  LockInv'
<1>1. PcType' /\ LockType'
  BY DEF LockInv, PcType, LockType, Go
<1>2. ASSUME NEW k \in Locks, NEW u \in Threads
      PROVE  owner'[k] = u <=> pc'[u] \in Holds(k)
  BY ThreadsDistinct
  DEF LockInv, PcType, LockType, Ownership, Keeps, Go
<1>. QED  BY <1>1, <1>2 DEF LockInv, Ownership

\* The GUI's steps that take a lock.
LEMMA GUITakes ==
  ASSUME LockInv,
         \/ GUILockNetMsg \/ GUIAddClientFrame \/ GUIGetClientFrame \/ GUIPaint
         \/ GUISendMsg \/ GUIConnect
  PROVE  LockInv'
<1>. USE ThreadsDistinct DEF Locks, Holds, Keeps, PointsOf, GUIPoints
<1>1. CASE GUILockNetMsg  BY <1>1, Take DEF GUILockNetMsg
<1>2. CASE GUIAddClientFrame  BY <1>2, Take DEF GUIAddClientFrame
<1>3. CASE GUIGetClientFrame  BY <1>3, Take DEF GUIGetClientFrame
<1>4. CASE GUIPaint  BY <1>4, Take DEF GUIPaint
<1>5. CASE GUISendMsg  BY <1>5, Take DEF GUISendMsg
<1>6. CASE GUIConnect  BY <1>6, Take DEF GUIConnect
<1>. QED  BY <1>1, <1>2, <1>3, <1>4, <1>5, <1>6

\* The GUI's steps that release a lock.
LEMMA GUIDrops ==
  ASSUME LockInv,
         \/ GUINoMsg \/ GUIUnlockNetMsg \/ GUIPushClientFrame \/ GUIPopClientFrame
         \/ GUIPopPaint \/ GUISent \/ GUIConnected
  PROVE  LockInv'
<1>. USE ThreadsDistinct DEF Locks, Holds, Keeps, PointsOf, GUIPoints
<1>1. CASE GUINoMsg  BY <1>1, Drop DEF GUINoMsg
<1>2. CASE GUIUnlockNetMsg  BY <1>2, Drop DEF GUIUnlockNetMsg
<1>3. CASE GUIPushClientFrame  BY <1>3, Drop DEF GUIPushClientFrame
<1>4. CASE GUIPopClientFrame  BY <1>4, Drop DEF GUIPopClientFrame
<1>5. CASE GUIPopPaint  BY <1>5, Drop DEF GUIPopPaint
<1>6. CASE GUISent  BY <1>6, Drop DEF GUISent
<1>7. CASE GUIConnected  BY <1>7, Drop DEF GUIConnected
<1>. QED  BY <1>1, <1>2, <1>3, <1>4, <1>5, <1>6, <1>7

\* The GUI's steps that take and release none.
LEMMA GUIMoves ==
  ASSUME LockInv,
         \/ GUIEvent \/ GUICloseEvent \/ GUIHandleFrameSync \/ GUIHandleUnbuildRet
         \/ GUIHandleOther \/ GUIWaitCursor \/ GUIDeleteHandler
  PROVE  LockInv'
<1>. USE ThreadsDistinct DEF Locks, Holds, Keeps, PointsOf, GUIPoints
<1>1. CASE GUIEvent  BY <1>1, Move DEF GUIEvent
<1>2. CASE GUICloseEvent  BY <1>2, Move DEF GUICloseEvent
<1>3. CASE GUIHandleFrameSync  BY <1>3, Move DEF GUIHandleFrameSync
<1>4. CASE GUIHandleUnbuildRet  BY <1>4, Move DEF GUIHandleUnbuildRet
<1>5. CASE GUIHandleOther  BY <1>5, Move DEF GUIHandleOther
<1>6. CASE GUIWaitCursor  BY <1>6, Move DEF GUIWaitCursor
<1>7. CASE GUIDeleteHandler  BY <1>7, Move DEF GUIDeleteHandler
<1>. QED  BY <1>1, <1>2, <1>3, <1>4, <1>5, <1>6, <1>7

\* A build starts the detectors only where no detector thread is left.
LEMMA GUIStarts ==
  ASSUME LockInv, NoDetectorWithoutHandler, GUIHandleBuildRet
  PROVE  LockInv'
<1>. USE ThreadsDistinct DEF Locks, Holds, Keeps, PointsOf, GUIPoints
<1>1. CASE Go(GUI, "handling", "getClientFrame")  BY <1>1, Move DEF GUIHandleBuildRet
<1>2. CASE ~ Go(GUI, "handling", "getClientFrame")
  <2>1. /\ pc[GUI] = "handling" /\ owner' = owner
        /\ pc' = [t \in Threads |-> IF t = GUI THEN "handled"
                                    ELSE IF t \in Detectors /\ ~handlerSrv THEN "execute"
                                    ELSE pc[t]]
    BY <1>2 DEF GUIHandleBuildRet
  <2>2. \A d \in Detectors : ~handlerSrv => pc[d] = "none"
    BY DEF NoDetectorWithoutHandler
  <2>3. PcType' /\ LockType'
    BY <2>1 DEF LockInv, PcType, LockType, DetectorPoints
  <2>4. ASSUME NEW k \in Locks, NEW u \in Threads
        PROVE  owner'[k] = u <=> pc'[u] \in Holds(k)
    <3>1. pc[u] \in Holds(k) <=> pc'[u] \in Holds(k)
      BY <2>1, <2>2
    <3>. QED  BY <2>1, <3>1 DEF LockInv, Ownership
  <2>. QED  BY <2>3, <2>4 DEF LockInv, Ownership
<1>. QED  BY <1>1, <1>2

\* The steps of the net thread.
LEMMA NetSteps ==
  ASSUME LockInv, NetStep
  PROVE  LockInv'
<1>. USE ThreadsDistinct DEF Locks, Holds, Keeps, PointsOf, NetPoints
<1>1. CASE NetWake  BY <1>1, Move DEF NetWake
<1>2. CASE NetLock  BY <1>2, Take DEF NetLock
<1>3. CASE NetReceive  BY <1>3, Move DEF NetReceive
<1>4. CASE NetLockNetMsg  BY <1>4, Take DEF NetLockNetMsg
<1>5. CASE NetPushMsg  BY <1>5, Drop DEF NetPushMsg
<1>6. CASE NetUnlock  BY <1>6, Drop DEF NetUnlock
<1>. QED  BY <1>1, <1>2, <1>3, <1>4, <1>5, <1>6 DEF NetStep

\* The steps of the frame thread.
LEMMA FrameSteps ==
  ASSUME LockInv, FrameStep
  PROVE  LockInv'
<1>. USE ThreadsDistinct DEF Locks, Holds, Keeps, PointsOf, FramePoints
<1>1. CASE FrameWake  BY <1>1, Move DEF FrameWake
<1>2. CASE FrameLock  BY <1>2, Take DEF FrameLock
<1>3. CASE FrameUpdateServer  BY <1>3, Move DEF FrameUpdateServer
<1>4. CASE FrameSendMsgRaw  BY <1>4, Take DEF FrameSendMsgRaw
<1>5. CASE FrameSent  BY <1>5, Drop DEF FrameSent
<1>6. CASE FrameUnlock  BY <1>6, Drop DEF FrameUnlock
<1>. QED  BY <1>1, <1>2, <1>3, <1>4, <1>5, <1>6 DEF FrameStep

\* The steps of a detector thread.
LEMMA DetectorSteps ==
  ASSUME LockInv, NEW d \in Detectors, DetectorStep(d)
  PROVE  LockInv'
<1>. USE ThreadsDistinct DEF Locks, Holds, Keeps, PointsOf, DetectorPoints
<1>1. CASE DetectorUpdate(d)  BY <1>1, Move DEF DetectorUpdate
<1>2. CASE DetectorLock(d)  BY <1>2, Take DEF DetectorLock
<1>3. CASE DetectorEnd(d)  BY <1>3, Move DEF DetectorEnd
<1>4. CASE DetectorPush(d, "addServerFrame")  BY <1>4, Drop DEF DetectorPush
<1>5. CASE DetectorPush(d, "execute")  BY <1>5, Drop DEF DetectorPush
<1>. QED  BY <1>1, <1>2, <1>3, <1>4, <1>5 DEF DetectorStep

-----------------------------------------------------------------------------
(* The detectors and their handler.                                        *)

JoinInv == NoDetectorWithoutHandler /\ Joining

\* The GUI anywhere but at a join, the handler left alone.
LEMMA GUIElsewhere ==
  ASSUME PcType, JoinInv, NEW from, NEW to, Go(GUI, from, to), handlerSrv' = handlerSrv,
         to \notin {"waitCursor", "waitMirror"}
  PROVE  JoinInv'
BY ThreadsDistinct DEF PcType, JoinInv, NoDetectorWithoutHandler, Joining, Go, Detectors

\* A step of the net or the frame thread.
LEMMA NoDetectorMoves ==
  ASSUME PcType, JoinInv, NEW t \in {Net, Frame}, NEW from, NEW to, Go(t, from, to),
         handlerSrv' = handlerSrv
  PROVE  JoinInv'
BY ThreadsDistinct DEF PcType, JoinInv, NoDetectorWithoutHandler, Joining, Go, Detectors

\* A detector that runs: there is a handler, and the detector is not joined yet.
LEMMA DetectorMoves ==
  ASSUME PcType, JoinInv, NEW d \in Detectors, NEW from, NEW to, Go(d, from, to),
         from # "none", handlerSrv' = handlerSrv
  PROVE  JoinInv'
BY ThreadsDistinct DEF PcType, JoinInv, NoDetectorWithoutHandler, Joining, Go, Detectors

\* Every step keeps the detectors and their handler together.
LEMMA JoinStep ==
  ASSUME PcType, JoinInv, [Next]_vars
  PROVE  JoinInv'
<1>. USE ThreadsDistinct DEF data
<1>1. CASE GUIEvent \/ GUICloseEvent
  BY <1>1, GUIElsewhere DEF GUIEvent, GUICloseEvent
<1>2. CASE GUILockNetMsg \/ GUINoMsg \/ GUIUnlockNetMsg
  BY <1>2, GUIElsewhere DEF GUILockNetMsg, GUINoMsg, GUIUnlockNetMsg
<1>3. CASE GUIHandleFrameSync \/ GUIHandleOther
  BY <1>3, GUIElsewhere DEF GUIHandleFrameSync, GUIHandleOther
<1>4. CASE GUIAddClientFrame \/ GUIPushClientFrame \/ GUIGetClientFrame \/ GUIPopClientFrame
  BY <1>4, GUIElsewhere
  DEF GUIAddClientFrame, GUIPushClientFrame, GUIGetClientFrame, GUIPopClientFrame
<1>5. CASE GUIPaint \/ GUIPopPaint \/ GUISendMsg \/ GUISent \/ GUIConnect \/ GUIConnected
  BY <1>5, GUIElsewhere
  DEF GUIPaint, GUIPopPaint, GUISendMsg, GUISent, GUIConnect, GUIConnected
<1>6. CASE GUIHandleBuildRet
  <2>1. CASE Go(GUI, "handling", "getClientFrame") /\ handlerSrv' = handlerSrv
    BY <2>1, GUIElsewhere
  <2>2. CASE /\ handlerSrv' /\ pc[GUI] = "handling"
             /\ pc' = [t \in Threads |-> IF t = GUI THEN "handled"
                                         ELSE IF t \in Detectors /\ ~handlerSrv THEN "execute"
                                         ELSE pc[t]]
    BY <2>2 DEF JoinInv, NoDetectorWithoutHandler, Joining
  <2>. QED  BY <1>6, <2>1, <2>2 DEF GUIHandleBuildRet
<1>7. CASE GUIHandleUnbuildRet
  <2>1. CASE Go(GUI, "handling", "waitCursor") /\ handlerSrv /\ handlerSrv' = handlerSrv
    BY <2>1 DEF PcType, JoinInv, NoDetectorWithoutHandler, Joining, Go
  <2>2. CASE Go(GUI, "handling", "handled") /\ handlerSrv' = handlerSrv
    BY <2>2, GUIElsewhere
  <2>. QED  BY <1>7, <2>1, <2>2 DEF GUIHandleUnbuildRet
<1>8. CASE GUIWaitCursor
  BY <1>8
  DEF GUIWaitCursor, PcType, JoinInv, NoDetectorWithoutHandler, Joining, Go, Detectors
<1>9. CASE GUIDeleteHandler
  BY <1>9
  DEF GUIDeleteHandler, PcType, JoinInv, NoDetectorWithoutHandler, Joining, Go, Detectors
<1>10. CASE NetStep
  BY <1>10, NoDetectorMoves
  DEF NetStep, NetWake, NetLock, NetReceive, NetLockNetMsg, NetPushMsg, NetUnlock
<1>11. CASE FrameStep
  BY <1>11, NoDetectorMoves
  DEF FrameStep, FrameWake, FrameLock, FrameUpdateServer, FrameSendMsgRaw, FrameSent,
      FrameUnlock
<1>12. ASSUME NEW d \in Detectors, DetectorStep(d)  PROVE JoinInv'
  BY <1>12, DetectorMoves
  DEF DetectorStep, DetectorUpdate, DetectorLock, DetectorPush, DetectorEnd
<1>13. CASE UNCHANGED vars
  BY <1>13 DEF vars, JoinInv, NoDetectorWithoutHandler, Joining
<1>. QED
  BY <1>1, <1>2, <1>3, <1>4, <1>5, <1>6, <1>7, <1>8, <1>9, <1>10, <1>11, <1>12, <1>13
  DEF Next, GUIStep

-----------------------------------------------------------------------------
(* The types of the data.                                                  *)

\* Handling a message takes it off the list.
LEMMA PopMsgType == ASSUME msgs \in Seq(Msgs), NEW cmd, PopMsg(cmd)
                    PROVE  msgs' \in Seq(Msgs) /\ Head(msgs) \in Msgs
BY DEF PopMsg

\* Every step keeps the data in its types.
LEMMA DataStep ==
  ASSUME DataType, [Next]_vars
  PROVE  DataType'
<1>. USE DEF DataType, data
<1>1. CASE GUIEvent \/ GUICloseEvent
  BY <1>1 DEF GUIEvent, GUICloseEvent
<1>2. CASE GUILockNetMsg \/ GUINoMsg \/ GUIUnlockNetMsg
  BY <1>2 DEF GUILockNetMsg, GUINoMsg, GUIUnlockNetMsg
<1>3. CASE GUIHandleFrameSync \/ GUIHandleOther
  BY <1>3, PopMsgType DEF GUIHandleFrameSync, GUIHandleOther
<1>4. CASE GUIAddClientFrame \/ GUIPushClientFrame \/ GUIGetClientFrame \/ GUIPopClientFrame
  BY <1>4 DEF GUIAddClientFrame, GUIPushClientFrame, GUIGetClientFrame, GUIPopClientFrame
<1>5. CASE GUIPaint \/ GUIPopPaint \/ GUISendMsg \/ GUISent \/ GUIConnect \/ GUIConnected
  BY <1>5 DEF GUIPaint, GUIPopPaint, GUISendMsg, GUISent, GUIConnect, GUIConnected
<1>6. CASE GUIHandleBuildRet
  <2>1. msgs' \in Seq(Msgs)  BY <1>6, PopMsgType DEF GUIHandleBuildRet
  <2>2. Head(msgs).service = 1 => asServerRoom' \subseteq RoomIDs
    <3>1. Head(msgs) \in Msgs /\ Head(msgs).cmd = "BUILD_RET"
      BY <1>6, PopMsgType DEF GUIHandleBuildRet, PopMsg
    <3>2. Head(msgs).service = 1 => Head(msgs).roomid \in RoomIDs
      BY <3>1 DEF Msgs
    <3>. QED  BY <1>6, <3>2 DEF GUIHandleBuildRet
  <2>. QED  BY <1>6, <2>1, <2>2 DEF GUIHandleBuildRet
<1>7. CASE GUIHandleUnbuildRet
  BY <1>7, PopMsgType DEF GUIHandleUnbuildRet, Detectors
<1>8. CASE GUIWaitCursor \/ GUIDeleteHandler
  BY <1>8 DEF GUIWaitCursor, GUIDeleteHandler
<1>9. CASE NetStep
  <2>1. CASE NetPushMsg
    <3>1. PICK m \in Msgs : msgs' = Append(msgs, m)  BY <2>1 DEF NetPushMsg
    <3>2. msgs' \in Seq(Msgs)  BY <3>1
    <3>. QED  BY <2>1, <3>2 DEF NetPushMsg
  <2>2. CASE NetWake \/ NetLock \/ NetReceive \/ NetLockNetMsg \/ NetUnlock
    BY <2>2 DEF NetWake, NetLock, NetReceive, NetLockNetMsg, NetUnlock
  <2>. QED  BY <1>9, <2>1, <2>2 DEF NetStep
<1>10. CASE FrameStep
  BY <1>10
  DEF FrameStep, FrameWake, FrameLock, FrameUpdateServer, FrameSendMsgRaw, FrameSent,
      FrameUnlock
<1>11. ASSUME NEW d \in Detectors, DetectorStep(d)  PROVE DataType'
  BY <1>11 DEF DetectorStep, DetectorUpdate, DetectorLock, DetectorPush, DetectorEnd
<1>12. CASE UNCHANGED vars
  BY <1>12 DEF vars
<1>. QED
  BY <1>1, <1>2, <1>3, <1>4, <1>5, <1>6, <1>7, <1>8, <1>9, <1>10, <1>11, <1>12
  DEF Next, GUIStep

-----------------------------------------------------------------------------
(* The inductive invariant.                                                *)

IInv == LockInv /\ DataType /\ JoinInv

\* The threads start outside every lock, with no handler.
LEMMA InvInit == Init => IInv
<1>. SUFFICES ASSUME Init PROVE IInv  OBVIOUS
<1>1. PcType
  BY ThreadsDistinct
  DEF Init, PcType, PointsOf, GUIPoints, NetPoints, FramePoints, DetectorPoints
<1>2. LockType  BY DEF Init, LockType
<1>3. DataType
  <2>1. <<>> \in Seq(Msgs)  OBVIOUS
  <2>. QED  BY <2>1 DEF Init, DataType
<1>4. ASSUME NEW l \in Locks, NEW t \in Threads
      PROVE  owner[l] # t /\ pc[t] \notin Holds(l)
  BY <1>4, ThreadsDistinct DEF Init, Locks, Holds
<1>5. Ownership  BY <1>4 DEF Ownership
<1>6. JoinInv
  BY ThreadsDistinct DEF Init, JoinInv, NoDetectorWithoutHandler, Joining
<1>. QED  BY <1>1, <1>2, <1>3, <1>5, <1>6 DEF IInv, LockInv

\* The invariant is inductive.
LEMMA InvNext == IInv /\ [Next]_vars => IInv'
<1>. SUFFICES ASSUME IInv, [Next]_vars PROVE IInv'  OBVIOUS
<1>1. LockInv'
  <2>. USE DEF IInv
  <2>1. CASE GUIStep
    BY <2>1, GUITakes, GUIDrops, GUIMoves, GUIStarts DEF GUIStep, JoinInv
  <2>2. CASE NetStep  BY <2>2, NetSteps
  <2>3. CASE FrameStep  BY <2>3, FrameSteps
  <2>4. ASSUME NEW d \in Detectors, DetectorStep(d)  PROVE LockInv'
    BY <2>4, DetectorSteps
  <2>5. CASE UNCHANGED vars
    BY <2>5 DEF vars, LockInv, PcType, LockType, Ownership
  <2>. QED  BY <2>1, <2>2, <2>3, <2>4, <2>5 DEF Next
<1>2. DataType'  BY DataStep DEF IInv
<1>3. JoinInv'  BY JoinStep DEF IInv, LockInv
<1>. QED  BY <1>1, <1>2, <1>3 DEF IInv

\* So it holds in every reachable state.
LEMMA InvHolds == Spec => []IInv
BY InvInit, InvNext, PTL DEF Spec

\* Every variable of the threads has its type: a thread stays in its own code.
THEOREM TypeCorrect == Spec => []TypeOK
<1>1. IInv => TypeOK  BY TypeOKIs DEF IInv, LockInv
<1>. QED  BY <1>1, InvHolds, PTL

\* However many detectors there are, none outlives the handler it reports to.
THEOREM NoDetectorWithoutHandlerHolds == Spec => []NoDetectorWithoutHandler
<1>1. IInv => NoDetectorWithoutHandler  BY DEF IInv, JoinInv
<1>. QED  BY <1>1, InvHolds, PTL

-----------------------------------------------------------------------------
(* Deadlocks.  A member of a deadlocked set waits for another member, which *)
(* itself waits: this leaves one possible waiting owner for each lock.      *)

\* A thread that waits for the owner of l wants l, and the owner holds l.
LEMMA WaitingOwner ==
  ASSUME LockInv, NEW l \in Locks, NEW t \in Threads, NEW u \in Threads,
         pc[t] \in Wants(l), u = owner[l], WaitsFor(u) # {}
  PROVE  \/ l = "oMutex" /\ u = Net /\ pc[Net] = "onReceiveNetMsg"
         \/ l = "pdMutex" /\ u = Frame /\ pc[Frame] = "sendMsgRaw"
         \/ /\ l = "netMsgMutex" /\ u = GUI
            /\ pc[GUI] \in {"addClientFrame", "getClientFrame", "waitCursor", "waitMirror"}
<1>1. pc[u] \in Holds(l) /\ pc[u] \in PointsOf(u)
  BY DEF LockInv, Ownership, PcType
<1>2. \/ \E k \in Locks : pc[u] \in Wants(k)
      \/ pc[u] \in {"waitCursor", "waitMirror"}
  BY DEF WaitsFor
<1>. QED
  BY <1>1, <1>2, ThreadsDistinct
  DEF Locks, Holds, Wants, PointsOf, GUIPoints, NetPoints, FramePoints, DetectorPoints,
      Threads, Detectors

\* Whoever waits in a deadlocked set does so for a lock or, the GUI, for a
\* detector that wants the frame lists.
LEMMA WaitingMember ==
  ASSUME LockInv, NEW S \in SUBSET Threads, Deadlock(S), NEW t \in S
  PROVE  \/ \E l \in Locks : pc[t] \in Wants(l) /\ owner[l] \in S
         \/ /\ t = GUI /\ pc[GUI] = "waitCursor"
            /\ \E d \in CursorDetectors \cap S : pc[d] = "addServerFrame"
         \/ t = GUI /\ pc[GUI] = "waitMirror" /\ Mirror \in S /\ pc[Mirror] = "addServerFrame"
<1>1. PICK u \in S : u \in WaitsFor(t)  BY DEF Deadlock
<1>2. CASE \E l \in Locks : pc[t] \in Wants(l) /\ u = owner[l]
  BY <1>2
<1>3. CASE u \in Detectors /\ pc[u] # "none" /\ pc[t] \in {"waitCursor", "waitMirror"}
           /\ (pc[t] = "waitCursor" => u \in CursorDetectors)
           /\ (pc[t] = "waitMirror" => u = Mirror)
  <2>1. t = GUI
    BY <1>3, ThreadsDistinct
    DEF LockInv, PcType, PointsOf, NetPoints, FramePoints, DetectorPoints, Threads
  <2>2. pc[u] \in DetectorPoints
    BY <1>3, ThreadsDistinct DEF LockInv, PcType, PointsOf
  <2>3. WaitsFor(u) # {}  BY DEF Deadlock
  <2>4. pc[u] = "addServerFrame"
    BY <2>2, <2>3 DEF WaitsFor, Wants, DetectorPoints, Locks
  <2>. QED  BY <1>3, <2>1, <2>4
<1>. DEFINE Owners == UNION {{owner[l]} \ {NULL} : l \in {k \in Locks : pc[t] \in Wants(k)}}
            Cursors == {d \in CursorDetectors : pc[t] = "waitCursor" /\ pc[d] # "none"}
            Mirrors == {d \in {Mirror} : pc[t] = "waitMirror" /\ pc[d] # "none"}
<1>4. WaitsFor(t) = Owners \cup Cursors \cup Mirrors
  BY Zenon DEF WaitsFor
<1>5. u \in Owners => \E l \in Locks : pc[t] \in Wants(l) /\ u = owner[l]
  OBVIOUS
<1>6. u \in Cursors => u \in CursorDetectors /\ pc[t] = "waitCursor" /\ pc[u] # "none"
  OBVIOUS
<1>7. u \in Mirrors => u = Mirror /\ pc[t] = "waitMirror" /\ pc[u] # "none"
  OBVIOUS
<1>. HIDE DEF Owners, Cursors, Mirrors
<1>8. u \in Owners \/ u \in Cursors \/ u \in Mirrors  BY <1>1, <1>4
<1>9. CASE u \in Owners  BY <1>9, <1>5, <1>2
<1>10. CASE u \in Cursors  BY <1>10, <1>6, <1>3 DEF Detectors
<1>11. CASE u \in Mirrors  BY <1>11, <1>7, <1>3 DEF Detectors
<1>. QED  BY <1>8, <1>9, <1>10, <1>11

\* A thread in a deadlocked set that wants lock l has l's owner in the set.
LEMMA WantedLock ==
  ASSUME LockInv, NEW S \in SUBSET Threads, Deadlock(S), NEW t \in S, NEW l \in Locks,
         pc[t] \in Wants(l)
  PROVE  \/ l = "oMutex" /\ Net \in S /\ pc[Net] = "onReceiveNetMsg"
         \/ l = "pdMutex" /\ Frame \in S /\ pc[Frame] = "sendMsgRaw"
         \/ /\ l = "netMsgMutex" /\ GUI \in S
            /\ pc[GUI] \in {"addClientFrame", "getClientFrame", "waitCursor", "waitMirror"}
<1>1. ASSUME NEW k \in Locks, pc[t] \in Wants(k)  PROVE k = l
  BY <1>1 DEF Locks, Wants
<1>2. owner[l] \in S
  BY <1>1, WaitingMember DEF Wants, Locks
<1>3. WaitsFor(owner[l]) # {} /\ owner[l] \in Threads
  BY <1>2 DEF Deadlock
<1>. QED  BY <1>2, <1>3, WaitingOwner

\* Every chain of waits in a deadlocked set runs through all three locks.
LEMMA DeadlockCycle ==
  ASSUME LockInv
  PROVE  DeadlockIsLockCycle
<1>. SUFFICES ASSUME NEW S \in SUBSET Threads, Deadlock(S)  PROVE LockCycle
  BY DEF DeadlockIsLockCycle
<1>. DEFINE GUIHandles ==
       /\ GUI \in S
       /\ pc[GUI] \in {"addClientFrame", "getClientFrame", "waitCursor", "waitMirror"}
     NetDelivers == Net \in S /\ pc[Net] = "onReceiveNetMsg"
     FrameSends  == Frame \in S /\ pc[Frame] = "sendMsgRaw"
<1>1. ASSUME NEW t \in S, NEW l \in Locks, pc[t] \in Wants(l)
      PROVE  \/ l = "oMutex" /\ NetDelivers
             \/ l = "pdMutex" /\ FrameSends
             \/ l = "netMsgMutex" /\ GUIHandles
  BY <1>1, WantedLock
<1>2. FrameSends => NetDelivers
  BY <1>1 DEF Wants, Locks
<1>3. NetDelivers => GUIHandles
  BY <1>1 DEF Wants, Locks
<1>4. GUIHandles =>
        /\ FrameSends
        /\ \/ pc[GUI] \in {"addClientFrame", "getClientFrame"}
           \/ pc[GUI] = "waitCursor" /\ \E d \in CursorDetectors : pc[d] = "addServerFrame"
           \/ pc[GUI] = "waitMirror" /\ pc[Mirror] = "addServerFrame"
  <2>. SUFFICES ASSUME GUIHandles
                PROVE  /\ FrameSends
                       /\ \/ pc[GUI] \in {"addClientFrame", "getClientFrame"}
                          \/ /\ pc[GUI] = "waitCursor"
                             /\ \E d \in CursorDetectors : pc[d] = "addServerFrame"
                          \/ pc[GUI] = "waitMirror" /\ pc[Mirror] = "addServerFrame"
    OBVIOUS
  <2>1. CASE pc[GUI] \in {"addClientFrame", "getClientFrame"}
    BY <2>1, <1>1 DEF Wants, Locks
  <2>2. CASE pc[GUI] = "waitCursor"
    <3>1. PICK d \in CursorDetectors \cap S : pc[d] = "addServerFrame"
      BY <2>2, WaitingMember DEF Wants, Locks
    <3>2. FrameSends  BY <3>1, <1>1 DEF Wants, Locks
    <3>. QED  BY <2>2, <3>1, <3>2
  <2>3. CASE pc[GUI] = "waitMirror"
    <3>1. Mirror \in S /\ pc[Mirror] = "addServerFrame"
      BY <2>3, WaitingMember DEF Wants, Locks
    <3>2. FrameSends  BY <3>1, <1>1 DEF Wants, Locks
    <3>. QED  BY <2>3, <3>1, <3>2
  <2>. QED  BY <2>1, <2>2, <2>3
<1>5. \E t \in S : TRUE  BY DEF Deadlock
<1>6. NetDelivers /\ FrameSends /\ GUIHandles
  BY <1>5, <1>1, <1>2, <1>3, <1>4, WaitingMember
<1>. QED  BY <1>4, <1>6 DEF LockCycle

\* The threads of the client deadlock in one way only, however many detectors
\* and rooms there are: net thread, frame thread and GUI in the lock cycle.
THEOREM DeadlockIsLockCycleHolds == Spec => []DeadlockIsLockCycle
<1>1. IInv => DeadlockIsLockCycle  BY DeadlockCycle DEF IInv
<1>. QED  BY <1>1, InvHolds, PTL

=============================================================================
