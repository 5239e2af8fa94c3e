---------------------------- MODULE FrameQueue ----------------------------
(***************************************************************************)
(* Frames on the viewing side of the client.  The GUI thread unpacks them  *)
(* from FRAME_SYNC into m_pdClientList.  Every 200 ms the frame thread     *)
(* moves the list to m_oneClientFrame, if that is empty, and signals the   *)
(* viewer windows.  The GUI thread then draws m_oneClientFrame from the    *)
(* signal's slot.  Every access to a list is under m_pdMutex, so a step is *)
(* what one holder of the mutex does; the locks are in ClientThreads.      *)
(*                                                                         *)
(* Frames are numbered as they are accepted.  A viewer is a window object, *)
(* opened once.                                                            *)
(***************************************************************************)
EXTENDS Naturals, Sequences

CONSTANTS
  Viewers,    \* GLClientViewer objects
  Rooms,      \* room ids
  MaxFrames,  \* bound: frames accepted in all
  MaxPacket,  \* bound: frames in a FRAME_SYNC packet
  NULL        \* no viewer

ASSUME FrameQueueAssumption ==
  /\ NULL \notin Viewers
  /\ MaxFrames \in Nat /\ MaxPacket \in Nat

VARIABLES
  clientList,   \* m_pdClientList
  oneFrame,     \* m_oneClientFrame
  drawn,        \* the frames drawn so far
  accepted,     \* number of the last frame accepted
  posted,       \* viewer -> its slot calls in the GUI's event queue
  gui,          \* the slot or handler the GUI thread is in
  left,         \* frames of the packet still to unpack
  window,       \* viewer -> "new", "closed", or what opened it
  viewer,       \* m_clientViewerMap[1], the only key in use
  asClientRoom  \* m_asClientRoomMap

lists   == <<clientList, oneFrame, drawn, accepted>>
windows == <<window, viewer, asClientRoom>>
vars    == <<lists, windows, posted, gui, left>>

Open == {v \in Viewers : window[v] \in {"onBuildRet", "onBtnBuild"}}

-----------------------------------------------------------------------------
(* The GUI thread.                                                         *)

\* FRAME_SYNC is for the viewer in the map; without one it is dropped.
OnFrameSync(n) ==
  /\ gui = "eventLoop" /\ viewer # NULL
  /\ gui' = "onFrameSync" /\ left' = n
  /\ UNCHANGED <<lists, windows, posted>>

AddClientFrame ==
  /\ gui = "onFrameSync" /\ left > 0 /\ accepted < MaxFrames
  /\ accepted' = accepted + 1
  /\ clientList' = Append(clientList, accepted + 1)
  /\ left' = left - 1
  /\ UNCHANGED <<oneFrame, drawn, posted, gui, windows>>

\* A frame that does not unzip is left out.
SkipClientFrame ==
  /\ gui = "onFrameSync" /\ left > 0
  /\ left' = left - 1
  /\ UNCHANGED <<lists, windows, posted, gui>>

OnFrameSyncEnd ==
  /\ gui = "onFrameSync" /\ left = 0
  /\ gui' = "eventLoop"
  /\ UNCHANGED <<lists, windows, posted, left>>

\* A new window is connected to the frame thread and takes over map entry 1.
OpenViewer(v, how) ==
  /\ gui = "eventLoop" /\ window[v] = "new"
  /\ window' = [window EXCEPT ![v] = how]
  /\ viewer' = v

\* Mutant: the window waits for the next signal.
OnBuildRetMutant(v, room) ==
  /\ room \notin asClientRoom
  /\ OpenViewer(v, "onBuildRet")
  /\ asClientRoom' = asClientRoom \cup {room}
  /\ UNCHANGED <<lists, posted, gui, left>>

\* BUILD_RET to the viewer: the window begins by drawing what is waiting.
OnBuildRet(v, room) ==
  /\ room \notin asClientRoom
  /\ OpenViewer(v, "onBuildRet")
  /\ asClientRoom' = asClientRoom \cup {room}
  /\ gui' = "onPaintDataChanged"
  /\ UNCHANGED <<lists, posted, left>>

\* The build button opens a window without asking the server.
OnBtnBuild(v) ==
  /\ OpenViewer(v, "onBtnBuild")
  /\ UNCHANGED <<lists, posted, gui, left, asClientRoom>>

OnUnbuildRet(room) ==
  /\ gui = "eventLoop" /\ room \in asClientRoom
  /\ asClientRoom' = asClientRoom \ {room}
  /\ UNCHANGED <<lists, posted, gui, left, window, viewer>>

\* Mutant: the map entry stays.
OnViewerCloseMutant(v) ==
  /\ gui = "eventLoop" /\ v \in Open
  /\ window' = [window EXCEPT ![v] = "closed"]
  /\ posted' = [posted EXCEPT ![v] = 0]
  /\ UNCHANGED <<lists, gui, left, viewer, asClientRoom>>

\* Closing a window erases map entry 1, whichever window that is.  The closed
\* one is deleted, and its queued slot calls with it.
OnViewerClose(v) ==
  /\ gui = "eventLoop" /\ v \in Open
  /\ window' = [window EXCEPT ![v] = "closed"]
  /\ viewer' = NULL
  /\ posted' = [posted EXCEPT ![v] = 0]
  /\ UNCHANGED <<lists, gui, left, asClientRoom>>

\* A queued slot call is delivered.
OnPaintDataChanged(v) ==
  /\ gui = "eventLoop" /\ posted[v] > 0
  /\ posted' = [posted EXCEPT ![v] = @ - 1]
  /\ gui' = "onPaintDataChanged"
  /\ UNCHANGED <<lists, windows, left>>

\* The slot draws until getClientFrame finds nothing.
GetClientFrame ==
  /\ gui = "onPaintDataChanged"
  /\ \/ /\ oneFrame # <<>>
        /\ oneFrame' = Tail(oneFrame)
        /\ drawn' = Append(drawn, Head(oneFrame))
        /\ UNCHANGED gui
     \/ /\ oneFrame = <<>>
        /\ gui' = "eventLoop"
        /\ UNCHANGED <<oneFrame, drawn>>
  /\ UNCHANGED <<clientList, accepted, windows, posted, left>>

-----------------------------------------------------------------------------
(* The frame thread.                                                       *)

\* The signal is emitted in the frame thread and the viewers live in the GUI
\* thread, so Qt queues one slot call for each viewer that is open now.
Emit == posted' = [v \in Viewers |-> IF v \in Open THEN posted[v] + 1 ELSE posted[v]]

\* Mutant: the two lists are swapped, whatever m_oneClientFrame holds.
UpdateClientSwap ==
  /\ clientList # <<>>
  /\ oneFrame' = clientList /\ clientList' = oneFrame
  /\ Emit
  /\ UNCHANGED <<drawn, accepted, windows, gui, left>>

\* Mutant: only a batch of one frame is signalled.
UpdateClientQuiet ==
  /\ oneFrame = <<>> /\ clientList # <<>>
  /\ oneFrame' = clientList /\ clientList' = <<>>
  /\ IF Len(clientList) = 1 THEN Emit ELSE UNCHANGED posted
  /\ UNCHANGED <<drawn, accepted, windows, gui, left>>

UpdateClient ==
  /\ oneFrame = <<>> /\ clientList # <<>>
  /\ oneFrame' = clientList /\ clientList' = <<>>
  /\ Emit
  /\ UNCHANGED <<drawn, accepted, windows, gui, left>>

-----------------------------------------------------------------------------
Init ==
  /\ clientList = <<>> /\ oneFrame = <<>> /\ drawn = <<>> /\ accepted = 0
  /\ posted = [v \in Viewers |-> 0]
  /\ gui = "eventLoop" /\ left = 0
  /\ window = [v \in Viewers |-> "new"]
  /\ viewer = NULL
  /\ asClientRoom = {}

Next ==
  \/ \E n \in 0..MaxPacket : OnFrameSync(n)
  \/ AddClientFrame \/ SkipClientFrame \/ OnFrameSyncEnd
  \/ \E v \in Viewers, room \in Rooms : OnBuildRet(v, room)
  \/ \E v \in Viewers : OnBtnBuild(v) \/ OnViewerClose(v) \/ OnPaintDataChanged(v)
  \/ \E room \in Rooms : OnUnbuildRet(room)
  \/ GetClientFrame
  \/ UpdateClient

Spec == Init /\ [][Next]_vars

\* The GUI thread finishes the handler it is in and its event loop delivers
\* posted calls in every round; the frame thread wakes every 200 ms.
Fairness ==
  /\ WF_vars(SkipClientFrame) /\ WF_vars(OnFrameSyncEnd) /\ WF_vars(GetClientFrame)
  /\ SF_vars(\E v \in Viewers : OnPaintDataChanged(v))
  /\ WF_vars(UpdateClient)

FairSpec == Spec /\ Fairness

-----------------------------------------------------------------------------
(* Properties.                                                             *)

\* Every variable has its type.
TypeOK ==
  /\ clientList \in Seq(1..MaxFrames) /\ oneFrame \in Seq(1..MaxFrames)
  /\ drawn \in Seq(1..MaxFrames) /\ accepted \in 0..MaxFrames
  /\ posted \in [Viewers -> Nat]
  /\ gui \in {"eventLoop", "onFrameSync", "onPaintDataChanged"}
  /\ left \in 0..MaxPacket
  /\ window \in [Viewers -> {"new", "closed", "onBuildRet", "onBtnBuild"}]
  /\ viewer \in Viewers \cup {NULL}
  /\ asClientRoom \subseteq Rooms

\* The map never points to a deleted window, although windows opened one after
\* the other share its only entry and may be closed in any order.
NoDanglingViewer ==
  /\ viewer # NULL => viewer \in Open
  /\ \A v \in Viewers : posted[v] > 0 => v \in Open

\* A batch of frames never waits unnoticed while a window opened by BUILD_RET is
\* there: a slot call that will draw it is queued or running.  (A window opened
\* by the button may wait for ever: a batch left over when the last window was
\* closed keeps updateClient from signalling again.)
BatchIsSignalled ==
  oneFrame # <<>> /\ (\E v \in Viewers : window[v] = "onBuildRet") =>
    gui = "onPaintDataChanged" \/ \E v \in Viewers : posted[v] > 0

\* Frames go through the two lists in order, none drawn twice or left out, with
\* the frame thread refilling the batch between two steps of the drawing loop
\* and any number of windows drawing from it.
Fifo == INSTANCE FrameFifo WITH
          Frame <- 1..MaxFrames, waiting <- oneFrame \o clientList, drawn <- drawn

ImplementsFifo == Fifo!Spec

\* An accepted frame is drawn in the end, if a window opened by BUILD_RET stays.
FramesDrawn ==
  \A f \in 1..MaxFrames :
    accepted >= f ~>
      \/ Len(drawn) >= f
      \/ \A v \in Viewers : window[v] # "onBuildRet"

=============================================================================
