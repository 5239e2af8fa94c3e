---------------------------- MODULE UpdateKeeper ----------------------------
(***************************************************************************)
(* UpdateKeeper and CopyRectDetector point by point (desktop/UpdateKeeper, *)
(* CopyRectDetector, UpdateHandlerImpl::extract, UpdateFilter).  The       *)
(* screen is painted, and the driver reports the rectangle; a window is    *)
(* moved, and nobody reports that until extract asks CopyRectDetector,     *)
(* which compares the place of the window with the one it had at the last  *)
(* extract.  addCopyRect then replaces changes by a copy, which the filter *)
(* repeats in the back buffer before it compares that with the screen.     *)
(*                                                                         *)
(* The window is the one CopyRectDetector would report, the largest of     *)
(* those moved.  That the driver also logs what it draws when a window is  *)
(* moved is not relied on: such a report is a paint here.  UpdatePipeline  *)
(* has what the threads do to each other; here an update is one step.      *)
(***************************************************************************)
EXTENDS Regions

CONSTANTS
  Border,      \* m_borderRect, the screen
  Paints,      \* the rectangles a program may paint
  Places,      \* the rectangles the window may cover
  Colours,     \* what a point may show
  MaxOps       \* bound: changes of the screen between two updates

ASSUME KeeperAssumption ==
  /\ Border \in Rects
  /\ Places \subseteq Rects
  /\ \A r \in Places : ~RectIsEmpty(r)
  /\ \A r, s \in Places : Width(r) = Width(s) /\ Height(r) = Height(s)
  /\ MaxOps \in Nat

VARIABLES
  pixels,      \* the screen: what each point shows
  win,         \* where the window is
  was,         \* where it was at the last extract, in m_lastWinProps
  changed,     \* m_updateContainer.changedRegion
  backup,      \* m_backupFrameBuffer
  picture,     \* what the frames sent show
  brought,     \* ghost: the points the window covers, when it was moved since
               \* the last extract
  missed,      \* ghost: the points that a move changed and nobody reported
  ops          \* ghost: changes of the screen since the last extract

keeperVars == <<pixels, win, was, changed, backup, picture, brought, missed, ops>>

Screen == Points(Border)
Images == [Screen -> Colours]

\* The point of a window at `from' that is p when it is at `to'.
Before(from, to, p) == TranslatePoint(p, from.left - to.left, from.top - to.top)

(***************************************************************************)
(* The changes of the screen.                                              *)
(***************************************************************************)
KeeperInit ==
  /\ pixels \in Images /\ backup = pixels /\ picture = pixels
  /\ win \in Places /\ was = win
  /\ changed = {} /\ brought = {} /\ missed = {}
  /\ ops = 0

\* addChangedRegion: what the changed region is then.
Added(region, more) == (region \cup more) \cap Screen

\* A program paints, and the driver reports it with addChangedRect.
AddChangedRect(r, c) ==
  /\ ops < MaxOps
  /\ pixels' = [p \in Screen |-> IF p \in Points(r) THEN c ELSE pixels[p]]
  /\ changed' = Added(changed, Points(r))
  /\ ops' = ops + 1
  /\ UNCHANGED <<win, was, backup, picture, brought, missed>>

\* The window takes its picture along; what was off the screen is drawn, and
\* so is what the window uncovers, which the driver reports.
MoveWindow(to, c) ==
  /\ ops < MaxOps
  /\ to # win
  /\ pixels' = [p \in Screen |->
       LET q == Before(win, to, p)
       IN  IF p \in Points(to) THEN IF q \in Screen THEN pixels[q] ELSE c
           ELSE IF p \in Points(win) THEN c ELSE pixels[p]]
  /\ changed' = Added(changed, Points(win) \ Points(to))
  /\ win' = to
  /\ brought' = Points(to) \cap Screen
  /\ ops' = ops + 1
  /\ UNCHANGED <<was, backup, picture, missed>>

(***************************************************************************)
(* addCopyRect.  dst is clipped to the border and its source corrected,    *)
(* then the source is clipped and dst corrected.  The part of the window   *)
(* that is not copied is changed; the copy takes the place of the changes  *)
(* under it, and the changes under its source go along.  When nothing      *)
(* remains to be copied nothing is recorded.  No copy is ever pending: the *)
(* section that calls addCopyRect extracts the container at once.          *)
(***************************************************************************)
Clip(copyRect, from) ==
  LET onScreen == Intersection(copyRect, Border)
      onSource == Corrected(SetLocation(copyRect, from.left, from.top), onScreen, copyRect)
      src == Intersection(onSource, Border)
  IN  [src |-> src, dst |-> Corrected(onScreen, src, onSource)]

\* Mutant: what is clipped away is not added to the changed region.
UncopiedMutant(copyRect, dst) == {}

Uncopied(copyRect, dst) == Points(copyRect) \ Points(dst)

Carried(region, src, dst) ==
  LET left == region \ Points(dst)
      addon == Translate(left \cap Points(src),
                         dst.left - src.left, dst.top - src.top)
  IN  left \cup addon

Container(region, copied, src, dst) ==
  [changed |-> region, copied |-> copied, src |-> src, dst |-> dst]

\* The container after getCopiedRegion and addCopyRect.
Extracted ==
  LET clip == Clip(win, was)
      region == Added(changed, Uncopied(win, clip.dst))
  IN  IF win = was \/ RectIsEmpty(clip.dst)
      THEN Container(changed, {}, Zero, Zero)
      ELSE Container(Carried(region, clip.src, clip.dst) \cap Screen,
                     Points(clip.dst) \cap Screen, clip.src, clip.dst)

(***************************************************************************)
(* The filter, and the frames: changed and copied rectangles are sent.     *)
(***************************************************************************)
\* FrameBuffer::move in the back buffer.
Repeated(c) ==
  [p \in Screen |->
     IF p \in c.copied THEN backup[Before(c.src, c.dst, p)] ELSE backup[p]]

\* The detector reports the move, and something of it can be copied.
Recorded ==
  /\ win # was
  /\ \E p \in Points(win) \cap Screen : Before(was, win, p) \in Screen

\* extract, filter and the frames of it.
SendUpdate ==
  LET c == Extracted
      checked == c.changed \cup c.copied
      repeated == Repeated(c)
      differs == {p \in checked : repeated[p] # pixels[p]}
  IN  /\ backup' = [p \in Screen |-> IF p \in differs THEN pixels[p] ELSE repeated[p]]
      /\ picture' = [p \in Screen |->
                       IF p \in differs \cup c.copied THEN backup'[p] ELSE picture[p]]
      /\ missed' = (missed \cup (IF Recorded THEN {} ELSE brought)) \ checked
      /\ changed' = {} /\ brought' = {}
      /\ was' = win
      /\ ops' = 0
      /\ UNCHANGED <<pixels, win>>

KeeperNext ==
  \/ \E r \in Paints, c \in Colours : AddChangedRect(r, c)
  \/ \E to \in Places, c \in Colours : MoveWindow(to, c)
  \/ SendUpdate

KeeperSpec == KeeperInit /\ [][KeeperNext]_keeperVars
----------------------------------------------------------------------------
KeeperTypeOK ==
  /\ pixels \in Images /\ backup \in Images /\ picture \in Images
  /\ win \in Places /\ was \in Places
  /\ changed \subseteq Screen /\ brought \subseteq Screen /\ missed \subseteq Screen

\* Where the frames sent do not show the screen, the next update will: the
\* point is in the changed region, or the window was moved there, however
\* clipping and overlap mix the copied with the changed.  Lost are only points
\* of a window that came with nothing recorded: wholly from outside the screen,
\* or back to where it was at the last extract (UpdateKeeper.cpp:75-131,
\* UpdateFilter.cpp:57-69, UpdateHandlerServer.cpp:55-74).
NothingLost ==
  \A p \in Screen : picture[p] # pixels[p] => p \in changed \cup brought \cup missed
=============================================================================
