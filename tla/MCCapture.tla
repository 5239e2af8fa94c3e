----------------------------- MODULE MCCapture -----------------------------
(***************************************************************************)
(* Small instances of what turns a changing screen into frames: the        *)
(* pipeline of detector threads, the keeper and the filter of rectangles   *)
(* in it.  They share no state; a behaviour is one of the instance that    *)
(* `subject' names, with the others as they were made.  The pipeline is    *)
(* checked in three parts: "threads", all three detectors without a        *)
(* window's move; "moves", two detectors and moves, whether or not the     *)
(* screen can be grabbed; "early", two detectors that may report before    *)
(* their handler is made.                                                  *)
(***************************************************************************)
EXTENDS UpdatePipeline, UpdateKeeper, UpdateFilter, TLC

CONSTANTS a1, a2, cursor, shape

VARIABLE subject

\* The mirror detector and both cursor detectors, and two areas between which
\* windows are moved.
TwoAreas == {a1, a2}
TwoCursors == {cursor, shape}
BothWays == {<<a1, a2>>, <<a2, a1>>}

\* The pipeline treats areas alike.
Symmetry == Permutations(TwoAreas)

\* The detectors at work.
Working == IF subject = "threads" THEN Threads ELSE {Mirror, cursor}

-----------------------------------------------------------------------------
(* A screen for the keeper, and a window that may be anywhere on it, partly *)
(* on it or beside it.                                                      *)

Square == Rect(0, 0, 2, 2)

PaintsOf(b) ==
  {r \in [left : b.left .. b.right - 1, top : b.top .. b.bottom - 1,
          right : b.left + 1 .. b.right, bottom : b.top + 1 .. b.bottom] : ~RectIsEmpty(r)}

PlacesOf(b, w, h) ==
  {Rect(x, y, x + w, y + h) : x \in b.left - w .. b.right, y \in b.top - 1 .. b.bottom - 1}

SquarePaints == {r \in PaintsOf(Square) : Cardinality(Points(r)) # 2}
SquarePlaces == PlacesOf(Square, 1, 2)

-----------------------------------------------------------------------------
(* Screens for the filter, with every difference they can have.  Blocks    *)
(* are of four points, so that the scan skips a row.  Reports are          *)
(* rectangles up to the whole, and regions of more than one.               *)

\* Three blocks in a row, the last one cut off; two rows of blocks; a row of
\* two blocks that has more than one line.
Long == Rect(0, 0, 9, 1)
Tall == Rect(0, 0, 2, 6)
Wide == Rect(0, 0, 5, 2)

Pictures == {Long, Tall, Wide}
PictureReports ==
  {Points(Long), Points(Long) \ {<<3, 0>>},
   Points(Tall), Points(Rect(0, 1, 2, 6)), Points(Tall) \ Points(Rect(0, 3, 1, 5)),
   Points(Wide), Points(Rect(0, 0, 2, 2)) \cup Points(Rect(1, 1, 5, 2))}

-----------------------------------------------------------------------------
captureVars == <<subject, vars, keeperVars, filterVars>>
notPipeline == <<subject, keeperVars, filterVars>>
notKeeper == <<subject, vars, filterVars>>
notFilter == <<subject, vars, keeperVars>>

PipelineIdle == Init /\ ~mapped

KeeperIdle ==
  /\ KeeperInit
  /\ pixels = [p \in Screen |-> CHOOSE c \in Colours : TRUE]
  /\ win = CHOOSE r \in Places : TRUE

FilterIdle ==
  /\ buffer \in Dimensions /\ buffer = CHOOSE d \in Dimensions : TRUE
  /\ diff = {} /\ toCheck = {} /\ found = {}

Pipelines == {"threads", "moves", "early"}

CaptureInit ==
  /\ subject \in Pipelines \cup {"keeper", "filter"}
  /\ IF subject \in Pipelines THEN Init /\ (mapped \/ subject = "moves") ELSE PipelineIdle
  /\ IF subject = "keeper" THEN KeeperInit ELSE KeeperIdle
  /\ IF subject = "filter" THEN FilterInit ELSE FilterIdle

\* A detector reports: its handler is made, or need not be.
Reporting ==
  /\ subject = "early" \/ stage = "stored"
  /\ FollowRing \/ \E t \in Working \ {Mirror} : CursorChanged(t)

\* No window was moved, or one may have been.
Moving == subject = "moves" \/ \A t \in Threads : moved'[t] = None

\* The actions one by one, each after the test of the subject: TLC evaluates
\* them faster so.
CaptureNext ==
  \/ subject \in Pipelines /\ Alive /\ Construct /\ UNCHANGED notPipeline
  \/ \E a \in Areas : subject \in Pipelines /\ Alive /\ Paint(a) /\ UNCHANGED notPipeline
  \/ subject \in Pipelines /\ Alive /\ Reporting /\ UNCHANGED notPipeline
  \/ \E t \in Threads : /\ subject \in Pipelines /\ Alive /\ Update(t) /\ Moving
                        /\ UNCHANGED notPipeline
  \/ \E t \in Threads : subject = "early" /\ Alive /\ Crash(t) /\ UNCHANGED notPipeline
  \/ \E r \in Paints, c \in Colours : /\ subject = "keeper" /\ AddChangedRect(r, c)
                                      /\ UNCHANGED notKeeper
  \/ \E to \in Places, c \in Colours : /\ subject = "keeper" /\ MoveWindow(to, c)
                                       /\ UNCHANGED notKeeper
  \/ subject = "keeper" /\ SendUpdate /\ UNCHANGED notKeeper
  \/ \E region \in Reports : subject = "filter" /\ FilterRegion(region) /\ UNCHANGED notFilter

CaptureSpec == CaptureInit /\ [][CaptureNext]_captureVars

-----------------------------------------------------------------------------
\* The keeper loses nothing but what it cannot know of (UpdateKeeper.cpp,
\* CopyRectDetector.cpp).
KeeperExact == KeeperTypeOK /\ NothingLost

\* The filter finds every difference, reports little else, and no pixel twice
\* (UpdateFilter.cpp).
FilterExact ==
  /\ [](FilterTypeOK /\ NoDifferenceMissed /\ SentOnce)
  /\ OnlyDifferences
============================================================================
