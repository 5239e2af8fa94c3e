--------------------------- MODULE UpdatePipeline ---------------------------
(***************************************************************************)
(* How a change of the screen becomes a frame (desktop/MirrorScreenDriver, *)
(* CursorPositionDetector, CursorShapeDetector, UpdateHandlerImpl,         *)
(* UpdateFilter; desktip-ipc/UpdateHandlerServer).  The mirror driver logs *)
(* each changed rectangle in a ring; the mirror detector reads the ring    *)
(* into the keeper, the cursor detectors set a flag there, and each of the *)
(* three then runs the whole way on its own thread: extract the keeper,    *)
(* with the move of a window found meanwhile, filter under m_fbLocMut,     *)
(* copy each rectangle out of the back buffer without the mutex, and give  *)
(* it to the frame thread.                                                 *)
(*                                                                         *)
(* The screen is a set of areas; the content of an area is a number, the   *)
(* times it was painted, and areas with the same number look alike.  A     *)
(* frame is the content its upper and its lower half were copied with.     *)
(* UpdateKeeper and UpdateFilter model what is one step here at the level  *)
(* of points.  The cursor's own frames, which follow, show no area.        *)
(***************************************************************************)
EXTENDS Integers, FiniteSets

CONSTANTS
  Areas,        \* the areas of the screen
  WindowMoves,  \* pairs of areas a window may be moved between
  Mirror,       \* the mirror driver's detector thread
  Cursors,      \* the threads of the cursor position and shape detectors
  RingSize,     \* MAXCHANGES_BUF
  MaxPaint,     \* bound: paints of one area
  None          \* no area and no move

ASSUME PipelineAssumption ==
  /\ IsFiniteSet(Areas) /\ Areas # {}
  /\ WindowMoves \subseteq Areas \X Areas
  /\ Mirror \notin Cursors
  /\ RingSize \in Nat /\ RingSize > 1
  /\ MaxPaint \in Nat \ {0}
  /\ None \notin Areas \cup WindowMoves

Threads == Cursors \cup {Mirror}
Content == 0 .. MaxPaint

VARIABLES
  mapped,       \* the driver's buffers are mapped into the process
  screen,       \* the content of each area
  ring,         \* CHANGES_BUF::pointrect
  counter,      \* CHANGES_BUF::counter, where the driver writes next
  lastCounter,  \* MirrorScreenDriver::m_lastCounter
  keeper,       \* the changed region of m_updateKeeper
  flag,         \* a cursor flag of m_updateKeeper
  absolute,     \* m_absoluteRect is not empty
  stage,        \* how far the constructors of the update handler are
  fb,           \* m_backupFrameBuffer
  pc,           \* where each detector thread is
  upd,          \* changedRegion of the thread's UpdateContainer
  moved,        \* copySrc and copiedRegion of it: a window's move, or None
  at,           \* the area whose rectangle the thread copies
  frame,        \* the frame it copies it to
  told,         \* ghost: the constructor has put the screen in the keeper
  last,         \* ghost: the last frame of each area in the frame list
  best,         \* ghost: the newest whole content sent of each area
  shared,       \* ghost: areas in the thread's container that were in
                \* another's at the same time
  alone         \* ghost: areas whose last frame is of a thread that did not
                \* share them

vars == <<mapped, screen, ring, counter, lastCounter, keeper, flag, absolute,
          stage, fb, pc, upd, moved, at, frame, told, last, best, shared, alone>>
display   == <<mapped, screen, ring, counter>>
detected  == <<lastCounter, keeper, flag>>
handler   == <<fb, absolute, stage, told>>
container == <<upd, moved, shared>>
copying   == <<at, frame>>
sent      == <<last, best, alone>>

Init ==
  /\ mapped \in BOOLEAN
  /\ screen = [a \in Areas |-> 1]
  /\ ring = [i \in 0 .. RingSize - 1 |-> None]
  /\ counter = 0 /\ lastCounter = 0
  /\ keeper = {} /\ flag = FALSE
  /\ absolute = FALSE
  /\ stage = "started" /\ told = FALSE
  /\ fb = [a \in Areas |-> 0]
  /\ pc = [t \in Threads |-> "idle"]
  /\ upd = [t \in Threads |-> {}]
  /\ moved = [t \in Threads |-> None]
  /\ at = [t \in Threads |-> None]
  /\ frame = [t \in Threads |-> <<0, 0>>]
  /\ last = [a \in Areas |-> <<0, 0>>]
  /\ best = [a \in Areas |-> 0]
  /\ shared = [t \in Threads |-> {}]
  /\ alone = {}

----------------------------------------------------------------------------
(***************************************************************************)
(* The constructors.  UpdateHandlerImpl starts the detectors, then asks    *)
(* for the first full update in two steps; UpdateHandlerServer stores the  *)
(* pointer to it last.                                                     *)
(***************************************************************************)
SetAbsoluteRect ==
  /\ stage = "started"
  /\ absolute' = TRUE
  /\ stage' = "absolute"
  /\ UNCHANGED <<display, detected, fb, told, pc, container, copying, sent>>

\* Mutant: the constructor does not add the whole screen to the keeper.
FirstRegionMutant == {}

FirstRegion == Areas

\* m_absoluteRect is what the constructor adds, and a detector that reported
\* early may have cleared it.
AddFirstRect ==
  /\ stage = "absolute"
  /\ keeper' = IF absolute THEN keeper \cup FirstRegion ELSE keeper
  /\ told' = absolute
  /\ stage' = "added"
  /\ UNCHANGED <<display, lastCounter, flag, fb, absolute, pc, container, copying,
                 sent>>

StoreHandler ==
  /\ stage = "added"
  /\ stage' = "stored"
  /\ UNCHANGED <<display, detected, fb, absolute, told, pc, container, copying, sent>>

(***************************************************************************)
(* The display driver writes the pixels and logs the rectangle.  A whole   *)
(* lap of the ring between two looks at it would be lost: the driver is    *)
(* taken to be slower than that (20000 rectangles in 200 milliseconds).    *)
(***************************************************************************)
After(i) == IF i + 1 = RingSize THEN 0 ELSE i + 1

\* The indices from m_lastCounter up to the counter, round the ring.
Unread ==
  {i \in 0 .. RingSize - 1 :
     IF lastCounter <= counter THEN lastCounter <= i /\ i < counter
     ELSE lastCounter <= i \/ i < counter}

Pending == {ring[i] : i \in Unread}

Paint(a) ==
  /\ screen[a] < MaxPaint
  /\ After(counter) # lastCounter
  /\ screen' = [screen EXCEPT ![a] = @ + 1]
  /\ ring' = [ring EXCEPT ![counter] = a]
  /\ counter' = After(counter)
  /\ UNCHANGED <<mapped, detected, handler, pc, container, copying, sent>>

Goto(t, where) == pc' = [pc EXCEPT ![t] = where]

\* MirrorScreenDriver::execute: the ring is read under m_fbMutex, if there is
\* one.
\* Mutant: the rectangle at changesBuf->counter is read as well.
ReadRingPastMutant ==
  {ring[i] : i \in Unread \cup {counter}}

ReadRing == Pending

FollowRing ==
  /\ pc[Mirror] = "idle"
  /\ mapped /\ lastCounter # counter
  /\ keeper' = keeper \cup ReadRing
  /\ lastCounter' = counter
  /\ Goto(Mirror, "check")
  /\ UNCHANGED <<display, flag, handler, container, copying, sent>>

\* CursorPositionDetector::execute and CursorShapeDetector::execute.
CursorChanged(t) ==
  /\ pc[t] = "idle"
  /\ flag' = TRUE
  /\ Goto(t, "check")
  /\ UNCHANGED <<display, lastCounter, keeper, handler, container, copying, sent>>

\* UpdateHandlerImpl::onUpdate: another thread may have taken everything.
OnUpdate(t) ==
  /\ pc[t] = "check"
  /\ Goto(t, IF keeper = {} /\ ~flag THEN "idle" ELSE "extract")
  /\ UNCHANGED <<display, detected, handler, container, copying, sent>>

(***************************************************************************)
(* UpdateHandlerServer::onUpdate calls extract through m_updateHandler.    *)
(* Until the constructor has stored it, what the member holds decides:     *)
(* nothing usable, or the address of an earlier handler, at which this one *)
(* is being made.                                                          *)
(***************************************************************************)
Crash(t) ==
  /\ pc[t] = "extract" /\ stage # "stored"
  /\ Goto(t, "crashed")
  /\ UNCHANGED <<display, detected, handler, container, copying, sent>>

\* The area a window was moved to, and all areas of a container.
MovedTo(m) == IF m = None THEN {} ELSE {m[2]}
Held(t) == upd[t] \cup MovedTo(moved[t])

\* What addCopyRect leaves changed: a window's new place is read there
\* again if its old one has changes.
CarriedAlong(m) ==
  LET left == keeper \ MovedTo(m)
  IN  IF m # None /\ m[1] \in left THEN left \cup {m[2]} ELSE left

\* The thread's container gets these areas; who else holds one shares it.
SharedBy(t, areas) ==
  [u \in Threads |-> shared[u] \cup
     {a \in areas : IF u = t THEN \E w \in Threads \ {t} : a \in Held(w)
                    ELSE a \in Held(u)}]

Extract(t) ==
  \E m \in WindowMoves \cup {None} :
    /\ pc[t] = "extract"
    /\ upd' = [upd EXCEPT ![t] = CarriedAlong(m)]
    /\ moved' = [moved EXCEPT ![t] = m]
    /\ shared' = SharedBy(t, CarriedAlong(m) \cup MovedTo(m))
    /\ keeper' = {} /\ flag' = FALSE
    /\ Goto(t, "filter")
    /\ UNCHANGED <<display, lastCounter, handler, copying, sent>>

(***************************************************************************)
(* UpdateFilter::filter, all of it under m_fbLocMut.  The move of the      *)
(* window is repeated in the back buffer; then, unless the screen cannot   *)
(* be grabbed, what differs from the screen is what remains changed, and   *)
(* is copied to the back buffer.                                           *)
(***************************************************************************)
WithMove(m) == IF m = None THEN fb ELSE [fb EXCEPT ![m[2]] = fb[m[1]]]

\* Mutant: what was moved is not compared with the screen.
ToCheckMutant(t) == upd[t]

ToCheck(t) == Held(t)

Differs(region, buffer) == {a \in region : buffer[a] # screen[a]}

Filter(t) ==
  LET buffer == WithMove(moved[t])
      differs == Differs(ToCheck(t), buffer)
  IN  /\ pc[t] = "filter"
      /\ IF mapped
         THEN /\ upd' = [upd EXCEPT ![t] = differs]
              /\ fb' = [a \in Areas |-> IF a \in differs THEN screen[a] ELSE buffer[a]]
         ELSE fb' = buffer /\ UNCHANGED upd
      /\ shared' = [shared EXCEPT ![t] = @ \cap (upd'[t] \cup MovedTo(moved[t]))]
      /\ Goto(t, "whole")
      /\ UNCHANGED <<display, detected, absolute, stage, told, moved, copying, sent>>

(***************************************************************************)
(* The rest of UpdateHandlerImpl::extract: while m_absoluteRect is not     *)
(* empty everything is sent.  No mutex guards the test and the clearing.   *)
(***************************************************************************)
\* Where a thread goes on with a container of these areas.
Onwards(areas) == IF areas = {} THEN "idle" ELSE "copy"

TestAbsolute(t) ==
  /\ pc[t] = "whole"
  /\ IF absolute
     THEN /\ upd' = [upd EXCEPT ![t] = Areas]
          /\ shared' = SharedBy(t, Areas)
          /\ Goto(t, "clear")
     ELSE Goto(t, Onwards(Held(t))) /\ UNCHANGED <<upd, shared>>
  /\ UNCHANGED <<display, detected, handler, moved, copying, sent>>

ClearAbsolute(t) ==
  /\ pc[t] = "clear"
  /\ absolute' = FALSE
  /\ Goto(t, "copy")
  /\ UNCHANGED <<display, detected, fb, stage, told, container, copying, sent>>

(***************************************************************************)
(* UpdateHandlerServer::onUpdate: one rectangle after the other, those of  *)
(* changedRegion and then that of copiedRegion, is copied from the back    *)
(* buffer, without the mutex, and added to the frames.                     *)
(***************************************************************************)
\* Mutant: the driver's buffer is copied from.
BackBufferMutant(a) == screen[a]

BackBuffer(a) == fb[a]

\* The rectangles of the loop the thread is in.
InTurn(t) == IF upd[t] # {} THEN upd[t] ELSE MovedTo(moved[t])

CopyUpper(t, a) ==
  /\ pc[t] = "copy"
  /\ a \in InTurn(t)
  /\ at' = [at EXCEPT ![t] = a]
  /\ frame' = [frame EXCEPT ![t] = <<BackBuffer(a), 0>>]
  /\ Goto(t, "copying")
  /\ UNCHANGED <<display, detected, handler, container, sent>>

CopyLower(t) ==
  /\ pc[t] = "copying"
  /\ frame' = [frame EXCEPT ![t] = <<@[1], BackBuffer(at[t])>>]
  /\ Goto(t, "add")
  /\ UNCHANGED <<display, detected, handler, container, at, sent>>

Newest(a, f) == IF f[1] = f[2] /\ f[1] > best[a] THEN f[1] ELSE best[a]

AddServerFrame(t) ==
  LET a == at[t]
      rest == upd[t] \ {a}
      move == IF upd[t] = {} THEN None ELSE moved[t]
      left == rest \cup MovedTo(move)
  IN  /\ pc[t] = "add"
      /\ last' = [last EXCEPT ![a] = frame[t]]
      /\ best' = [best EXCEPT ![a] = Newest(a, frame[t])]
      /\ alone' = IF a \in shared[t] THEN alone \ {a} ELSE alone \cup {a}
      /\ upd' = [upd EXCEPT ![t] = rest]
      /\ moved' = [moved EXCEPT ![t] = move]
      /\ shared' = [shared EXCEPT ![t] = @ \cap left]
      /\ at' = [at EXCEPT ![t] = None]
      /\ frame' = [frame EXCEPT ![t] = <<0, 0>>]
      /\ Goto(t, Onwards(left))
      /\ UNCHANGED <<display, detected, handler>>

Construct == SetAbsoluteRect \/ AddFirstRect \/ StoreHandler

Detect == FollowRing \/ \E t \in Cursors : CursorChanged(t)

Update(t) ==
  \/ OnUpdate(t) \/ Extract(t) \/ Filter(t)
  \/ TestAbsolute(t) \/ ClearAbsolute(t)
  \/ \E a \in Areas : CopyUpper(t, a)
  \/ CopyLower(t) \/ AddServerFrame(t)

\* No thread has taken the client down.
Alive == \A t \in Threads : pc[t] # "crashed"

Next ==
  /\ Alive
  /\ \/ Construct
     \/ \E a \in Areas : Paint(a)
     \/ Detect
     \/ \E t \in Threads : Update(t) \/ Crash(t)

Spec == Init /\ [][Next]_vars

----------------------------------------------------------------------------
TypeOK ==
  /\ mapped \in BOOLEAN
  /\ screen \in [Areas -> Content] /\ fb \in [Areas -> Content]
  /\ counter \in 0 .. RingSize - 1 /\ lastCounter \in 0 .. RingSize - 1
  /\ ring \in [0 .. RingSize - 1 -> Areas \cup {None}]
  /\ Pending \subseteq Areas
  /\ keeper \subseteq Areas /\ flag \in BOOLEAN /\ absolute \in BOOLEAN
  /\ stage \in {"started", "absolute", "added", "stored"} /\ told \in BOOLEAN
  /\ pc \in [Threads -> {"idle", "check", "extract", "crashed", "filter", "whole",
                         "clear", "copy", "copying", "add"}]
  /\ upd \in [Threads -> SUBSET Areas]
  /\ moved \in [Threads -> WindowMoves \cup {None}]
  /\ at \in [Threads -> Areas \cup {None}]
  /\ frame \in [Threads -> Content \X Content]
  /\ \A t \in Threads :
       /\ pc[t] \notin {"copying", "add"} => at[t] = None
       /\ pc[t] \in {"copying", "add"} => at[t] \in InTurn(t)
       /\ pc[t] \in {"clear", "copy"} => Held(t) # {}
       /\ pc[t] \in {"idle", "check", "extract"} => Held(t) = {}
       /\ shared[t] \subseteq Held(t)
  /\ last \in [Areas -> Content \X Content] /\ best \in [Areas -> Content]
  /\ shared \in [Threads -> SUBSET Areas] /\ alone \subseteq Areas

\* A change is in the ring, in the keeper, or in the container of a thread.
OnItsWay(a) ==
  a \in Pending \cup keeper \cup UNION {Held(t) : t \in Threads}

\* Nobody has told the keeper of the area: it has not been painted, and the
\* constructor has not added it, or found m_absoluteRect cleared already.
Untold(a) == screen[a] = 1 /\ ~told

\* While the screen can be grabbed, a content of it that no frame has shown
\* whole is on its way, whatever the threads do to each other's containers, to
\* m_absoluteRect and to the back buffer, whatever windows are moved, and
\* also when a detector reports before its handler is made
\* (UpdateHandlerImpl.cpp:56-82, UpdateHandlerServer.cpp:45-74).
ChangeOnItsWay ==
  mapped => \A a \in Areas :
    best[a] # screen[a] => OnItsWay(a) \/ Untold(a)

\* What goes wrong between the detector threads needs two of them with the same
\* area in their containers at once.  A frame that a thread sent without
\* sharing the area is of one moment, and when the changes of the area have
\* all been handed over it shows the screen: a viewer that draws the frames
\* in order ends with the screen there (UpdateHandlerServer.cpp:60-61).
UnsharedInStep ==
  \A a \in alone :
    /\ last[a][1] = last[a][2]
    /\ mapped => \/ OnItsWay(a) \/ Untold(a)
                 \/ last[a] = <<screen[a], screen[a]>>

\* Whatever is painted is sent: the screen's content, or a newer one, comes
\* into a whole frame.  What the screen showed before is sent as soon as a
\* detector reports to the finished handler; nothing else makes it do so
\* (MirrorScreenDriver.cpp:159-194, UpdateHandlerImpl.cpp:43-46).
PaintIsSent ==
  mapped =>
    \A a \in Areas :
      /\ \A v \in 2 .. MaxPaint : screen[a] = v ~> best[a] >= v \/ ~Alive
      /\ (stage = "stored" /\ told /\ \E t \in Threads : pc[t] = "check")
           ~> best[a] >= 1
============================================================================
