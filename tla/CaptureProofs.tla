---------------------------- MODULE CaptureProofs ----------------------------
(***************************************************************************)
(* Proofs about what turns a changing screen into frames.                  *)
(*                                                                         *)
(* UpdatePipeline, for any number of areas, threads and paints, any moves  *)
(* of windows and any size of the ring.  ChangeOnItsWay is not inductive:  *)
(* it does not say why an area whose back buffer is up to date, but whose  *)
(* content no frame shows, is still sent.  The invariant follows a content *)
(* through its two stages.  Until it is in the back buffer, it is in the   *)
(* ring, in the keeper, or with a thread that has yet to filter            *)
(* (NotFiltered).  From then on a thread carries it: the area is in its    *)
(* container and what it has copied of the area so far is that content     *)
(* (NotSent), so adding the frame shows it whole.  UnsharedInStep holds    *)
(* because a thread's filter writes only what it then holds, and what two  *)
(* threads hold at once is shared (Lone).                                  *)
(*                                                                         *)
(* UpdateKeeper: no difference between the frames and the screen is lost   *)
(* but those nobody reported, for any screen, paints and places of the     *)
(* window.  The fact about rectangles it needs is ClipIs: addCopyRect's    *)
(* two clippings and two corrections leave the points of the moved window  *)
(* that are on the screen and were on it before the move.                  *)
(*                                                                         *)
(* UpdateFilter: what it reports is exact, for any screen, difference,     *)
(* region and size of a block.  Exact is proved of each function of the    *)
(* filter, from the smallest rectangle to the whole region.                *)
(***************************************************************************)
EXTENDS MCCapture, WellFoundedInduction, TLAPS

-----------------------------------------------------------------------------
(* The pipeline.                                                           *)

\* The thread has filtered its container, and has not finished sending it.
Sending(t) == pc[t] \in {"whole", "clear", "copy", "copying", "add"}

\* What the thread has copied of the area so far is what the back buffer has.
Copied(t, a) ==
  at[t] = a => /\ frame[t][1] = fb[a]
               /\ pc[t] = "add" => frame[t][2] = fb[a]

Carries(t, a) == a \in Held(t) /\ Sending(t) /\ Copied(t, a)

NotFiltered ==
  \A a \in Areas : fb[a] # screen[a] =>
    \/ Untold(a)
    \/ a \in Pending \cup keeper
    \/ \E t \in Threads : pc[t] = "filter" /\ a \in Held(t)

NotSent ==
  \A a \in Areas : best[a] # screen[a] /\ fb[a] = screen[a] =>
    \E t \in Threads : Carries(t, a)

Bounded ==
  /\ \A a \in Areas : fb[a] <= screen[a] /\ best[a] <= screen[a]
  /\ \A t \in Threads : at[t] # None =>
       frame[t][1] <= screen[at[t]] /\ frame[t][2] <= screen[at[t]]

\* Of the areas nobody shares.
Apart == \A t, u \in Threads : t # u => Held(t) \cap Held(u) \subseteq shared[t]

CopiedApart ==
  \A t \in Threads : at[t] # None /\ at[t] \notin shared[t] => Copied(t, at[t])

LastIsBuffer ==
  \A a \in alone :
    /\ last[a][1] = last[a][2]
    /\ last[a][1] = fb[a] \/ \E t \in Threads : a \in Held(t) /\ Sending(t)

Lone == Apart /\ CopiedApart /\ LastIsBuffer

IInv ==
  /\ TypeOK /\ Lone
  /\ mapped => NotFiltered /\ NotSent /\ Bounded

----------------------------------------------------------------------------
(***************************************************************************)
(* The ring.                                                               *)
(***************************************************************************)
\* A paint is logged behind what is still to be read, and hides none of it
\* (MirrorScreenDriver.cpp:174-176).
LEMMA PaintPending ==
  ASSUME TypeOK, NEW a \in Areas, Paint(a)
  PROVE  Pending' = Pending \cup {a}
<1> USE PipelineAssumption
<1>1. counter \in 0 .. RingSize - 1 /\ lastCounter \in 0 .. RingSize - 1
  BY DEF TypeOK
<1>2. counter' = After(counter) /\ After(counter) # lastCounter
      /\ lastCounter' = lastCounter
  BY DEF Paint, detected
<1>3. Unread' = Unread \cup {counter}
  BY <1>1, <1>2 DEF Unread, After
<1>4. counter \notin Unread
  BY <1>1 DEF Unread
<1>5. ring' = [ring EXCEPT ![counter] = a]
      /\ ring \in [0 .. RingSize - 1 -> Areas \cup {None}]
  BY DEF Paint, TypeOK
<1>6. \A i \in Unread : ring'[i] = ring[i]
  BY <1>4, <1>5 DEF Unread
<1>7. ring'[counter] = a
  BY <1>1, <1>5
<1>. QED
  BY <1>3, <1>6, <1>7 DEF Pending

\* Nothing is left to read when m_lastCounter has caught up.
LEMMA CaughtUp ==
  ASSUME lastCounter = counter, counter \in Int
  PROVE  Pending = {}
BY DEF Pending, Unread

LEMMA SamePending ==
  ASSUME UNCHANGED <<ring, counter, lastCounter>>
  PROVE  Pending' = Pending
BY DEF Pending, Unread

----------------------------------------------------------------------------
(***************************************************************************)
(* Containers.                                                             *)
(***************************************************************************)
LEMMA MovedToIs ==
  ASSUME NEW m \in WindowMoves \cup {None}
  PROVE  MovedTo(m) \subseteq Areas
BY PipelineAssumption DEF MovedTo

LEMMA HeldAreas ==
  ASSUME TypeOK, NEW t \in Threads
  PROVE  Held(t) \subseteq Areas /\ InTurn(t) \subseteq Held(t)
BY MovedToIs DEF TypeOK, Held, InTurn

LEMMA SameHeld ==
  ASSUME NEW t \in Threads, upd'[t] = upd[t], moved'[t] = moved[t]
  PROVE  Held(t)' = Held(t) /\ InTurn(t)' = InTurn(t)
BY DEF Held, InTurn

\* What a thread does leaves the others where they are.
Others(t) ==
  \A u \in Threads \ {t} :
    /\ pc'[u] = pc[u] /\ upd'[u] = upd[u] /\ moved'[u] = moved[u]
    /\ at'[u] = at[u] /\ frame'[u] = frame[u]

LEMMA OthersStay ==
  ASSUME TypeOK, NEW t \in Threads,
         \/ t = Mirror /\ FollowRing
         \/ CursorChanged(t) \/ Crash(t) \/ Update(t)
  PROVE  Others(t)
<1>1. CASE (t = Mirror /\ FollowRing) \/ CursorChanged(t) \/ Crash(t) \/ OnUpdate(t)
  BY <1>1 DEF TypeOK, Others, FollowRing, CursorChanged, Crash, OnUpdate, Goto, container,
     copying
<1>2. CASE Extract(t) \/ Filter(t)
  BY <1>2 DEF TypeOK, Others, Extract, Filter, Goto, copying
<1>3. CASE TestAbsolute(t) \/ ClearAbsolute(t)
  BY <1>3 DEF TypeOK, Others, TestAbsolute, ClearAbsolute, Goto, container, copying
<1>4. CASE (\E a \in Areas : CopyUpper(t, a)) \/ CopyLower(t)
  BY <1>4 DEF TypeOK, Others, CopyUpper, CopyLower, Goto, container
<1>5. CASE AddServerFrame(t)
  BY <1>5 DEF TypeOK, Others, AddServerFrame, Goto
<1>. QED  BY <1>1, <1>2, <1>3, <1>4, <1>5 DEF Update

\* What extract takes, and the move it adds, covers what was in the keeper.
LEMMA ExtractCovers ==
  ASSUME TypeOK, NEW m \in WindowMoves \cup {None}
  PROVE  /\ CarriedAlong(m) \subseteq Areas
         /\ keeper \subseteq CarriedAlong(m) \cup MovedTo(m)
<1>1. m # None => m[2] \in Areas
  BY PipelineAssumption
<1>2. keeper \subseteq Areas
  BY DEF TypeOK
<1>3. CASE m = None
  BY <1>2, <1>3 DEF CarriedAlong, MovedTo
<1>4. CASE m # None
  BY <1>1, <1>2, <1>4 DEF CarriedAlong, MovedTo
<1>. QED  BY <1>3, <1>4

\* The filter writes an area of its container only, and what it changed in the
\* back buffer stays in the container; where the screen can be grabbed, all of
\* the container is then in the back buffer.
LEMMA FilterIs ==
  ASSUME TypeOK, NEW t \in Threads, Filter(t)
  PROVE  /\ fb' \in [Areas -> Content]
         /\ upd'[t] \subseteq Areas
         /\ Held(t)' \subseteq Held(t)
         /\ \A a \in Areas : fb'[a] # fb[a] => a \in Held(t)'
         /\ mapped => \A a \in Areas :
              /\ fb'[a] = (IF a \in Held(t) THEN screen[a] ELSE fb[a])
              /\ a \in Held(t) /\ fb[a] # screen[a] => a \in Held(t)'
<1> DEFINE m == moved[t]
           back == WithMove(m)
           differs == Differs(ToCheck(t), back)
<1>1. /\ m \in WindowMoves \cup {None}
      /\ m # None => (m[1] \in Areas /\ m[2] \in Areas)
      /\ screen \in [Areas -> Content] /\ fb \in [Areas -> Content]
      /\ upd \in [Threads -> SUBSET Areas]
  BY PipelineAssumption DEF TypeOK
<1>2. /\ back \in [Areas -> Content]
      /\ \A a \in Areas : back[a] # fb[a] => a \in MovedTo(m)
  <2>. HIDE DEF m
  <2>1. CASE m = None
    BY <1>1, <2>1 DEF WithMove
  <2>2. CASE m # None
    <3>1. PICK s \in Areas, d \in Areas : s = m[1] /\ d = m[2]
      BY <1>1, <2>2
    <3>2. back = [fb EXCEPT ![d] = fb[s]] /\ MovedTo(m) = {d}
      BY <2>2, <3>1 DEF WithMove, MovedTo
    <3>. QED  BY <1>1, <3>2
  <2>. QED  BY <2>1, <2>2
<1>3. Held(t) \subseteq Areas /\ MovedTo(m) \subseteq Held(t)
  BY HeldAreas DEF Held
<1>4. moved' = moved
  BY DEF Filter
<1>5. differs = {a \in Held(t) : back[a] # screen[a]}
  BY DEF Differs, ToCheck
<1>. HIDE DEF back, differs, m
<1>6. CASE mapped
  <2>1. /\ upd' = [upd EXCEPT ![t] = differs]
        /\ fb' = [a \in Areas |-> IF a \in differs THEN screen[a] ELSE back[a]]
    BY <1>6 DEF Filter, back, differs, m
  <2>2. Held(t)' = differs \cup MovedTo(m)
    BY <1>1, <1>4, <2>1 DEF Held, m
  <2>. QED  BY <1>1, <1>2, <1>3, <1>5, <2>1, <2>2
<1>7. CASE ~mapped
  <2>1. upd' = upd /\ fb' = back
    BY <1>7 DEF Filter, back, m
  <2>2. Held(t)' = Held(t)
    BY <1>4, <2>1, SameHeld
  <2>. QED  BY <1>1, <1>2, <1>3, <1>7, <2>1, <2>2
<1>. QED  BY <1>6, <1>7

\* The thread goes on with the rest of its container, or is done.
LEMMA SentIs ==
  ASSUME TypeOK, NEW t \in Threads, AddServerFrame(t)
  PROVE  /\ at[t] \in Held(t)
         /\ upd'[t] \subseteq Areas /\ moved'[t] \in WindowMoves \cup {None}
         /\ Held(t)' \subseteq Held(t) /\ Held(t) \ {at[t]} \subseteq Held(t)'
         /\ pc'[t] = Onwards(Held(t)')
         /\ shared'[t] = shared[t] \cap Held(t)'
         /\ at'[t] = None /\ frame'[t] = <<0, 0>>
<1> DEFINE a == at[t]
           rest == upd[t] \ {a}
           move == IF upd[t] = {} THEN None ELSE moved[t]
<1>1. pc[t] = "add" /\ a \in InTurn(t) /\ a \in Held(t)
  BY HeldAreas DEF AddServerFrame, TypeOK
<1>2. /\ upd'[t] = rest /\ moved'[t] = move
      /\ pc'[t] = Onwards(rest \cup MovedTo(move))
      /\ shared'[t] = shared[t] \cap (rest \cup MovedTo(move))
      /\ at'[t] = None /\ frame'[t] = <<0, 0>>
  BY DEF AddServerFrame, Goto, TypeOK
<1>3. Held(t)' = rest \cup MovedTo(move)
  BY <1>2 DEF Held
<1>4. rest \cup MovedTo(move) \subseteq Held(t)
  BY DEF Held, MovedTo
<1>5. Held(t) \ {a} \subseteq rest \cup MovedTo(move)
  BY <1>1 DEF Held, MovedTo, InTurn
<1>6. upd[t] \subseteq Areas /\ moved[t] \in WindowMoves \cup {None}
  BY DEF TypeOK
<1>. QED  BY <1>1, <1>2, <1>3, <1>4, <1>5, <1>6

----------------------------------------------------------------------------
(***************************************************************************)
(* The start, and the types.                                               *)
(***************************************************************************)
LEMMA InitIInv == Init => IInv
<1> SUFFICES ASSUME Init PROVE IInv
  OBVIOUS
<1> USE PipelineAssumption
<1>1. Pending = {}
  BY CaughtUp DEF Init
<1>2. /\ 0 \in Content /\ 1 \in Content /\ <<0, 0>> \in Content \X Content
      /\ Mirror \in Threads
  BY DEF Content, Threads
<1>3. \A t \in Threads : Held(t) = {}
  BY DEF Init, Held, MovedTo
<1>4. TypeOK
  <2>1. /\ frame \in [Threads -> Content \X Content]
        /\ last \in [Areas -> Content \X Content]
    BY <1>2 DEF Init
  <2>2. /\ screen \in [Areas -> Content] /\ fb \in [Areas -> Content]
        /\ best \in [Areas -> Content]
    BY <1>2 DEF Init
  <2>3. /\ ring \in [0 .. RingSize - 1 -> Areas \cup {None}]
        /\ counter \in 0 .. RingSize - 1 /\ lastCounter \in 0 .. RingSize - 1
    BY DEF Init
  <2>. QED
    BY <1>1, <1>3, <2>1, <2>2, <2>3 DEF Init, TypeOK
<1>5. Lone
  BY <1>3 DEF Init, Lone, Apart, CopiedApart, LastIsBuffer
<1>6. NotFiltered
  BY DEF Init, NotFiltered, Untold
<1>7. NotSent
  BY DEF Init, NotSent
<1>8. Bounded
  BY DEF Init, Bounded
<1>. QED
  BY <1>4, <1>5, <1>6, <1>7, <1>8 DEF IInv

\* Of TypeOK, what says where the threads are.
Placed(t) ==
  /\ pc[t] \notin {"copying", "add"} => at[t] = None
  /\ pc[t] \in {"copying", "add"} => at[t] \in InTurn(t)
  /\ pc[t] \in {"clear", "copy"} => Held(t) # {}
  /\ pc[t] \in {"idle", "check", "extract"} => Held(t) = {}
  /\ shared[t] \subseteq Held(t)

\* A thread whose variables stay, and whose shared areas are still of its
\* container, stays well placed.
LEMMA StaysPlaced ==
  ASSUME NEW t \in Threads, Placed(t), pc'[t] = pc[t], upd'[t] = upd[t],
         moved'[t] = moved[t], at'[t] = at[t], shared'[t] \subseteq Held(t)
  PROVE  Placed(t)'
BY SameHeld DEF Placed

\* What is new in a thread's share is in its container.
LEMMA SharedByHeld ==
  ASSUME NEW t \in Threads, NEW areas, shared' = SharedBy(t, areas),
         NEW u \in Threads
  PROVE  /\ shared'[u] \subseteq shared[u] \cup areas
         /\ u # t => shared'[u] = shared[u] \cup (areas \cap Held(u))
BY DEF SharedBy

LEMMA SharedByType ==
  ASSUME TypeOK, NEW t \in Threads, NEW areas \in SUBSET Areas,
         shared' = SharedBy(t, areas)
  PROVE  shared' \in [Threads -> SUBSET Areas]
BY DEF TypeOK, SharedBy

LEMMA TypeStep == TypeOK /\ [Next]_vars => TypeOK'
<1> SUFFICES ASSUME TypeOK, [Next]_vars PROVE TypeOK'
  OBVIOUS
<1> USE PipelineAssumption
<1>0. \A t \in Threads : Placed(t)
  BY DEF TypeOK, Placed
<1>1. CASE Construct \/ UNCHANGED vars
  <2>1. Pending' = Pending
    BY <1>1, SamePending DEF Construct, SetAbsoluteRect, AddFirstRect,
       StoreHandler, display, detected, vars
  <2>2. \A t \in Threads : Placed(t)'
    BY <1>0, <1>1, StaysPlaced DEF Construct, SetAbsoluteRect, AddFirstRect,
       StoreHandler, container, copying, vars, Placed
  <2>3. keeper' \subseteq Areas
    BY <1>1 DEF Construct, SetAbsoluteRect, AddFirstRect, StoreHandler, FirstRegion,
       detected, vars, TypeOK
  <2>. QED
    BY <1>1, <2>1, <2>2, <2>3 DEF Construct, SetAbsoluteRect, AddFirstRect,
       StoreHandler, display, detected, handler, container, copying, sent, vars,
       TypeOK, Placed
<1>2. ASSUME NEW a \in Areas, Paint(a) PROVE TypeOK'
  <2>1. Pending' \subseteq Areas
    BY <1>2, PaintPending DEF TypeOK
  <2>2. \A t \in Threads : Placed(t)'
    BY <1>0, <1>2, StaysPlaced DEF Paint, container, copying, Placed
  <2>3. screen' \in [Areas -> Content]
    BY <1>2 DEF Paint, TypeOK, Content
  <2>4. counter' \in 0 .. RingSize - 1
    BY <1>2 DEF Paint, After, TypeOK
  <2>. QED
    BY <1>2, <2>1, <2>2, <2>3, <2>4 DEF Paint, detected, handler, container,
       copying, sent, TypeOK, Placed
<1>3. CASE FollowRing
  <2>1. Pending' = {}
    BY <1>3, CaughtUp DEF FollowRing, display, TypeOK, Pending, Unread
  <2>2. \A t \in Threads : Placed(t)'
    BY <1>0, <1>3, SameHeld DEF FollowRing, Goto, container, copying, Placed, TypeOK
  <2>3. pc' \in [Threads -> {"idle", "check", "extract", "crashed", "filter", "whole",
                             "clear", "copy", "copying", "add"}]
    BY <1>3 DEF FollowRing, Goto, TypeOK
  <2>. QED
    BY <1>3, <2>1, <2>2, <2>3 DEF FollowRing, ReadRing, display, handler, container,
       copying, sent, TypeOK, Placed
<1>4. ASSUME NEW t \in Threads, CursorChanged(t) \/ Crash(t) \/ OnUpdate(t)
      PROVE  TypeOK'
  <2>1. Pending' = Pending
    BY <1>4, SamePending DEF CursorChanged, Crash, OnUpdate, display, detected
  <2>2. \A u \in Threads : Placed(u)'
    BY <1>0, <1>4, SameHeld DEF CursorChanged, Crash, OnUpdate, Goto, container,
       copying, Placed, TypeOK
  <2>3. pc' \in [Threads -> {"idle", "check", "extract", "crashed", "filter", "whole",
                             "clear", "copy", "copying", "add"}]
    BY <1>4 DEF CursorChanged, Crash, OnUpdate, Goto, TypeOK
  <2>. QED
    BY <1>4, <2>1, <2>2, <2>3 DEF CursorChanged, Crash, OnUpdate, display, detected,
       handler, container, copying, sent, TypeOK, Placed
<1>5. ASSUME NEW t \in Threads, Extract(t) PROVE TypeOK'
  <2>0. PICK m \in WindowMoves \cup {None} :
          /\ upd' = [upd EXCEPT ![t] = CarriedAlong(m)]
          /\ moved' = [moved EXCEPT ![t] = m]
          /\ shared' = SharedBy(t, CarriedAlong(m) \cup MovedTo(m))
    BY <1>5 DEF Extract
  <2>1. Pending' = Pending
    BY <1>5, SamePending DEF Extract, display
  <2>2. CarriedAlong(m) \subseteq Areas /\ MovedTo(m) \subseteq Areas
    BY ExtractCovers, MovedToIs
  <2>3. shared' \in [Threads -> SUBSET Areas]
    BY <2>0, <2>2, SharedByType
  <2>4. Held(t)' = CarriedAlong(m) \cup MovedTo(m)
    BY <2>0 DEF Held, TypeOK
  <2>5. shared[t] = {}
    BY <1>0, <1>5 DEF Placed, Extract
  <2>6. shared'[t] \subseteq Held(t)'
    BY <2>0, <2>4, <2>5, SharedByHeld
  <2>7. Placed(t)'
    BY <1>5, <2>6 DEF Extract, Goto, copying, Placed, TypeOK
  <2>8. \A u \in Threads \ {t} : Placed(u)'
    <3> TAKE u \in Threads \ {t}
    <3>1. Others(t)
      BY <1>5, OthersStay DEF Update
    <3>2. u \in Threads /\ u # t
      OBVIOUS
    <3>3. shared'[u] \subseteq shared[u] \cup Held(u)
      <4> DEFINE new == CarriedAlong(m) \cup MovedTo(m)
      <4>1. shared' = SharedBy(t, new)
        BY <2>0
      <4>. HIDE DEF new
      <4>2. shared'[u] = shared[u] \cup (new \cap Held(u))
        BY <3>2, <4>1, SharedByHeld
      <4>. QED  BY <4>2
    <3>4. shared'[u] \subseteq Held(u)
      BY <1>0, <3>2, <3>3 DEF Placed
    <3>. QED
      BY <1>0, <3>1, <3>2, <3>4, StaysPlaced DEF Others
  <2>9. \A u \in Threads : Placed(u)'
    BY <2>7, <2>8
  <2>10. /\ upd' \in [Threads -> SUBSET Areas]
         /\ moved' \in [Threads -> WindowMoves \cup {None}]
    BY <2>0, <2>2 DEF TypeOK
  <2>11. pc' \in [Threads -> {"idle", "check", "extract", "crashed", "filter", "whole",
                             "clear", "copy", "copying", "add"}]
    BY <1>5 DEF Extract, Goto, TypeOK
  <2>. QED
    BY <1>5, <2>1, <2>3, <2>9, <2>10, <2>11 DEF Extract, display, handler, copying,
       sent, TypeOK, Placed
<1>6. ASSUME NEW t \in Threads, Filter(t) PROVE TypeOK'
  <2>1. Pending' = Pending
    BY <1>6, SamePending DEF Filter, display, detected
  <2>2. /\ fb' \in [Areas -> Content] /\ upd'[t] \subseteq Areas
    BY <1>6, FilterIs
  <2>3. upd' \in [Threads -> SUBSET Areas]
    BY <1>6, <2>2 DEF Filter, TypeOK
  <2>4. /\ moved' = moved /\ at' = at
        /\ pc[t] = "filter" /\ pc' = [pc EXCEPT ![t] = "whole"]
        /\ shared' = [shared EXCEPT ![t] =
                        shared[t] \cap (upd'[t] \cup MovedTo(moved[t]))]
    BY <1>6 DEF Filter, Goto, copying, TypeOK
  <2>5. shared'[t] = shared[t] \cap Held(t)'
    BY <2>4 DEF Held, TypeOK
  <2>6. Placed(t)'
    BY <1>0, <2>4, <2>5 DEF Placed, TypeOK
  <2>7. \A u \in Threads \ {t} : Placed(u)'
    <3> TAKE u \in Threads \ {t}
    <3>1. Others(t)
      BY <1>6, OthersStay DEF Update
    <3>2. shared'[u] \subseteq Held(u)
      BY <1>0, <2>4 DEF Placed, TypeOK
    <3>. QED
      BY <1>0, <3>1, <3>2, StaysPlaced DEF Others
  <2>8. \A u \in Threads : Placed(u)'
    BY <2>6, <2>7
  <2>9. shared' \in [Threads -> SUBSET Areas]
    BY <2>4 DEF TypeOK
  <2>10. pc' \in [Threads -> {"idle", "check", "extract", "crashed", "filter", "whole",
                             "clear", "copy", "copying", "add"}]
    BY <2>4 DEF TypeOK
  <2>. QED
    BY <1>6, <2>1, <2>2, <2>3, <2>4, <2>8, <2>9, <2>10 DEF Filter, display, detected,
       copying, sent, TypeOK, Placed
<1>7. ASSUME NEW t \in Threads, TestAbsolute(t) PROVE TypeOK'
  <2>1. Pending' = Pending
    BY <1>7, SamePending DEF TestAbsolute, display, detected
  <2>2. /\ moved' = moved /\ at' = at /\ pc[t] = "whole"
    BY <1>7 DEF TestAbsolute, container, copying
  <2>3. /\ upd' \in [Threads -> SUBSET Areas]
        /\ shared' \in [Threads -> SUBSET Areas]
        /\ pc' \in [Threads -> {"idle", "check", "extract", "crashed", "filter",
                                "whole", "clear", "copy", "copying", "add"}]
        /\ Placed(t)'
        /\ \A u \in Threads \ {t} : shared'[u] \subseteq Held(u)
    <3>1. CASE absolute
      <4>1. /\ upd' = [upd EXCEPT ![t] = Areas] /\ shared' = SharedBy(t, Areas)
            /\ pc' = [pc EXCEPT ![t] = "clear"]
        BY <1>7, <3>1 DEF TestAbsolute, Goto
      <4>2. Held(t)' = Areas
        BY <2>2, <4>1, MovedToIs DEF Held, TypeOK
      <4>3. shared' \in [Threads -> SUBSET Areas]
        BY <4>1, SharedByType
      <4>4. Placed(t)'
        BY <1>0, <2>2, <4>1, <4>2, <4>3 DEF Placed, TypeOK
      <4>5. \A u \in Threads \ {t} : shared'[u] \subseteq Held(u)
        BY <1>0, <4>1, SharedByHeld DEF Placed
      <4>. QED  BY <4>1, <4>3, <4>4, <4>5 DEF TypeOK
    <3>2. CASE ~absolute
      <4>1. /\ upd' = upd /\ shared' = shared
            /\ pc' = [pc EXCEPT ![t] = Onwards(Held(t))]
        BY <1>7, <3>2 DEF TestAbsolute, Goto
      <4>2. Held(t)' = Held(t)
        BY <2>2, <4>1 DEF Held
      <4>3. Placed(t)'
        BY <1>0, <2>2, <4>1, <4>2 DEF Placed, Onwards, TypeOK
      <4>4. \A u \in Threads \ {t} : shared'[u] \subseteq Held(u)
        BY <1>0, <4>1 DEF Placed
      <4>. QED  BY <4>1, <4>3, <4>4 DEF TypeOK, Onwards
    <3>. QED  BY <3>1, <3>2
  <2>4. Others(t)
    BY <1>7, OthersStay DEF Update
  <2>5. \A u \in Threads \ {t} : Placed(u)'
    BY <1>0, <2>3, <2>4, StaysPlaced DEF Others
  <2>6. \A u \in Threads : Placed(u)'
    BY <2>3, <2>5
  <2>. QED
    BY <1>7, <2>1, <2>2, <2>3, <2>6 DEF TestAbsolute, display, detected, handler,
       copying, sent, TypeOK, Placed
<1>8. ASSUME NEW t \in Threads, ClearAbsolute(t) PROVE TypeOK'
  <2>1. Pending' = Pending
    BY <1>8, SamePending DEF ClearAbsolute, display, detected
  <2>2. \A u \in Threads : Placed(u)'
    BY <1>0, <1>8, SameHeld DEF ClearAbsolute, Goto, container, copying, Placed, TypeOK
  <2>. QED
    BY <1>8, <2>1, <2>2 DEF ClearAbsolute, Goto, display, detected, container,
       copying, sent, TypeOK, Placed
<1>9. ASSUME NEW t \in Threads, NEW a \in Areas, CopyUpper(t, a) PROVE TypeOK'
  <2>1. Pending' = Pending
    BY <1>9, SamePending DEF CopyUpper, display, detected
  <2>2. \A u \in Threads : Placed(u)'
    BY <1>0, <1>9, SameHeld, HeldAreas DEF CopyUpper, Goto, container, Placed, TypeOK
  <2>3. <<fb[a], 0>> \in Content \X Content
    BY DEF TypeOK, Content
  <2>4. /\ at' \in [Threads -> Areas \cup {None}]
        /\ frame' \in [Threads -> Content \X Content]
    BY <1>9, <2>3 DEF CopyUpper, BackBuffer, TypeOK
  <2>. QED
    BY <1>9, <2>1, <2>2, <2>4 DEF CopyUpper, Goto, display, detected, handler,
       container, sent, TypeOK, Placed
<1>10. ASSUME NEW t \in Threads, CopyLower(t) PROVE TypeOK'
  <2>1. Pending' = Pending
    BY <1>10, SamePending DEF CopyLower, display, detected
  <2>2. \A u \in Threads : Placed(u)'
    BY <1>0, <1>10, SameHeld DEF CopyLower, Goto, container, Placed, TypeOK
  <2>3. at[t] \in Areas
    BY <1>10, HeldAreas DEF CopyLower, TypeOK
  <2>4. <<frame[t][1], fb[at[t]]>> \in Content \X Content
    BY <2>3 DEF TypeOK
  <2>5. frame' \in [Threads -> Content \X Content]
    BY <1>10, <2>4 DEF CopyLower, BackBuffer, TypeOK
  <2>. QED
    BY <1>10, <2>1, <2>2, <2>5 DEF CopyLower, Goto, display, detected, handler,
       container, sent, TypeOK, Placed
<1>11. ASSUME NEW t \in Threads, AddServerFrame(t) PROVE TypeOK'
  <2>1. Pending' = Pending
    BY <1>11, SamePending DEF AddServerFrame, display, detected
  <2>2. /\ at[t] \in Areas /\ Held(t)' \subseteq Held(t)
        /\ upd'[t] \subseteq Areas /\ moved'[t] \in WindowMoves \cup {None}
        /\ pc'[t] = Onwards(Held(t)') /\ shared'[t] = shared[t] \cap Held(t)'
        /\ at'[t] = None
    BY <1>11, SentIs, HeldAreas
  <2>3. /\ upd' = [upd EXCEPT ![t] = upd'[t]] /\ moved' = [moved EXCEPT ![t] = moved'[t]]
        /\ shared' = [shared EXCEPT ![t] = shared'[t]]
        /\ at' = [at EXCEPT ![t] = None] /\ frame' = [frame EXCEPT ![t] = <<0, 0>>]
        /\ pc' = [pc EXCEPT ![t] = pc'[t]]
    BY <1>11 DEF AddServerFrame, Goto, TypeOK
  <2>4. <<0, 0>> \in Content \X Content
    BY DEF Content
  <2>5. /\ upd' \in [Threads -> SUBSET Areas] /\ shared' \in [Threads -> SUBSET Areas]
        /\ moved' \in [Threads -> WindowMoves \cup {None}]
        /\ at' \in [Threads -> Areas \cup {None}]
        /\ frame' \in [Threads -> Content \X Content]
    <3>1. shared'[t] \subseteq Areas
      BY <2>2 DEF TypeOK
    <3>2. upd' \in [Threads -> SUBSET Areas]
      BY <2>2, <2>3 DEF TypeOK
    <3>3. shared' \in [Threads -> SUBSET Areas]
      BY <2>3, <3>1 DEF TypeOK
    <3>4. moved' \in [Threads -> WindowMoves \cup {None}]
      BY <2>2, <2>3 DEF TypeOK
    <3>5. at' \in [Threads -> Areas \cup {None}]
      BY <2>3 DEF TypeOK
    <3>6. frame' \in [Threads -> Content \X Content]
      BY <2>3, <2>4 DEF TypeOK
    <3>. QED  BY <3>2, <3>3, <3>4, <3>5, <3>6
  <2>6. pc' \in [Threads -> {"idle", "check", "extract", "crashed", "filter", "whole",
                             "clear", "copy", "copying", "add"}]
    BY <2>2, <2>3 DEF Onwards, TypeOK
  <2>7. Placed(t)'
    BY <2>2 DEF Placed, Onwards
  <2>8. \A u \in Threads \ {t} : Placed(u)'
    <3> TAKE u \in Threads \ {t}
    <3>1. Others(t)
      BY <1>11, OthersStay DEF Update
    <3>2. shared'[u] \subseteq Held(u)
      BY <1>0, <2>3 DEF Placed, TypeOK
    <3>. QED
      BY <1>0, <3>1, <3>2, StaysPlaced DEF Others
  <2>9. \A u \in Threads : Placed(u)'
    BY <2>7, <2>8
  <2>10. /\ last' \in [Areas -> Content \X Content] /\ best' \in [Areas -> Content]
         /\ alone' \subseteq Areas
    BY <1>11, <2>2 DEF AddServerFrame, Newest, TypeOK
  <2>. QED
    BY <1>11, <2>1, <2>5, <2>6, <2>9, <2>10 DEF AddServerFrame, display, detected,
       handler, TypeOK, Placed
<1>. QED
  BY <1>1, <1>2, <1>3, <1>4, <1>5, <1>6, <1>7, <1>8, <1>9, <1>10, <1>11
  DEF Next, Detect, Update, Threads

(***************************************************************************)
(* No action takes a content back.                                         *)
(***************************************************************************)
LEMMA BoundedStep == mapped /\ TypeOK /\ Bounded /\ [Next]_vars => Bounded'
<1> SUFFICES ASSUME mapped, TypeOK, Bounded, [Next]_vars PROVE Bounded'
  OBVIOUS
<1> USE PipelineAssumption
<1>0. /\ \A a \in Areas : screen[a] \in Int /\ fb[a] \in Int /\ best[a] \in Int
      /\ \A t \in Threads : frame[t][1] \in Int /\ frame[t][2] \in Int
      /\ \A t \in Threads : at[t] # None => at[t] \in Areas
  BY DEF TypeOK, Content
<1>1. CASE Construct \/ FollowRing \/ UNCHANGED vars
  <2>1. UNCHANGED <<screen, fb, best, at, frame>>
    BY <1>1 DEF Construct, SetAbsoluteRect, AddFirstRect, StoreHandler,
       FollowRing, display, handler, copying, sent, vars
  <2>. QED  BY <2>1 DEF Bounded
<1>2. ASSUME NEW a \in Areas, Paint(a) PROVE Bounded'
  <2>1. \A b \in Areas : screen[b] <= screen'[b] /\ screen'[b] \in Int
    BY <1>0, <1>2 DEF Paint, TypeOK
  <2>2. fb' = fb /\ best' = best /\ at' = at /\ frame' = frame
    BY <1>2 DEF Paint, handler, copying, sent
  <2>3. \A b \in Areas : fb'[b] <= screen'[b] /\ best'[b] <= screen'[b]
    BY <1>0, <2>1, <2>2 DEF Bounded
  <2>4. \A t \in Threads : at'[t] # None =>
          frame'[t][1] <= screen'[at'[t]] /\ frame'[t][2] <= screen'[at'[t]]
    BY <1>0, <2>1, <2>2 DEF Bounded
  <2>. QED
    BY <2>3, <2>4 DEF Bounded
<1>3. ASSUME NEW t \in Threads,
             \/ CursorChanged(t) \/ Crash(t) \/ OnUpdate(t) \/ Extract(t)
             \/ TestAbsolute(t) \/ ClearAbsolute(t)
      PROVE  Bounded'
  <2>1. UNCHANGED <<screen, fb, best, at, frame>>
    BY <1>3 DEF CursorChanged, Crash, OnUpdate, Extract, TestAbsolute, ClearAbsolute,
       display, handler, copying, sent
  <2>. QED  BY <2>1 DEF Bounded
<1>4. ASSUME NEW t \in Threads, Filter(t) PROVE Bounded'
  <2>1. \A a \in Areas : fb'[a] = (IF a \in Held(t) THEN screen[a] ELSE fb[a])
    BY <1>4, FilterIs
  <2>2. UNCHANGED <<screen, best, at, frame>>
    BY <1>4 DEF Filter, display, copying, sent
  <2>3. \A a \in Areas : fb'[a] <= screen[a]
    BY <1>0, <2>1 DEF Bounded
  <2>. QED  BY <2>2, <2>3 DEF Bounded
<1>5. ASSUME NEW t \in Threads, NEW a \in Areas, CopyUpper(t, a) PROVE Bounded'
  <2>1. /\ at' = [at EXCEPT ![t] = a] /\ frame' = [frame EXCEPT ![t] = <<fb[a], 0>>]
        /\ screen' = screen /\ fb' = fb /\ best' = best
    BY <1>5 DEF CopyUpper, BackBuffer, display, handler, sent
  <2>2. 0 <= screen[a] /\ fb[a] <= screen[a]
    BY DEF TypeOK, Content, Bounded
  <2>3. \A u \in Threads : at'[u] # None =>
          frame'[u][1] <= screen[at'[u]] /\ frame'[u][2] <= screen[at'[u]]
    BY <2>1, <2>2 DEF Bounded, TypeOK
  <2>. QED
    BY <2>1, <2>3 DEF Bounded
<1>6. ASSUME NEW t \in Threads, CopyLower(t) PROVE Bounded'
  <2>1. /\ at' = at /\ screen' = screen /\ fb' = fb /\ best' = best
        /\ frame' = [frame EXCEPT ![t] = <<frame[t][1], fb[at[t]]>>]
    BY <1>6 DEF CopyLower, BackBuffer, display, handler, sent, TypeOK
  <2>2. at[t] \in Areas
    BY <1>6, HeldAreas DEF CopyLower, TypeOK
  <2>3. fb[at[t]] <= screen[at[t]]
    BY <2>2 DEF Bounded
  <2>4. \A u \in Threads : at'[u] # None =>
          frame'[u][1] <= screen[at'[u]] /\ frame'[u][2] <= screen[at'[u]]
    BY <2>1, <2>3 DEF Bounded, TypeOK
  <2>. QED
    BY <2>1, <2>4 DEF Bounded
<1>7. ASSUME NEW t \in Threads, AddServerFrame(t) PROVE Bounded'
  <2>1. at[t] \in Areas /\ at[t] # None
    BY <1>7, SentIs, HeldAreas
  <2>2. frame[t][1] <= screen[at[t]]
    BY <2>1 DEF Bounded
  <2>3. /\ screen' = screen /\ fb' = fb
        /\ best' = [best EXCEPT ![at[t]] = Newest(at[t], frame[t])]
        /\ at' = [at EXCEPT ![t] = None]
        /\ frame' = [frame EXCEPT ![t] = <<0, 0>>]
    BY <1>7 DEF AddServerFrame, display, handler
  <2>4. \A a \in Areas : best'[a] <= screen[a]
    BY <2>1, <2>2, <2>3 DEF Newest, Bounded, TypeOK
  <2>5. \A u \in Threads : at'[u] # None =>
          frame'[u][1] <= screen[at'[u]] /\ frame'[u][2] <= screen[at'[u]]
    BY <2>3 DEF Bounded, TypeOK
  <2>. QED
    BY <2>3, <2>4, <2>5 DEF Bounded
<1>. QED
  BY <1>1, <1>2, <1>3, <1>4, <1>5, <1>6, <1>7 DEF Next, Detect, Update, Threads

----------------------------------------------------------------------------
(***************************************************************************)
(* First stage: what is not in the back buffer yet.                        *)
(***************************************************************************)
\* A thread about to filter an area stays so, if its variables do.
LEMMA StillFilters ==
  ASSUME NEW t \in Threads, NEW a \in Areas, pc[t] = "filter", a \in Held(t),
         pc'[t] = pc[t], upd'[t] = upd[t], moved'[t] = moved[t]
  PROVE  pc'[t] = "filter" /\ a \in Held(t)'
BY SameHeld

LEMMA NotFilteredStep ==
  mapped /\ TypeOK /\ NotFiltered /\ Bounded /\ [Next]_vars => NotFiltered'
<1> SUFFICES ASSUME mapped, TypeOK, NotFiltered, Bounded, [Next]_vars,
                    NEW a \in Areas, fb'[a] # screen'[a], ~Untold(a)',
                    a \notin Pending' \cup keeper'
             PROVE  \E t \in Threads : pc'[t] = "filter" /\ a \in Held(t)'
  BY DEF NotFiltered
<1> USE PipelineAssumption
<1>0. screen[a] \in Int /\ fb[a] \in Int
  BY DEF TypeOK, Content
<1>1. CASE Construct \/ UNCHANGED vars
  <2>1. Pending' = Pending
    BY <1>1, SamePending DEF Construct, SetAbsoluteRect, AddFirstRect,
       StoreHandler, display, detected, vars
  <2>2. UNCHANGED <<screen, fb, pc, upd, moved>> /\ keeper \subseteq keeper'
    BY <1>1 DEF Construct, SetAbsoluteRect, AddFirstRect, StoreHandler, display,
       detected, handler, container, vars
  <2>3. ~Untold(a)
    <3>1. CASE AddFirstRect
      <4>1. told' = absolute /\ (absolute => keeper' = keeper \cup Areas)
        BY <3>1 DEF AddFirstRect, FirstRegion
      <4>3. CASE absolute
        <5>1. a \in keeper'
          BY <4>1, <4>3
        <5>. QED  BY <5>1
      <4>4. CASE ~absolute
        <5>1. ~told'
          BY <4>1, <4>4
        <5>. QED  BY <2>2, <5>1 DEF Untold
      <4>. QED  BY <4>3, <4>4
    <3>2. CASE SetAbsoluteRect \/ StoreHandler \/ UNCHANGED vars
      <4>1. told' = told
        BY <3>2 DEF SetAbsoluteRect, StoreHandler, handler, vars
      <4>. QED  BY <2>2, <4>1 DEF Untold
    <3>. QED  BY <1>1, <3>1, <3>2 DEF Construct
  <2>4. PICK t \in Threads : pc[t] = "filter" /\ a \in Held(t)
    BY <2>1, <2>2, <2>3 DEF NotFiltered
  <2>. QED
    BY <2>2, <2>4, StillFilters
<1>2. ASSUME NEW b \in Areas, Paint(b)
      PROVE  \E t \in Threads : pc'[t] = "filter" /\ a \in Held(t)'
  <2>1. Pending' = Pending \cup {b}
    BY <1>2, PaintPending
  <2>2. UNCHANGED <<fb, pc, upd, moved, keeper, told>>
    BY <1>2 DEF Paint, detected, handler, container
  <2>3. a # b /\ screen'[a] = screen[a]
    BY <1>2, <2>1 DEF Paint, TypeOK
  <2>4. PICK t \in Threads : pc[t] = "filter" /\ a \in Held(t)
    BY <2>1, <2>2, <2>3 DEF NotFiltered, Untold
  <2>. QED
    BY <2>2, <2>4, StillFilters
<1>3. CASE FollowRing
  <2>1. keeper' = keeper \cup Pending
    BY <1>3 DEF FollowRing, ReadRing
  <2>2. UNCHANGED <<screen, fb, told, upd, moved>>
    BY <1>3 DEF FollowRing, display, handler, container
  <2>3. PICK t \in Threads : pc[t] = "filter" /\ a \in Held(t)
    BY <2>1, <2>2 DEF NotFiltered, Untold
  <2>4. pc'[t] = pc[t]
    BY <1>3, <2>3 DEF FollowRing, Goto, TypeOK
  <2>. QED
    BY <2>2, <2>3, <2>4, StillFilters
<1>4. ASSUME NEW u \in Threads, CursorChanged(u) \/ Crash(u) \/ Update(u), ~Filter(u),
             ~Extract(u)
      PROVE  \E t \in Threads : pc'[t] = "filter" /\ a \in Held(t)'
  <2>1. UNCHANGED <<screen, ring, counter, lastCounter, keeper, fb, told>>
    BY <1>4 DEF CursorChanged, Crash, Update, OnUpdate, TestAbsolute,
       ClearAbsolute, CopyUpper, CopyLower, AddServerFrame, display, detected, handler
  <2>2. pc[u] # "filter"
    BY <1>4 DEF CursorChanged, Crash, Update, OnUpdate, TestAbsolute,
       ClearAbsolute, CopyUpper, CopyLower, AddServerFrame
  <2>3. PICK t \in Threads : pc[t] = "filter" /\ a \in Held(t)
    BY <2>1, SamePending DEF NotFiltered, Untold
  <2>4. Others(u)
    BY <1>4, OthersStay
  <2>. QED
    BY <2>2, <2>3, <2>4, StillFilters DEF Others
<1>5. ASSUME NEW u \in Threads, Extract(u)
      PROVE  \E t \in Threads : pc'[t] = "filter" /\ a \in Held(t)'
  <2>1. UNCHANGED <<screen, ring, counter, lastCounter, fb, told>> /\ pc[u] = "extract"
    BY <1>5 DEF Extract, display, handler
  <2>2. PICK m \in WindowMoves \cup {None} :
          upd' = [upd EXCEPT ![u] = CarriedAlong(m)] /\ moved' = [moved EXCEPT ![u] = m]
    BY <1>5 DEF Extract
  <2>3. pc'[u] = "filter" /\ Held(u)' = CarriedAlong(m) \cup MovedTo(m)
    BY <1>5, <2>2 DEF Extract, Goto, Held, TypeOK
  <2>4. keeper \subseteq Held(u)'
    BY <2>3, ExtractCovers
  <2>5. CASE a \in keeper
    BY <2>3, <2>4, <2>5
  <2>6. CASE a \notin keeper
    <3>1. PICK t \in Threads : pc[t] = "filter" /\ a \in Held(t)
      BY <2>1, <2>6, SamePending DEF NotFiltered, Untold
    <3>2. Others(u)
      BY <1>5, OthersStay DEF Update
    <3>. QED
      BY <2>1, <3>1, <3>2, StillFilters DEF Others
  <2>. QED  BY <2>5, <2>6
<1>6. ASSUME NEW u \in Threads, Filter(u)
      PROVE  \E t \in Threads : pc'[t] = "filter" /\ a \in Held(t)'
  <2>1. UNCHANGED <<screen, ring, counter, lastCounter, keeper, told>>
    BY <1>6 DEF Filter, display, detected
  <2>2. fb'[a] = (IF a \in Held(u) THEN screen[a] ELSE fb[a])
    BY <1>6, FilterIs
  <2>3. a \notin Held(u) /\ fb[a] # screen[a]
    BY <2>1, <2>2
  <2>4. PICK t \in Threads : pc[t] = "filter" /\ a \in Held(t)
    BY <2>1, <2>3, SamePending DEF NotFiltered, Untold
  <2>5. Others(u)
    BY <1>6, OthersStay DEF Update
  <2>. QED
    BY <2>3, <2>4, <2>5, StillFilters DEF Others
<1>. QED
  BY <1>1, <1>2, <1>3, <1>4, <1>5, <1>6 DEF Next, Detect, Update, Threads

----------------------------------------------------------------------------
(***************************************************************************)
(* Second stage: what is in the back buffer and in no frame.  A step that  *)
(* leaves a thread's container, its frame and the area's content alone     *)
(* leaves the thread carrying it.                                          *)
(***************************************************************************)
LEMMA StillCarries ==
  ASSUME NEW t \in Threads, NEW a \in Areas, Carries(t, a),
         pc'[t] = pc[t], upd'[t] = upd[t], moved'[t] = moved[t], at'[t] = at[t],
         frame'[t] = frame[t], fb'[a] = fb[a]
  PROVE  Carries(t, a)'
BY SameHeld DEF Carries, Sending, Copied

LEMMA NotSentStep ==
  mapped /\ TypeOK /\ NotSent /\ Bounded /\ [Next]_vars => NotSent'
<1> SUFFICES ASSUME mapped, TypeOK, NotSent, Bounded, [Next]_vars,
                    NEW a \in Areas, best'[a] # screen'[a], fb'[a] = screen'[a]
             PROVE  \E t \in Threads : Carries(t, a)'
  BY DEF NotSent
<1> USE PipelineAssumption
<1>0. screen[a] \in Int /\ fb[a] \in Int /\ best[a] \in Int
  BY DEF TypeOK, Content
<1>1. CASE Construct \/ UNCHANGED vars
  <2>1. UNCHANGED <<screen, fb, best, pc, upd, moved, at, frame>>
    BY <1>1 DEF Construct, SetAbsoluteRect, AddFirstRect, StoreHandler, vars,
       display, container, copying, sent
  <2>2. PICK t \in Threads : Carries(t, a)
    BY <2>1 DEF NotSent
  <2>. QED
    BY <2>1, <2>2, StillCarries
<1>2. ASSUME NEW b \in Areas, Paint(b) PROVE \E t \in Threads : Carries(t, a)'
  <2>1. UNCHANGED <<fb, best, pc, upd, moved, at, frame>>
    BY <1>2 DEF Paint, handler, container, copying, sent
  <2>2. a # b
    BY <1>0, <1>2, <2>1 DEF Paint, Bounded, TypeOK
  <2>3. screen'[a] = screen[a]
    BY <1>2, <2>2 DEF Paint, TypeOK
  <2>4. PICK t \in Threads : Carries(t, a)
    BY <2>1, <2>3 DEF NotSent
  <2>. QED
    BY <2>1, <2>4, StillCarries
<1>3. CASE FollowRing
  <2>1. UNCHANGED <<screen, fb, best, upd, moved, at, frame>>
    BY <1>3 DEF FollowRing, display, handler, container, copying, sent
  <2>2. PICK t \in Threads : Carries(t, a)
    BY <2>1 DEF NotSent
  <2>3. pc'[t] = pc[t]
    BY <1>3, <2>2 DEF FollowRing, Goto, TypeOK, Carries, Sending
  <2>. QED
    BY <2>1, <2>2, <2>3, StillCarries
<1>4. ASSUME NEW u \in Threads,
             CursorChanged(u) \/ Crash(u) \/ OnUpdate(u) \/ Extract(u)
      PROVE  \E t \in Threads : Carries(t, a)'
  <2>1. UNCHANGED <<screen, fb, best>> /\ ~Sending(u)
    BY <1>4 DEF CursorChanged, Crash, OnUpdate, Extract, display, handler, sent, Sending
  <2>2. PICK t \in Threads : Carries(t, a)
    BY <2>1 DEF NotSent
  <2>3. t # u
    BY <2>1, <2>2 DEF Carries
  <2>4. Others(u)
    BY <1>4, OthersStay DEF Update
  <2>. QED
    BY <2>1, <2>2, <2>3, <2>4, StillCarries DEF Others
<1>5. ASSUME NEW u \in Threads, Filter(u) PROVE \E t \in Threads : Carries(t, a)'
  <2>1. UNCHANGED <<screen, best, at>> /\ pc[u] = "filter" /\ pc'[u] = "whole"
    BY <1>5 DEF Filter, Goto, display, copying, sent, TypeOK
  <2>2. /\ fb'[a] = (IF a \in Held(u) THEN screen[a] ELSE fb[a])
        /\ a \in Held(u) /\ fb[a] # screen[a] => a \in Held(u)'
    BY <1>5, FilterIs
  <2>3. CASE fb[a] = screen[a]
    <3>1. PICK t \in Threads : Carries(t, a)
      BY <2>1, <2>3 DEF NotSent
    <3>2. t # u
      BY <2>1, <3>1 DEF Carries, Sending
    <3>3. Others(u)
      BY <1>5, OthersStay DEF Update
    <3>. QED
      BY <2>2, <2>3, <3>1, <3>2, <3>3, StillCarries DEF Others
  <2>4. CASE fb[a] # screen[a]
    <3>1. a \in Held(u)'
      BY <2>1, <2>2, <2>4
    <3>2. at'[u] # a
      BY <2>1 DEF TypeOK
    <3>. QED
      BY <2>1, <3>1, <3>2 DEF Carries, Sending, Copied
  <2>. QED
    BY <2>3, <2>4
<1>6. ASSUME NEW u \in Threads, TestAbsolute(u) \/ ClearAbsolute(u)
      PROVE  \E t \in Threads : Carries(t, a)'
  <2>1. UNCHANGED <<screen, fb, best, at, frame, moved>> /\ pc[u] \in {"whole", "clear"}
    BY <1>6 DEF TestAbsolute, ClearAbsolute, display, handler, container, copying, sent
  <2>2. PICK t \in Threads : Carries(t, a)
    BY <2>1 DEF NotSent
  <2>3. Others(u)
    BY <1>6, OthersStay DEF Update
  <2>4. CASE t # u
    BY <2>1, <2>2, <2>3, <2>4, StillCarries DEF Others
  <2>5. CASE t = u
    <3>1. a \in Held(u)' /\ pc'[u] \in {"clear", "copy"}
      <4>1. CASE TestAbsolute(u) /\ absolute
        <5>1. upd'[u] = Areas /\ pc'[u] = "clear"
          BY <4>1 DEF TestAbsolute, Goto, TypeOK
        <5>. QED  BY <5>1 DEF Held
      <4>2. CASE TestAbsolute(u) /\ ~absolute
        <5>1. upd' = upd /\ pc'[u] = Onwards(Held(u))
          BY <4>2 DEF TestAbsolute, Goto, TypeOK
        <5>2. a \in Held(u) /\ Held(u)' = Held(u)
          BY <2>1, <2>2, <2>5, <5>1, SameHeld DEF Carries
        <5>. QED  BY <5>1, <5>2 DEF Onwards
      <4>3. CASE ClearAbsolute(u)
        <5>1. upd' = upd /\ pc'[u] = "copy"
          BY <4>3 DEF ClearAbsolute, Goto, container, TypeOK
        <5>2. a \in Held(u) /\ Held(u)' = Held(u)
          BY <2>1, <2>2, <2>5, <5>1, SameHeld DEF Carries
        <5>. QED  BY <5>1, <5>2
      <4>. QED  BY <1>6, <4>1, <4>2, <4>3
    <3>2. at'[u] # a
      BY <2>1 DEF TypeOK
    <3>. QED
      BY <3>1, <3>2 DEF Carries, Sending, Copied
  <2>. QED
    BY <2>4, <2>5
<1>7. ASSUME NEW u \in Threads, NEW b \in Areas, CopyUpper(u, b)
      PROVE  \E t \in Threads : Carries(t, a)'
  <2>1. UNCHANGED <<screen, fb, best, upd, moved>>
    BY <1>7 DEF CopyUpper, display, handler, container, sent
  <2>2. PICK t \in Threads : Carries(t, a)
    BY <2>1 DEF NotSent
  <2>3. Others(u)
    BY <1>7, OthersStay DEF Update
  <2>4. CASE t # u
    BY <2>1, <2>2, <2>3, <2>4, StillCarries DEF Others
  <2>5. CASE t = u
    <3>1. pc'[u] = "copying" /\ at'[u] = b /\ frame'[u] = <<fb[b], 0>>
      BY <1>7 DEF CopyUpper, BackBuffer, Goto, TypeOK
    <3>2. frame'[u][1] = fb[b]
      BY <3>1
    <3>3. a \in Held(u)'
      BY <2>1, <2>2, <2>5, SameHeld DEF Carries
    <3>. QED
      BY <2>1, <3>1, <3>2, <3>3 DEF Carries, Sending, Copied
  <2>. QED
    BY <2>4, <2>5
<1>8. ASSUME NEW u \in Threads, CopyLower(u)
      PROVE  \E t \in Threads : Carries(t, a)'
  <2>1. UNCHANGED <<screen, fb, best, upd, moved, at>>
    BY <1>8 DEF CopyLower, display, handler, container, sent
  <2>2. PICK t \in Threads : Carries(t, a)
    BY <2>1 DEF NotSent
  <2>3. Others(u)
    BY <1>8, OthersStay DEF Update
  <2>4. CASE t # u
    BY <2>1, <2>2, <2>3, <2>4, StillCarries DEF Others
  <2>5. CASE t = u
    <3>1. pc'[u] = "add" /\ frame'[u] = <<frame[u][1], fb[at[u]]>>
      BY <1>8 DEF CopyLower, BackBuffer, Goto, TypeOK
    <3>2. frame'[u][1] = frame[u][1] /\ frame'[u][2] = fb[at[u]]
      BY <3>1
    <3>3. a \in Held(u)'
      BY <2>1, <2>2, <2>5, SameHeld DEF Carries
    <3>. QED
      BY <2>1, <2>2, <2>5, <3>1, <3>2, <3>3 DEF Carries, Sending, Copied
  <2>. QED
    BY <2>4, <2>5
<1>9. ASSUME NEW u \in Threads, AddServerFrame(u)
      PROVE  \E t \in Threads : Carries(t, a)'
  <2>1. UNCHANGED <<screen, fb>> /\ pc[u] = "add"
    BY <1>9 DEF AddServerFrame, display, handler
  <2>2. best'[a] = IF a = at[u] THEN Newest(a, frame[u]) ELSE best[a]
    BY <1>9 DEF AddServerFrame, TypeOK
  <2>10. frame[u][1] \in Int
    BY DEF TypeOK, Content
  <2>3. /\ at[u] \in Areas /\ frame[u][1] \in Int /\ at[u] # None
        /\ Held(u) \ {at[u]} \subseteq Held(u)' /\ pc'[u] = Onwards(Held(u)')
        /\ at'[u] = None
    BY <1>9, <2>10, SentIs, HeldAreas
  <2>4. frame[u][1] <= screen[at[u]]
    BY <2>3 DEF Bounded
  <2>5. best[a] # screen[a]
    BY <1>0, <2>1, <2>2, <2>3, <2>4 DEF Newest, Bounded
  <2>6. PICK t \in Threads : Carries(t, a)
    BY <2>1, <2>5 DEF NotSent
  <2>7. Others(u)
    BY <1>9, OthersStay DEF Update
  <2>8. CASE t # u
    BY <2>1, <2>6, <2>7, <2>8, StillCarries DEF Others
  <2>9. CASE t = u
    <3>1. a # at[u]
      <4>1. ASSUME a = at[u] PROVE FALSE
        <5>1. frame[u][1] = fb[a] /\ frame[u][2] = fb[a]
          BY <2>1, <2>6, <2>9, <4>1 DEF Carries, Copied
        <5>2. fb[a] = screen[a] /\ best[a] <= screen[a]
          BY <2>1 DEF Bounded
        <5>3. Newest(a, frame[u]) = screen[a]
          BY <1>0, <5>1, <5>2 DEF Newest
        <5>. QED  BY <2>1, <2>2, <4>1, <5>3
      <4>. QED  BY <4>1
    <3>2. a \in Held(u)'
      BY <2>3, <2>6, <2>9, <3>1 DEF Carries
    <3>3. pc'[u] = "copy"
      BY <2>3, <3>2 DEF Onwards
    <3>. QED
      BY <2>3, <3>2, <3>3 DEF Carries, Sending, Copied
  <2>. QED
    BY <2>8, <2>9
<1>. QED
  BY <1>1, <1>2, <1>3, <1>4, <1>5, <1>6, <1>7, <1>8, <1>9 DEF Next, Detect, Update,
     Threads

----------------------------------------------------------------------------
(***************************************************************************)
(* Areas nobody shares.  What two threads hold at once is shared by both,  *)
(* so the filter of another thread writes no area a thread holds alone.    *)
(***************************************************************************)
\* What the two parts about copies and frames need of a step: what a thread
\* writes to the back buffer it holds and will send.
LEMMA LoneRest ==
  ASSUME Lone, UNCHANGED <<fb, at, frame, last, alone>>,
         \A t \in Threads :
           /\ at[t] # None => pc'[t] = pc[t]
           /\ shared[t] \subseteq shared'[t] \/ at[t] = None
           /\ \A a \in alone : a \in Held(t) /\ Sending(t) => a \in Held(t)' /\ Sending(t)'
  PROVE  CopiedApart' /\ LastIsBuffer'
<1>1. CopiedApart'
  BY DEF Lone, CopiedApart, Copied
<1>2. LastIsBuffer'
  BY DEF Lone, LastIsBuffer
<1>. QED  BY <1>1, <1>2

LEMMA LoneStep == TypeOK /\ Lone /\ [Next]_vars => Lone'
<1> SUFFICES ASSUME TypeOK, Lone, [Next]_vars PROVE Lone'
  OBVIOUS
<1> USE PipelineAssumption
<1>0. \A t \in Threads : at[t] # None => pc[t] \in {"copying", "add"}
  BY DEF TypeOK
<1>1. CASE Construct \/ (\E a \in Areas : Paint(a)) \/ UNCHANGED vars
  <2>1. UNCHANGED <<fb, at, frame, last, alone, pc, upd, moved, shared>>
    BY <1>1 DEF Construct, SetAbsoluteRect, AddFirstRect, StoreHandler, Paint, vars,
       handler, container, copying, sent
  <2>2. \A t \in Threads : Held(t)' = Held(t) /\ Sending(t)' = Sending(t)
    BY <2>1, SameHeld DEF Sending
  <2>3. Apart'
    BY <2>1, <2>2 DEF Lone, Apart
  <2>4. CopiedApart' /\ LastIsBuffer'
    BY <2>1, <2>2, LoneRest
  <2>. QED  BY <2>3, <2>4 DEF Lone
<1>2. ASSUME NEW u \in Threads,
             \/ u = Mirror /\ FollowRing
             \/ CursorChanged(u) \/ Crash(u) \/ OnUpdate(u) \/ ClearAbsolute(u)
      PROVE  Lone'
  <2>1. UNCHANGED <<fb, at, frame, last, alone, upd, moved, shared>>
    BY <1>2 DEF FollowRing, CursorChanged, Crash, OnUpdate, ClearAbsolute, handler,
       container, copying, sent
  <2>2. \A t \in Threads : Held(t)' = Held(t)
    BY <2>1, SameHeld
  <2>3. Others(u)
    BY <1>2, OthersStay DEF Update
  <2>4. at[u] = None /\ (Sending(u) => Sending(u)')
    BY <1>0, <1>2 DEF FollowRing, CursorChanged, Crash, OnUpdate, ClearAbsolute, Goto,
       TypeOK, Sending
  <2>5. \A t \in Threads : /\ at[t] # None => pc'[t] = pc[t]
                           /\ Sending(t) => Sending(t)'
    BY <2>3, <2>4 DEF Others, Sending
  <2>6. Apart'
    BY <2>1, <2>2 DEF Lone, Apart
  <2>7. CopiedApart' /\ LastIsBuffer'
    BY <2>1, <2>2, <2>5, LoneRest
  <2>. QED  BY <2>6, <2>7 DEF Lone
<1>3. ASSUME NEW u \in Threads, Extract(u) \/ (TestAbsolute(u) /\ absolute)
      PROVE  Lone'
  <2>1. PICK new : /\ shared' = SharedBy(u, new) /\ Held(u)' = new
                   /\ alone \cap Held(u) \subseteq new
    <3>1. CASE Extract(u)
      <4>1. PICK m \in WindowMoves \cup {None} :
              /\ upd' = [upd EXCEPT ![u] = CarriedAlong(m)]
              /\ moved' = [moved EXCEPT ![u] = m]
              /\ shared' = SharedBy(u, CarriedAlong(m) \cup MovedTo(m))
        BY <3>1 DEF Extract
      <4>2. Held(u)' = CarriedAlong(m) \cup MovedTo(m)
        BY <4>1 DEF Held, TypeOK
      <4>3. Held(u) = {}
        BY <3>1 DEF Extract, TypeOK
      <4>. QED  BY <4>1, <4>2, <4>3
    <3>2. CASE TestAbsolute(u) /\ absolute
      <4>1. upd' = [upd EXCEPT ![u] = Areas] /\ moved' = moved
            /\ shared' = SharedBy(u, Areas)
        BY <3>2 DEF TestAbsolute
      <4>2. Held(u)' = Areas
        BY <4>1, MovedToIs DEF Held, TypeOK
      <4>. QED  BY <4>1, <4>2, HeldAreas
    <3>. QED  BY <1>3, <3>1, <3>2
  <2>2. /\ UNCHANGED <<fb, at, frame, last, alone>> /\ Others(u)
        /\ at[u] = None /\ (Sending(u)' \/ ~Sending(u))
    <3>1. UNCHANGED <<fb, at, frame, last, alone>>
      BY <1>3 DEF Extract, TestAbsolute, handler, copying, sent
    <3>2. at[u] = None
      BY <1>0, <1>3 DEF Extract, TestAbsolute
    <3>3. ~Sending(u) \/ Sending(u)'
      BY <1>3 DEF Extract, TestAbsolute, Goto, Sending, TypeOK
    <3>4. Others(u)
      BY <1>3, OthersStay DEF Update
    <3>. QED  BY <3>1, <3>2, <3>3, <3>4
  <2>3. \A t \in Threads \ {u} :
          /\ Held(t)' = Held(t) /\ (Sending(t) => Sending(t)') /\ pc'[t] = pc[t]
          /\ shared'[t] = shared[t] \cup (new \cap Held(t))
    BY <2>1, <2>2, SameHeld, SharedByHeld DEF Others, Sending
  <2>4. \A a \in new : (\E w \in Threads \ {u} : a \in Held(w)) => a \in shared'[u]
    BY <2>1 DEF SharedBy
  <2>5. shared[u] \subseteq shared'[u]
    BY <2>1 DEF SharedBy
  <2>6. Apart'
    <3> SUFFICES ASSUME NEW t \in Threads, NEW v \in Threads, t # v,
                        NEW a, a \in Held(t)', a \in Held(v)'
                 PROVE  a \in shared'[t]
      BY DEF Apart
    <3>1. CASE t = u
      BY <2>1, <2>3, <2>4, <3>1
    <3>2. CASE v = u
      BY <2>1, <2>3, <3>2
    <3>3. CASE t # u /\ v # u
      BY <2>3, <3>3 DEF Lone, Apart
    <3>. QED  BY <3>1, <3>2, <3>3
  <2>7. CopiedApart' /\ LastIsBuffer'
    <3>1. \A t \in Threads : shared[t] \subseteq shared'[t]
      BY <2>3, <2>5
    <3>2. \A t \in Threads : at[t] # None => pc'[t] = pc[t]
      BY <2>2, <2>3
    <3>3. \A t \in Threads : \A a \in alone :
            a \in Held(t) /\ Sending(t) => a \in Held(t)' /\ Sending(t)'
      BY <2>1, <2>2, <2>3
    <3>. QED  BY <2>2, <3>1, <3>2, <3>3, LoneRest
  <2>. QED  BY <2>6, <2>7 DEF Lone
<1>4. ASSUME NEW u \in Threads, TestAbsolute(u), ~absolute PROVE Lone'
  <2>1. /\ UNCHANGED <<fb, at, frame, last, alone, upd, moved, shared>>
        /\ pc[u] = "whole" /\ pc'[u] = Onwards(Held(u))
    BY <1>4 DEF TestAbsolute, Goto, handler, copying, sent, TypeOK
  <2>2. \A t \in Threads : Held(t)' = Held(t)
    BY <2>1, SameHeld
  <2>3. Others(u)
    BY <1>4, OthersStay DEF Update
  <2>4. \A t \in Threads : at[t] # None => pc'[t] = pc[t]
    BY <1>0, <2>1, <2>3 DEF Others
  <2>5. \A t \in Threads : \A a \in alone :
          a \in Held(t) /\ Sending(t) => a \in Held(t)' /\ Sending(t)'
    BY <2>1, <2>2, <2>3 DEF Others, Sending, Onwards
  <2>6. Apart'
    BY <2>1, <2>2 DEF Lone, Apart
  <2>7. CopiedApart' /\ LastIsBuffer'
    BY <2>1, <2>4, <2>5, LoneRest
  <2>. QED  BY <2>6, <2>7 DEF Lone
<1>5. ASSUME NEW u \in Threads, Filter(u) PROVE Lone'
  <2>1. /\ UNCHANGED <<at, frame, last, alone, moved>> /\ Others(u)
        /\ pc[u] = "filter" /\ pc'[u] = "whole"
        /\ shared' = [shared EXCEPT ![u] = shared[u] \cap Held(u)']
    <3>1. /\ UNCHANGED <<at, frame, last, alone, moved>>
          /\ pc[u] = "filter" /\ pc'[u] = "whole"
      BY <1>5 DEF Filter, Goto, copying, sent, TypeOK
    <3>2. shared' = [shared EXCEPT ![u] = shared[u] \cap (upd'[u] \cup MovedTo(moved[u]))]
      BY <1>5 DEF Filter
    <3>3. Held(u)' = upd'[u] \cup MovedTo(moved[u])
      BY <3>1 DEF Held
    <3>4. Others(u)
      BY <1>5, OthersStay DEF Update
    <3>. QED  BY <3>1, <3>2, <3>3, <3>4
  <2>2. /\ Held(u)' \subseteq Held(u)
        /\ \A a \in Areas : fb'[a] # fb[a] => a \in Held(u)'
    BY <1>5, FilterIs
  <2>3. \A t \in Threads \ {u} :
          Held(t)' = Held(t) /\ shared'[t] = shared[t] /\ pc'[t] = pc[t]
    BY <2>1, SameHeld DEF Others, TypeOK
  <2>4. shared'[u] = shared[u] \cap Held(u)'
    BY <2>1 DEF TypeOK
  <2>5. Apart'
    BY <2>2, <2>3, <2>4 DEF Lone, Apart
  <2>6. CopiedApart'
    <3> SUFFICES ASSUME NEW t \in Threads, at[t] # None, at[t] \notin shared'[t]
                 PROVE  Copied(t, at[t])'
      BY <2>1 DEF CopiedApart
    <3>1. t # u
      BY <1>0, <2>1
    <3>2. at[t] \in Held(t) /\ at[t] \in Areas
      BY <1>0, HeldAreas DEF TypeOK
    <3>3. at[t] \notin Held(u)
      BY <2>3, <3>1, <3>2 DEF Lone, Apart
    <3>4. fb'[at[t]] = fb[at[t]]
      BY <2>2, <3>2, <3>3
    <3>5. Copied(t, at[t])
      BY <2>3, <3>1 DEF Lone, CopiedApart
    <3>. QED  BY <2>1, <2>3, <3>1, <3>4, <3>5 DEF Copied
  <2>7. LastIsBuffer'
    <3> SUFFICES ASSUME NEW a \in alone
                 PROVE  /\ last[a][1] = last[a][2]
                        /\ \/ last[a][1] = fb'[a]
                           \/ \E t \in Threads : a \in Held(t)' /\ Sending(t)'
      BY <2>1 DEF LastIsBuffer
    <3>1. a \in Areas
      BY DEF TypeOK
    <3>2. CASE fb'[a] # fb[a]
      BY <2>1, <2>2, <3>1, <3>2 DEF Lone, LastIsBuffer, Sending
    <3>3. CASE fb'[a] = fb[a]
      BY <2>1, <2>3, <3>3 DEF Lone, LastIsBuffer, Sending
    <3>. QED  BY <3>2, <3>3
  <2>. QED  BY <2>5, <2>6, <2>7 DEF Lone
<1>6. ASSUME NEW u \in Threads, (\E b \in Areas : CopyUpper(u, b)) \/ CopyLower(u)
      PROVE  Lone'
  <2>1. UNCHANGED <<fb, last, alone, upd, moved, shared>>
    BY <1>6 DEF CopyUpper, CopyLower, handler, container, sent
  <2>2. \A t \in Threads : Held(t)' = Held(t)
    BY <2>1, SameHeld
  <2>3. Others(u)
    BY <1>6, OthersStay DEF Update
  <2>4. Sending(u)'
    BY <1>6 DEF CopyUpper, CopyLower, Goto, Sending, TypeOK
  <2>5. Apart'
    BY <2>1, <2>2 DEF Lone, Apart
  <2>6. LastIsBuffer'
    BY <2>1, <2>2, <2>3, <2>4 DEF Lone, LastIsBuffer, Sending, Others
  <2>7. \A t \in Threads \ {u} : at'[t] # None /\ at'[t] \notin shared'[t] =>
                                   Copied(t, at[t])'
    BY <2>1, <2>3 DEF Lone, CopiedApart, Copied, Others
  <2>8. at'[u] \notin shared'[u] => Copied(u, at[u])'
    <3>1. ASSUME NEW b \in Areas, CopyUpper(u, b) PROVE Copied(u, at[u])'
      <4>1. pc'[u] = "copying" /\ at'[u] = b /\ frame'[u] = <<fb[b], 0>>
        BY <3>1 DEF CopyUpper, BackBuffer, Goto, TypeOK
      <4>2. frame'[u][1] = fb[b]
        BY <4>1
      <4>. QED  BY <2>1, <4>1, <4>2 DEF Copied
    <3>2. ASSUME CopyLower(u), at'[u] \notin shared'[u] PROVE Copied(u, at[u])'
      <4>1. pc[u] = "copying" /\ at' = at /\ frame'[u] = <<frame[u][1], fb[at[u]]>>
        BY <3>2 DEF CopyLower, BackBuffer, Goto, TypeOK
      <4>2. frame'[u][1] = frame[u][1] /\ frame'[u][2] = fb[at[u]]
        BY <4>1
      <4>3. at[u] \in Areas
        BY <4>1, HeldAreas DEF TypeOK
      <4>4. Copied(u, at[u])
        BY <2>1, <3>2, <4>1, <4>3 DEF Lone, CopiedApart
      <4>. QED  BY <2>1, <4>1, <4>2, <4>4 DEF Copied
    <3>. QED  BY <1>6, <3>1, <3>2
  <2>9. CopiedApart'
    BY <2>7, <2>8 DEF CopiedApart
  <2>. QED  BY <2>5, <2>6, <2>9 DEF Lone
<1>7. ASSUME NEW u \in Threads, AddServerFrame(u) PROVE Lone'
  <2>1. /\ fb' = fb /\ pc[u] = "add"
        /\ last' = [last EXCEPT ![at[u]] = frame[u]]
        /\ alone' = IF at[u] \in shared[u] THEN alone \ {at[u]} ELSE alone \cup {at[u]}
        /\ \A t \in Threads \ {u} : shared'[t] = shared[t]
    BY <1>7 DEF AddServerFrame, handler, TypeOK
  <2>2. /\ at[u] \in Areas /\ at[u] # None
        /\ Held(u)' \subseteq Held(u) /\ Held(u) \ {at[u]} \subseteq Held(u)'
        /\ pc'[u] = Onwards(Held(u)') /\ shared'[u] = shared[u] \cap Held(u)'
        /\ at'[u] = None
    BY <1>7, SentIs, HeldAreas
  <2>3. Others(u)
    BY <1>7, OthersStay DEF Update
  <2>4. \A t \in Threads \ {u} : Held(t)' = Held(t)
    BY <2>3, SameHeld DEF Others
  <2>5. Apart'
    BY <2>1, <2>2, <2>4 DEF Lone, Apart
  <2>6. CopiedApart'
    BY <2>1, <2>2, <2>3 DEF Lone, CopiedApart, Copied, Others
  <2>7. LastIsBuffer'
    <3> SUFFICES ASSUME NEW a \in alone'
                 PROVE  /\ last'[a][1] = last'[a][2]
                        /\ \/ last'[a][1] = fb[a]
                           \/ \E t \in Threads : a \in Held(t)' /\ Sending(t)'
      BY <2>1 DEF LastIsBuffer
    <3>1. CASE a = at[u]
      <4>1. at[u] \notin shared[u]
        BY <2>1, <3>1
      <4>2. frame[u][1] = fb[a] /\ frame[u][2] = fb[a]
        BY <2>1, <2>2, <3>1, <4>1 DEF Lone, CopiedApart, Copied
      <4>3. last'[a] = frame[u]
        BY <2>1, <2>2, <3>1 DEF TypeOK
      <4>. QED  BY <4>2, <4>3
    <3>2. CASE a # at[u]
      <4>1. a \in alone /\ last'[a] = last[a]
        BY <2>1, <3>2 DEF TypeOK
      <4>2. last[a][1] = last[a][2]
        BY <4>1 DEF Lone, LastIsBuffer
      <4>3. CASE last[a][1] = fb[a]
        BY <4>1, <4>2, <4>3
      <4>4. CASE last[a][1] # fb[a]
        <5>1. PICK t \in Threads : a \in Held(t) /\ Sending(t)
          BY <4>1, <4>4 DEF Lone, LastIsBuffer
        <5>2. CASE t = u
          <6>1. a \in Held(u)'
            BY <2>2, <3>2, <5>1, <5>2
          <6>2. pc'[u] = "copy"
            BY <2>2, <6>1 DEF Onwards
          <6>. QED  BY <4>1, <4>2, <6>1, <6>2 DEF Sending
        <5>3. CASE t # u
          BY <2>3, <2>4, <4>1, <4>2, <5>1, <5>3 DEF Others, Sending
        <5>. QED  BY <5>2, <5>3
      <4>. QED  BY <4>3, <4>4
    <3>. QED  BY <3>1, <3>2
  <2>. QED  BY <2>5, <2>6, <2>7 DEF Lone
<1>. QED
  BY <1>1, <1>2, <1>3, <1>4, <1>5, <1>6, <1>7 DEF Next, Detect, Update, Threads

----------------------------------------------------------------------------
LEMMA IInvStep == IInv /\ [Next]_vars => IInv'
<1> SUFFICES ASSUME IInv, [Next]_vars PROVE IInv'
  OBVIOUS
<1>1. mapped' = mapped
  BY DEF Next, Construct, SetAbsoluteRect, AddFirstRect, StoreHandler, Paint, Detect,
     FollowRing, CursorChanged, Update, OnUpdate, Crash, Extract, Filter, TestAbsolute,
     ClearAbsolute, CopyUpper, CopyLower, AddServerFrame, display, vars
<1>2. TypeOK' /\ Lone'
  BY TypeStep, LoneStep DEF IInv
<1>3. mapped => NotFiltered' /\ NotSent' /\ Bounded'
  BY NotFilteredStep, NotSentStep, BoundedStep DEF IInv
<1>. QED
  BY <1>1, <1>2, <1>3 DEF IInv

\* The variables keep their types, through every interleaving of the threads.
THEOREM TypeCorrect == Spec => []TypeOK
BY InitIInv, IInvStep, PTL DEF Spec, IInv

LEMMA InvariantHolds == Spec => []IInv
BY InitIInv, IInvStep, PTL DEF Spec

\* No change of the screen is lost while the screen can be grabbed, for any
\* number of areas, detector threads and paints, any moves of windows and any
\* size of the ring.
THEOREM NoChangeLost == Spec => []ChangeOnItsWay
<1>1. IInv => ChangeOnItsWay
  <2> SUFFICES ASSUME IInv, mapped, NEW a \in Areas, best[a] # screen[a], ~Untold(a)
               PROVE  OnItsWay(a)
    BY DEF ChangeOnItsWay
  <2>1. CASE fb[a] # screen[a]
    BY <2>1 DEF IInv, NotFiltered, OnItsWay
  <2>2. CASE fb[a] = screen[a]
    BY <2>2 DEF IInv, NotSent, Carries, OnItsWay
  <2>. QED
    BY <2>1, <2>2
<1>. QED
  BY <1>1, InvariantHolds, PTL

\* A frame sent without sharing its area is of one moment, and shows the screen
\* when nothing of the area is on its way.
THEOREM UnsharedInStepHolds == Spec => []UnsharedInStep
<1>1. IInv => UnsharedInStep
  <2> SUFFICES ASSUME IInv, NEW a \in alone
               PROVE  /\ last[a][1] = last[a][2]
                      /\ mapped => \/ OnItsWay(a) \/ Untold(a)
                                   \/ last[a] = <<screen[a], screen[a]>>
    BY DEF UnsharedInStep
  <2>1. a \in Areas /\ last[a] \in Content \X Content
    BY DEF IInv, TypeOK
  <2>2. /\ last[a][1] = last[a][2]
        /\ last[a][1] = fb[a] \/ \E t \in Threads : a \in Held(t)
    BY DEF IInv, Lone, LastIsBuffer
  <2>3. ASSUME mapped, ~OnItsWay(a), ~Untold(a)
        PROVE  last[a] = <<screen[a], screen[a]>>
    <3>1. fb[a] = screen[a] /\ last[a][1] = fb[a]
      BY <2>1, <2>2, <2>3 DEF IInv, NotFiltered, OnItsWay
    <3>2. last[a] = <<last[a][1], last[a][2]>>
      BY <2>1
    <3>. QED  BY <2>2, <3>1, <3>2
  <2>. QED
    BY <2>2, <2>3
<1>. QED
  BY <1>1, InvariantHolds, PTL

-----------------------------------------------------------------------------
(* The keeper.                                                             *)

(***************************************************************************)
(* Rectangles.                                                             *)
(***************************************************************************)
LEMMA PointsOf ==
  ASSUME NEW r \in Rects
  PROVE  /\ Points(r) \subseteq Int \X Int
         /\ \A i, j \in Int :
              <<i, j>> \in Points(r) <=> /\ r.left <= i /\ i < r.right
                                         /\ r.top <= j /\ j < r.bottom
BY DEF Points, Rects

LEMMA SidesOf ==
  ASSUME NEW r \in Rects
  PROVE  /\ r.left \in Int /\ r.top \in Int /\ r.right \in Int /\ r.bottom \in Int
         /\ Width(r) = r.right - r.left /\ Height(r) = r.bottom - r.top
BY DEF Rects, Width, Height

LEMMA NoPoints ==
  ASSUME NEW r \in Rects, \A i, j \in Int : <<i, j>> \notin Points(r)
  PROVE  Points(r) = {}
<1>1. ASSUME NEW p \in Points(r) PROVE FALSE
  <2>1. p \in Int \X Int
    BY PointsOf
  <2>2. PICK i \in Int, j \in Int : p = <<i, j>>
    BY <2>1
  <2>. QED  BY <2>2
<1>. QED  BY <1>1

LEMMA EmptyHasNoPoints ==
  ASSUME NEW r \in Rects
  PROVE  RectIsEmpty(r) <=> Points(r) = {}
<1>1. ASSUME ~RectIsEmpty(r) PROVE <<r.left, r.top>> \in Points(r)
  BY <1>1, PointsOf DEF RectIsEmpty, Width, Height, Rects
<1>2. ASSUME RectIsEmpty(r) PROVE Points(r) = {}
  <2>1. ASSUME NEW i \in Int, NEW j \in Int
        PROVE  <<i, j>> \notin Points(r)
    BY <1>2, PointsOf, SidesOf DEF RectIsEmpty
  <2>. QED  BY <2>1, NoPoints
<1>. QED  BY <1>1, <1>2

\* A rectangle moved by (dx, dy) covers the points moved likewise.
LEMMA ShiftPoints ==
  ASSUME NEW r \in Rects, NEW s \in Rects, NEW dx \in Int, NEW dy \in Int,
         s = Rect(r.left + dx, r.top + dy, r.right + dx, r.bottom + dy),
         NEW i \in Int, NEW j \in Int
  PROVE  <<i, j>> \in Points(r) <=> <<i + dx, j + dy>> \in Points(s)
<1>1. i + dx \in Int /\ j + dy \in Int
  OBVIOUS
<1>2. /\ s.left = r.left + dx /\ s.top = r.top + dy
      /\ s.right = r.right + dx /\ s.bottom = r.bottom + dy
  BY DEF Rect
<1>3. /\ r.left \in Int /\ r.top \in Int /\ r.right \in Int /\ r.bottom \in Int
  BY DEF Rects
<1>4. <<i, j>> \in Points(r) <=> /\ r.left <= i /\ i < r.right
                                /\ r.top <= j /\ j < r.bottom
  BY PointsOf
<1>5. <<i + dx, j + dy>> \in Points(s) <=>
        /\ s.left <= i + dx /\ i + dx < s.right
        /\ s.top <= j + dy /\ j + dy < s.bottom
  BY <1>1, PointsOf
<1>. QED  BY <1>2, <1>3, <1>4, <1>5

\* The intersection of two rectangles covers the points both cover; when they
\* are apart it is the rectangle of zeroes, which covers none.
LEMMA IntersectionIs ==
  ASSUME NEW r \in Rects, NEW s \in Rects
  PROVE  /\ Intersection(r, s) \in Rects
         /\ Points(Intersection(r, s)) = Points(r) \cap Points(s)
<1> DEFINE both == Rect(Larger(r.left, s.left), Larger(r.top, s.top),
                        Smaller(r.right, s.right), Smaller(r.bottom, s.bottom))
<1>1. both \in Rects
  BY DEF Rect, Rects, Larger, Smaller
<1>2. Intersection(r, s) \in Rects
  BY <1>1 DEF Intersection, Zero, Rect, Rects
<1>3. ASSUME NEW i \in Int, NEW j \in Int
      PROVE  <<i, j>> \in Points(both) <=> <<i, j>> \in Points(r) \cap Points(s)
  BY <1>1, PointsOf DEF Rect, Rects, Larger, Smaller
<1>4. Points(both) = Points(r) \cap Points(s)
  BY <1>1, <1>3, PointsOf
<1>5. CASE Intersection(r, s) = both
  BY <1>2, <1>4, <1>5
<1>6. CASE Intersection(r, s) # both
  <2>1. Intersection(r, s) = Zero
    BY <1>6 DEF Intersection
  <2>2. Width(both) < 0 \/ Height(both) < 0
    BY <1>6 DEF Intersection
  <2>4. Points(Zero) = {}
    BY DEF Zero, Rect, Points
  <2>5. Points(both) = {}
    <3>. HIDE DEF both
    <3>1. RectIsEmpty(both)
      BY <1>1, <2>2, SidesOf DEF RectIsEmpty
    <3>. QED  BY <1>1, <3>1, EmptyHasNoPoints
  <2>. QED  BY <1>2, <1>4, <2>1, <2>4, <2>5
<1>. QED  BY <1>5, <1>6

(***************************************************************************)
(* The clipping of addCopyRect.  Whether the rectangles meet or not, the   *)
(* destination is the source shifted back, so it covers the points of the  *)
(* moved window that are on the screen and were before the move.           *)
(***************************************************************************)
LEMMA ClipIs ==
  ASSUME NEW to \in Rects, NEW from \in Rects
  PROVE  LET dst == Clip(to, from).dst
             src == Clip(to, from).src
         IN  /\ dst \in Rects /\ src \in Rects
             /\ src.left - dst.left = from.left - to.left
             /\ src.top - dst.top = from.top - to.top
             /\ \A p \in Int \X Int :
                  p \in Points(dst) <=>
                    p \in Points(to) /\ p \in Screen /\ Before(from, to, p) \in Screen
<1> DEFINE dx == from.left - to.left
           dy == from.top - to.top
           on == Intersection(to, Border)
           shifted == SetLocation(to, from.left, from.top)
           onSource == Corrected(shifted, on, to)
           src == Intersection(onSource, Border)
           dst == Corrected(on, src, onSource)
<1>1. Border \in Rects /\ dx \in Int /\ dy \in Int
  BY KeeperAssumption DEF Rects
<1>2. on \in Rects /\ Points(on) = Points(to) \cap Screen
  BY <1>1, IntersectionIs DEF Screen
<1>3. /\ shifted = Rect(to.left + dx, to.top + dy, to.right + dx, to.bottom + dy)
      /\ shifted \in Rects
  BY <1>1 DEF SetLocation, MoveRect, Rect, Rects
<1>4. /\ onSource = Rect(on.left + dx, on.top + dy, on.right + dx, on.bottom + dy)
      /\ onSource \in Rects
  <2>. HIDE DEF dx, dy, on, shifted
  <2>. QED  BY <1>1, <1>2, <1>3 DEF Corrected, Rect, Rects
<1>5. src \in Rects /\ Points(src) = Points(onSource) \cap Screen
  BY <1>1, <1>4, IntersectionIs DEF Screen
<1>6. /\ dst = Rect(src.left - dx, src.top - dy, src.right - dx, src.bottom - dy)
      /\ dst \in Rects
  <2>. HIDE DEF dx, dy, on, onSource, src
  <2>. QED  BY <1>1, <1>2, <1>4, <1>5 DEF Corrected, Rect, Rects
<1>7. /\ src = Rect(dst.left + dx, dst.top + dy, dst.right + dx, dst.bottom + dy)
      /\ src.left - dst.left = dx /\ src.top - dst.top = dy
  <2>. HIDE DEF dx, dy, onSource, src, dst
  <2>1. src = Rect(dst.left + dx, dst.top + dy, dst.right + dx, dst.bottom + dy)
    BY <1>1, <1>5, <1>6 DEF Rect, Rects
  <2>2. src.left - dst.left = dx /\ src.top - dst.top = dy
    BY <1>1, <1>5, <1>6 DEF Rect, Rects
  <2>. QED  BY <2>1, <2>2
<1>8. ASSUME NEW i \in Int, NEW j \in Int
      PROVE  <<i, j>> \in Points(dst) <=> /\ <<i, j>> \in Points(to) /\ <<i, j>> \in Screen
                                          /\ Before(from, to, <<i, j>>) \in Screen
  <2>1. Before(from, to, <<i, j>>) = <<i + dx, j + dy>>
    BY DEF Before, TranslatePoint
  <2>. HIDE DEF dx, dy, src, dst, onSource, on
  <2>2. <<i, j>> \in Points(dst) <=> <<i + dx, j + dy>> \in Points(src)
    BY <1>1, <1>5, <1>6, <1>7, ShiftPoints
  <2>3. <<i, j>> \in Points(on) <=> <<i + dx, j + dy>> \in Points(onSource)
    BY <1>1, <1>2, <1>4, ShiftPoints
  <2>. QED  BY <1>2, <1>5, <2>1, <2>2, <2>3
<1>9. ASSUME NEW p \in Int \X Int
      PROVE  p \in Points(dst) <=>
               p \in Points(to) /\ p \in Screen /\ Before(from, to, p) \in Screen
  <2>1. PICK i \in Int, j \in Int : p = <<i, j>>
    OBVIOUS
  <2>. HIDE DEF dst
  <2>. QED  BY <1>8, <2>1
<1>10. Clip(to, from).dst = dst /\ Clip(to, from).src = src
  BY DEF Clip
<1>. HIDE DEF src, dst
<1>. QED  BY <1>5, <1>6, <1>7, <1>9, <1>10 DEF dx, dy

-----------------------------------------------------------------------------
(***************************************************************************)
(* An update.                                                              *)
(***************************************************************************)
LEMMA ScreenIs ==
  /\ Screen \subseteq Int \X Int
  /\ Places \subseteq Rects
BY KeeperAssumption, PointsOf DEF Screen

\* What an update takes from the keeper, with the move of the window: all that
\* is changed, and where the move is recorded all of the window.
LEMMA ExtractedIs ==
  ASSUME KeeperTypeOK
  PROVE  /\ Extracted.changed \subseteq Screen /\ Extracted.copied \subseteq Screen
         /\ changed \subseteq Extracted.changed \cup Extracted.copied
         /\ Recorded =>
              Points(win) \cap Screen \subseteq Extracted.changed \cup Extracted.copied
         /\ \A p \in Extracted.copied : Before(Extracted.src, Extracted.dst, p) \in Screen
<1> DEFINE clip == Clip(win, was)
           region == Added(changed, Uncopied(win, clip.dst))
<1>1. /\ win \in Rects /\ was \in Rects /\ changed \subseteq Screen
  BY ScreenIs DEF KeeperTypeOK
<1>2. /\ clip.dst \in Rects /\ clip.src \in Rects
      /\ clip.src.left - clip.dst.left = was.left - win.left
      /\ clip.src.top - clip.dst.top = was.top - win.top
      /\ \A p \in Int \X Int :
           p \in Points(clip.dst) <=>
             p \in Points(win) /\ p \in Screen /\ Before(was, win, p) \in Screen
  BY <1>1, ClipIs
<1>. HIDE DEF clip
<1>3. CASE win = was \/ RectIsEmpty(clip.dst)
  <2>1. Extracted = Container(changed, {}, Zero, Zero)
    BY <1>3 DEF Extracted, clip
  <2>2. Extracted.changed = changed /\ Extracted.copied = {}
    BY <2>1 DEF Container
  <2>3. ~Recorded
    <3>1. ASSUME Recorded PROVE FALSE
      <4>1. PICK p \in Points(win) \cap Screen : Before(was, win, p) \in Screen
        BY <3>1 DEF Recorded
      <4>2. p \in Points(clip.dst)
        BY <1>2, <4>1, ScreenIs
      <4>. QED  BY <1>2, <1>3, <3>1, <4>2, EmptyHasNoPoints DEF Recorded
    <3>. QED  BY <3>1
  <2>. QED  BY <1>1, <2>2, <2>3
<1>4. CASE ~(win = was \/ RectIsEmpty(clip.dst))
  <2>1. Extracted = Container(Carried(region, clip.src, clip.dst) \cap Screen,
                              Points(clip.dst) \cap Screen, clip.src, clip.dst)
    BY <1>4 DEF Extracted, clip
  <2>. HIDE DEF region
  <2>2. /\ Extracted.changed = Carried(region, clip.src, clip.dst) \cap Screen
        /\ Extracted.copied = Points(clip.dst) \cap Screen
        /\ Extracted.src = clip.src /\ Extracted.dst = clip.dst
    BY <2>1 DEF Container
  <2>3. region \ Points(clip.dst) \subseteq Carried(region, clip.src, clip.dst)
    BY DEF Carried
  <2>4. /\ changed \subseteq region /\ region \subseteq Screen
        /\ (Points(win) \ Points(clip.dst)) \cap Screen \subseteq region
    BY <1>1 DEF region, Added, Uncopied
  <2>5. ASSUME NEW p \in Extracted.copied
        PROVE  Before(Extracted.src, Extracted.dst, p) \in Screen
    <3>1. Before(was, win, p) \in Screen
      BY <1>2, <2>2, ScreenIs
    <3>. QED  BY <1>2, <2>2, <3>1 DEF Before
  <2>. QED  BY <1>1, <2>2, <2>3, <2>4, <2>5
<1>. QED  BY <1>3, <1>4

\* The back buffer and the frames after an update: both show the screen where
\* it was checked, and what they did elsewhere.
LEMMA UpdateIs ==
  ASSUME KeeperTypeOK, picture = backup, SendUpdate
  PROVE  /\ backup' \in Images /\ picture' = backup'
         /\ \A p \in Screen :
              backup'[p] = IF p \in Extracted.changed \cup Extracted.copied
                           THEN pixels[p] ELSE backup[p]
<1> DEFINE c == Extracted
           checked == c.changed \cup c.copied
           repeated == Repeated(c)
           differs == {p \in checked : repeated[p] # pixels[p]}
<1>1. /\ c.changed \subseteq Screen /\ c.copied \subseteq Screen
      /\ \A p \in c.copied : Before(c.src, c.dst, p) \in Screen
  BY ExtractedIs
<1>2. pixels \in Images /\ backup \in Images
  BY DEF KeeperTypeOK
<1>3. /\ backup' = [p \in Screen |-> IF p \in differs THEN pixels[p] ELSE repeated[p]]
      /\ picture' = [p \in Screen |->
                       IF p \in differs \cup c.copied THEN backup'[p] ELSE picture[p]]
  BY DEF SendUpdate
<1>. HIDE DEF c
<1>4. /\ repeated \in Images
      /\ \A p \in Screen : p \notin c.copied => repeated[p] = backup[p]
  BY <1>1, <1>2 DEF Repeated, Images
<1>. HIDE DEF repeated
<1>5. /\ backup' \in Images
      /\ \A p \in Screen : backup'[p] = IF p \in checked THEN pixels[p] ELSE backup[p]
  <2>1. \A p \in Screen : backup'[p] = IF p \in differs THEN pixels[p] ELSE repeated[p]
    BY <1>3
  <2>2. backup' \in Images
    BY <1>2, <1>3, <1>4 DEF Images
  <2>. QED  BY <1>4, <2>1, <2>2
<1>6. picture' = backup'
  <2>1. \A p \in Screen : p \notin differs \cup c.copied => backup'[p] = picture[p]
    BY <1>3, <1>4
  <2>2. \A p \in Screen : picture'[p] = backup'[p]
    BY <1>3, <2>1
  <2>3. picture' = [p \in Screen |-> picture'[p]]
    BY <1>3
  <2>4. backup' = [p \in Screen |-> backup'[p]]
    BY <1>5 DEF Images
  <2>. QED  BY <2>2, <2>3, <2>4
<1>. QED  BY <1>5, <1>6 DEF c

-----------------------------------------------------------------------------
(***************************************************************************)
(* Between updates the frames show what the back buffer does, and a window *)
(* that was moved covers all it brought onto the screen.                   *)
(***************************************************************************)
KeeperInv ==
  /\ KeeperTypeOK /\ NothingLost
  /\ picture = backup
  /\ brought \subseteq Points(win)

LEMMA KeeperStart == KeeperInit => KeeperInv
BY DEF KeeperInit, KeeperInv, KeeperTypeOK, NothingLost

LEMMA KeeperStep == KeeperInv /\ [KeeperNext]_keeperVars => KeeperInv'
<1> SUFFICES ASSUME KeeperInv, [KeeperNext]_keeperVars PROVE KeeperInv'
  OBVIOUS
<1> USE DEF KeeperInv
<1>1. ASSUME NEW r \in Paints, NEW c \in Colours, AddChangedRect(r, c) PROVE KeeperInv'
  <2>1. /\ pixels' = [p \in Screen |-> IF p \in Points(r) THEN c ELSE pixels[p]]
        /\ changed' = (changed \cup Points(r)) \cap Screen
        /\ UNCHANGED <<win, was, backup, picture, brought, missed>>
    BY <1>1 DEF AddChangedRect, Added
  <2>2. KeeperTypeOK'
    BY <2>1 DEF KeeperTypeOK, Images
  <2>3. NothingLost'
    BY <2>1 DEF NothingLost, KeeperTypeOK
  <2>. QED  BY <2>1, <2>2, <2>3
<1>2. ASSUME NEW to \in Places, NEW c \in Colours, MoveWindow(to, c) PROVE KeeperInv'
  <2>1. /\ pixels' = [p \in Screen |->
              IF p \in Points(to)
              THEN IF Before(win, to, p) \in Screen THEN pixels[Before(win, to, p)] ELSE c
              ELSE IF p \in Points(win) THEN c ELSE pixels[p]]
        /\ changed' = (changed \cup (Points(win) \ Points(to))) \cap Screen
        /\ win' = to /\ brought' = Points(to) \cap Screen
        /\ UNCHANGED <<was, backup, picture, missed>>
    BY <1>2 DEF MoveWindow, Added
  <2>2. KeeperTypeOK'
    <3>1. pixels' \in Images
      BY <2>1 DEF KeeperTypeOK, Images
    <3>. QED  BY <2>1, <3>1 DEF KeeperTypeOK
  <2>3. NothingLost'
    <3> SUFFICES ASSUME NEW p \in Screen, picture[p] # pixels'[p]
                 PROVE  p \in changed' \cup brought' \cup missed
      BY <2>1 DEF NothingLost
    <3>1. CASE p \in Points(win) \cup Points(to)
      BY <2>1, <3>1
    <3>2. CASE p \notin Points(win) \cup Points(to)
      <4>1. pixels'[p] = pixels[p]
        BY <2>1, <3>2
      <4>. QED  BY <2>1, <3>2, <4>1 DEF NothingLost, KeeperTypeOK
    <3>. QED  BY <3>1, <3>2
  <2>. QED  BY <2>1, <2>2, <2>3
<1>3. CASE SendUpdate
  <2> DEFINE checked == Extracted.changed \cup Extracted.copied
  <2>1. /\ changed' = {} /\ brought' = {} /\ was' = win
        /\ pixels' = pixels /\ win' = win
        /\ missed' = (missed \cup (IF Recorded THEN {} ELSE brought)) \ checked
    BY <1>3 DEF SendUpdate
  <2>2. /\ backup' \in Images /\ picture' = backup'
        /\ \A p \in Screen :
             backup'[p] = IF p \in checked THEN pixels[p] ELSE backup[p]
    BY <1>3, UpdateIs
  <2>3. /\ changed \subseteq checked
        /\ Recorded => Points(win) \cap Screen \subseteq checked
    BY ExtractedIs
  <2>. HIDE DEF checked
  <2>4. KeeperTypeOK'
    BY <2>1, <2>2 DEF KeeperTypeOK
  <2>5. NothingLost'
    <3> SUFFICES ASSUME NEW p \in Screen, picture'[p] # pixels[p]
                 PROVE  p \in missed'
      BY <2>1 DEF NothingLost
    <3>1. p \notin checked /\ picture[p] # pixels[p]
      BY <2>2
    <3>2. p \in brought \cup missed
      BY <2>3, <3>1 DEF NothingLost
    <3>3. Recorded => p \notin brought
      BY <2>3, <3>1
    <3>. QED  BY <2>1, <3>1, <3>2, <3>3
  <2>. QED  BY <2>1, <2>2, <2>4, <2>5
<1>4. CASE UNCHANGED keeperVars
  BY <1>4 DEF keeperVars, KeeperTypeOK, NothingLost
<1>. QED
  BY <1>1, <1>2, <1>3, <1>4 DEF KeeperNext

\* Every variable of the keeper keeps its type.
THEOREM KeeperTypeCorrect == KeeperSpec => []KeeperTypeOK
<1>1. KeeperInv => KeeperTypeOK
  BY DEF KeeperInv
<1>. QED  BY <1>1, KeeperStart, KeeperStep, PTL DEF KeeperSpec

\* What the frames do not show is in the next update, however clipping and
\* overlap mix the copied with the changed, for every screen, window and move;
\* lost are only the points of a window that came with nothing recorded.
THEOREM NothingIsLost == KeeperSpec => []NothingLost
<1>1. KeeperInv => NothingLost
  BY DEF KeeperInv
<1>. QED  BY <1>1, KeeperStart, KeeperStep, PTL DEF KeeperSpec

\* The keeper of the composition that is model-checked is the keeper.
LEMMA CaptureIsKeeper == CaptureSpec => KeeperSpec
<1>1. CaptureInit => KeeperInit
  BY DEF CaptureInit, KeeperIdle
<1>2. [CaptureNext]_captureVars => [KeeperNext]_keeperVars
  BY DEF CaptureNext, captureVars, notPipeline, notFilter, KeeperNext
<1>. QED  BY <1>1, <1>2, PTL DEF CaptureSpec, KeeperSpec

\* The same in the composition that is model-checked (UpdateKeeper.cpp:68-131,
\* UpdateFilter.cpp:57-69, UpdateHandlerServer.cpp:55-74).
THEOREM KeeperExactHolds == CaptureSpec => []KeeperExact
BY CaptureIsKeeper, KeeperTypeCorrect, NothingIsLost, PTL DEF KeeperExact

-----------------------------------------------------------------------------
(* The filter: numbers.                                                    *)

LEMMA LeastNumber ==
  ASSUME NEW S, S \subseteq Nat, S # {}
  PROVE  \E m \in S : \A t \in S : m <= t
<1>1. PICK m \in S : \A t \in S : ~(<<t, m>> \in OpToRel(<, Nat))
  BY NatLessThanWellFounded, WFMin
<1>2. ASSUME NEW t \in S, t < m PROVE FALSE
  <2>1. <<t, m>> \in Nat \X Nat  OBVIOUS
  <2>2. <<t, m>>[1] < <<t, m>>[2]  BY <1>2
  <2>. QED  BY <1>1, <2>1, <2>2 DEF OpToRel
<1>. QED  BY <1>2

LEMMA LeastIs ==
  ASSUME NEW S, S \subseteq Int, S # {}, NEW a \in Int, \A x \in S : a <= x
  PROVE  Least(S) \in S /\ \A x \in S : Least(S) <= x
<1>. DEFINE T == {x - a : x \in S}
<1>1. T \subseteq Nat /\ T # {}
  <2>1. ASSUME NEW x \in S PROVE x - a \in Nat  OBVIOUS
  <2>2. \E x \in S : x - a \in T  OBVIOUS
  <2>. QED  BY <2>1, <2>2
<1>2. PICK m \in T : \A t \in T : m <= t  BY <1>1, LeastNumber
<1>3. PICK x \in S : m = x - a  BY <1>2
<1>4. \A y \in S : x <= y
  <2>. SUFFICES ASSUME NEW y \in S PROVE x <= y  OBVIOUS
  <2>1. y - a \in T /\ y \in Int /\ x \in Int  OBVIOUS
  <2>2. x - a <= y - a  BY <1>2, <1>3, <2>1
  <2>. HIDE DEF T
  <2>. QED  BY <2>1, <2>2
<1>. QED  BY <1>4 DEF Least

LEMMA GreatestIs ==
  ASSUME NEW S, S \subseteq Int, S # {}, NEW a \in Int, \A x \in S : x <= a
  PROVE  Greatest(S) \in S /\ \A x \in S : x <= Greatest(S)
<1>. DEFINE T == {a - x : x \in S}
<1>1. T \subseteq Nat /\ T # {}
  <2>1. ASSUME NEW x \in S PROVE a - x \in Nat  OBVIOUS
  <2>2. \E x \in S : a - x \in T  OBVIOUS
  <2>. QED  BY <2>1, <2>2
<1>2. PICK m \in T : \A t \in T : m <= t  BY <1>1, LeastNumber
<1>3. PICK x \in S : m = a - x  BY <1>2
<1>4. \A y \in S : x >= y
  <2>. SUFFICES ASSUME NEW y \in S PROVE x >= y  OBVIOUS
  <2>1. a - y \in T /\ y \in Int /\ x \in Int  OBVIOUS
  <2>2. a - x <= a - y  BY <1>2, <1>3, <2>1
  <2>. HIDE DEF T
  <2>. QED  BY <2>1, <2>2
<1>5. Greatest(S) \in S /\ \A y \in S : Greatest(S) >= y  BY <1>4 DEF Greatest
<1>. DEFINE g == Greatest(S)
<1>. HIDE DEF g
<1>6. \A y \in S : y <= g
  <2>. SUFFICES ASSUME NEW y \in S PROVE y <= g  OBVIOUS
  <2>1. g >= y /\ g \in Int /\ y \in Int  BY <1>5 DEF g
  <2>. QED  BY <2>1
<1>. QED  BY <1>5, <1>6 DEF g

LEMMA Division ==
  ASSUME NEW a \in Int, NEW b \in Int, b > 0, a >= 0 PROVE a = b * (a \div b) + (a % b)
BY Z3

LEMMA Multiples ==
  ASSUME NEW b \in Nat \ {0}, NEW x \in Int, NEW y \in Int, x < y
  PROVE  b * x + b <= b * y
<1>1. PICK d \in Nat : y = x + 1 + d
  <2>1. y - x - 1 \in Nat /\ y = x + 1 + (y - x - 1)  OBVIOUS
  <2>. QED  BY <2>1
<1>2. b * y = b * x + b + b * d  BY <1>1
<1>3. b * d \in Nat  OBVIOUS
<1>. QED  BY <1>2, <1>3

\* The places from l on at which a block begins.
Starts(l) == {x \in Int : x >= l /\ (x - l) % BlockSize = 0}

LEMMA StartIs ==
  ASSUME NEW l \in Int, NEW x \in Int
  PROVE  x \in Starts(l) <=> \E k \in Nat : x = l + BlockSize * k
<1>. BlockSize \in Nat \ {0}  BY FilterAssumption
<1>1. ASSUME x \in Starts(l) PROVE \E k \in Nat : x = l + BlockSize * k
  <2>1. PICK a \in Nat : a = x - l /\ a % BlockSize = 0  BY <1>1 DEF Starts
  <2>2. a \div BlockSize \in Nat  OBVIOUS
  <2>3. a = BlockSize * (a \div BlockSize) + (a % BlockSize)  BY Division
  <2>4. PICK q \in Nat : q = a \div BlockSize  BY <2>2
  <2>5. BlockSize * q \in Nat  OBVIOUS
  <2>6. x = l + BlockSize * q  BY <2>1, <2>3, <2>4, <2>5
  <2>. QED  BY <2>6
<1>2. ASSUME NEW k \in Nat, x = l + BlockSize * k PROVE x \in Starts(l)
  <2>1. PICK a \in Nat : a = BlockSize * k /\ x - l = a
    <3>1. BlockSize * k \in Nat  OBVIOUS
    <3>. QED  BY <1>2, <3>1
  <2>2. a = BlockSize * (a \div BlockSize) + (a % BlockSize)  BY Division
  <2>3. PICK q \in Nat, m \in 0 .. BlockSize - 1 : q = a \div BlockSize /\ m = a % BlockSize  OBVIOUS
  <2>4. BlockSize * k = BlockSize * q + m  BY <2>1, <2>2, <2>3
  <2>5. ~(q < k)
    <3>1. q < k => BlockSize * q + BlockSize <= BlockSize * k  BY Multiples
    <3>. QED  BY <2>4, <3>1
  <2>6. ~(k < q)
    <3>1. k < q => BlockSize * k + BlockSize <= BlockSize * q  BY Multiples
    <3>. QED  BY <2>4, <3>1
  <2>7. k = q /\ m = 0  BY <2>4, <2>5, <2>6
  <2>. QED  BY <2>1, <2>3, <2>7 DEF Starts
<1>. QED  BY <1>1, <1>2

LEMMA StartsApart ==
  ASSUME NEW l \in Int, NEW a \in Starts(l), NEW b \in Starts(l), a < b
  PROVE  a + BlockSize <= b
<1>. BlockSize \in Nat \ {0}  BY FilterAssumption
<1>0. a \in Int /\ b \in Int  BY DEF Starts
<1>1. PICK i \in Nat : a = l + BlockSize * i  BY <1>0, StartIs
<1>2. PICK j \in Nat : b = l + BlockSize * j  BY <1>0, StartIs
<1>3. i < j
  <2>1. j < i => BlockSize * j + BlockSize <= BlockSize * i  BY Multiples
  <2>. QED  BY <1>1, <1>2, <2>1
<1>4. BlockSize * i + BlockSize <= BlockSize * j  BY <1>3, Multiples
<1>. QED  BY <1>1, <1>2, <1>4

LEMMA StartNext ==
  ASSUME NEW l \in Int, NEW a \in Starts(l)
  PROVE  a + BlockSize \in Starts(l) /\ (a > l => a - BlockSize \in Starts(l))
<1>. BlockSize \in Nat \ {0}  BY FilterAssumption
<1>0. a \in Int /\ a + BlockSize \in Int /\ a - BlockSize \in Int  BY DEF Starts
<1>1. PICK i \in Nat : a = l + BlockSize * i  BY <1>0, StartIs
<1>2. i + 1 \in Nat /\ a + BlockSize = l + BlockSize * (i + 1)  BY <1>1
<1>3. a > l => i # 0  BY <1>1
<1>4. a > l => i - 1 \in Nat /\ a - BlockSize = l + BlockSize * (i - 1)  BY <1>1, <1>3
<1>. QED  BY <1>0, <1>2, <1>4, StartIs

LEMMA StartOf ==
  ASSUME NEW l \in Int, NEW x \in Int, x >= l
  PROVE  \E a \in Starts(l) : a <= x /\ x < a + BlockSize
<1>. BlockSize \in Nat \ {0}  BY FilterAssumption
<1>1. PICK d \in Nat : d = x - l  OBVIOUS
<1>2. d = BlockSize * (d \div BlockSize) + (d % BlockSize)  BY Division
<1>3. PICK q \in Nat, m \in 0 .. BlockSize - 1 : q = d \div BlockSize /\ m = d % BlockSize  OBVIOUS
<1>4. PICK a \in Int : a = l + BlockSize * q  OBVIOUS
<1>5. a \in Starts(l)  BY <1>4, StartIs
<1>6. x = a + m  BY <1>1, <1>2, <1>3, <1>4
<1>. QED  BY <1>5, <1>6
-----------------------------------------------------------------------------
(* Rectangles round what differs.                                          *)

Holds(r, x, y) == r.left <= x /\ x < r.right /\ r.top <= y /\ y < r.bottom

IsRect(r) == r \in Rects /\ r.left < r.right /\ r.top < r.bottom

ColumnDiffers(r, x) == \E y \in r.top .. r.bottom - 1 : <<x, y>> \in diff

\* A pixel on each side differs.
Tight(r) ==
  /\ RowDiffers(r.left, r.right, r.top) /\ RowDiffers(r.left, r.right, r.bottom - 1)
  /\ ColumnDiffers(r, r.left) /\ ColumnDiffers(r, r.right - 1)

\* The rectangles U are tight ones within the region P, have all of P that
\* differs, and do not overlap.
Exact(U, P) ==
  /\ \A r \in U : IsRect(r) /\ Tight(r) /\ \A x, y \in Int : Holds(r, x, y) => <<x, y>> \in P
  /\ \A x, y \in Int : <<x, y>> \in diff /\ <<x, y>> \in P => \E r \in U : Holds(r, x, y)
  /\ \A r, s \in U : \A x, y \in Int : Holds(r, x, y) /\ Holds(s, x, y) => r = s

LEMMA ExactWider ==
  ASSUME NEW U, NEW P, NEW Q, Exact(U, P),
         \A x, y \in Int : <<x, y>> \in P => <<x, y>> \in Q,
         \A x, y \in Int : <<x, y>> \in Q /\ <<x, y>> \in diff => <<x, y>> \in P
  PROVE  Exact(U, Q)
<1>1. \A r \in U : \A x, y \in Int : Holds(r, x, y) => <<x, y>> \in Q  BY DEF Exact
<1>2. \A x, y \in Int : <<x, y>> \in diff /\ <<x, y>> \in Q => \E r \in U : Holds(r, x, y)
  BY DEF Exact
<1>. QED  BY <1>1, <1>2 DEF Exact

Joined(F, I) == UNION {F[i] : i \in I}

\* Regions apart, each with its rectangles.
LEMMA ExactUnion ==
  ASSUME NEW I, NEW U, NEW P,
         \A i \in I : Exact(U[i], P[i]),
         \A i, j \in I : \A x, y \in Int : <<x, y>> \in P[i] /\ <<x, y>> \in P[j] => i = j
  PROVE  Exact(Joined(U, I), Joined(P, I))
<1>. DEFINE V == Joined(U, I)
            Q == Joined(P, I)
<1>0. /\ \A r \in V : \E i \in I : r \in U[i]
      /\ \A i \in I : \A r \in U[i] : r \in V
      /\ \A p : p \in Q => \E i \in I : p \in P[i]
      /\ \A i \in I : \A p \in P[i] : p \in Q
  BY DEF Joined
<1>. HIDE DEF V, Q
<1>1. ASSUME NEW r \in V
      PROVE  IsRect(r) /\ Tight(r) /\ \A x, y \in Int : Holds(r, x, y) => <<x, y>> \in Q
  <2>1. PICK i \in I : r \in U[i]  BY <1>0
  <2>2. Exact(U[i], P[i])  OBVIOUS
  <2>3. IsRect(r) /\ Tight(r) /\ \A x, y \in Int : Holds(r, x, y) => <<x, y>> \in P[i]
    BY <2>1, <2>2 DEF Exact
  <2>. QED  BY <1>0, <2>3
<1>2. ASSUME NEW x \in Int, NEW y \in Int, <<x, y>> \in diff, <<x, y>> \in Q
      PROVE  \E r \in V : Holds(r, x, y)
  <2>1. PICK i \in I : <<x, y>> \in P[i]  BY <1>0, <1>2
  <2>2. Exact(U[i], P[i])  OBVIOUS
  <2>3. PICK r \in U[i] : Holds(r, x, y)  BY <1>2, <2>1, <2>2 DEF Exact
  <2>. QED  BY <1>0, <2>3
<1>3. ASSUME NEW r \in V, NEW s \in V, NEW x \in Int, NEW y \in Int, Holds(r, x, y), Holds(s, x, y)
      PROVE  r = s
  <2>1. PICK i \in I : r \in U[i]  BY <1>0
  <2>2. PICK j \in I : s \in U[j]  BY <1>0
  <2>3. Exact(U[i], P[i]) /\ Exact(U[j], P[j])  OBVIOUS
  <2>4. <<x, y>> \in P[i] /\ <<x, y>> \in P[j]  BY <1>3, <2>1, <2>2, <2>3 DEF Exact
  <2>5. i = j  BY <2>4
  <2>. QED  BY <1>3, <2>1, <2>2, <2>3, <2>5 DEF Exact
<1>. QED  BY <1>1, <1>2, <1>3 DEF Exact, V, Q

LEMMA ExactBoth ==
  ASSUME NEW U, NEW V, NEW P, NEW Q, Exact(U, P), Exact(V, Q),
         \A x, y \in Int : ~(<<x, y>> \in P /\ <<x, y>> \in Q)
  PROVE  Exact(U \cup V, P \cup Q)
<1>1. ASSUME NEW r \in U \cup V
      PROVE  IsRect(r) /\ Tight(r) /\ \A x, y \in Int : Holds(r, x, y) => <<x, y>> \in P \cup Q
  <2>1. CASE r \in U  BY <2>1 DEF Exact
  <2>2. CASE r \in V  BY <2>2 DEF Exact
  <2>. QED  BY <2>1, <2>2
<1>2. ASSUME NEW x \in Int, NEW y \in Int, <<x, y>> \in diff, <<x, y>> \in P \cup Q
      PROVE  \E r \in U \cup V : Holds(r, x, y)
  <2>1. CASE <<x, y>> \in P  BY <1>2, <2>1 DEF Exact
  <2>2. CASE <<x, y>> \in Q  BY <1>2, <2>2 DEF Exact
  <2>. QED  BY <1>2, <2>1, <2>2
<1>3. ASSUME NEW r \in U \cup V, NEW s \in U \cup V, NEW x \in Int, NEW y \in Int,
             Holds(r, x, y), Holds(s, x, y)
      PROVE  r = s
  <2>1. r \in U => <<x, y>> \in P  BY <1>3 DEF Exact
  <2>2. s \in U => <<x, y>> \in P  BY <1>3 DEF Exact
  <2>3. r \in V => <<x, y>> \in Q  BY <1>3 DEF Exact
  <2>4. s \in V => <<x, y>> \in Q  BY <1>3 DEF Exact
  <2>0. ~(<<x, y>> \in P /\ <<x, y>> \in Q)  OBVIOUS
  <2>5. (r \in U /\ s \in U) \/ (r \in V /\ s \in V)  BY <2>0, <2>1, <2>2, <2>3, <2>4
  <2>6. CASE r \in U /\ s \in U  BY <1>3, <2>6 DEF Exact
  <2>7. CASE r \in V /\ s \in V  BY <1>3, <2>7 DEF Exact
  <2>. QED  BY <2>5, <2>6, <2>7
<1>. QED  BY <1>1, <1>2, <1>3 DEF Exact

LEMMA ExactEmpty ==
  ASSUME NEW P, \A x, y \in Int : <<x, y>> \in P => <<x, y>> \notin diff
  PROVE  Exact({}, P)
BY DEF Exact

LEMMA HeldPoints ==
  ASSUME NEW r, IsRect(r)
  PROVE  /\ \A x, y \in Int : <<x, y>> \in Points(r) <=> Holds(r, x, y)
         /\ Points(r) \subseteq Int \X Int
BY DEF IsRect, Rects, Points, Holds

\* updateChangedSubRect.
LEMMA SubRectIs ==
  ASSUME NEW r, IsRect(r), RowDiffers(r.left, r.right, r.top)
  PROVE  Exact({SubRect(r)}, Points(r))
<1>. DEFINE low == {y \in r.top + 1 .. r.bottom - 1 : RowDiffers(r.left, r.right, y)}
            bottom == IF low = {} THEN r.top + 1 ELSE Greatest(low) + 1
            cols == {x \in r.left .. r.right - 1 : \E y \in r.top .. bottom - 1 : <<x, y>> \in diff}
<1>0. r.left \in Int /\ r.top \in Int /\ r.right \in Int /\ r.bottom \in Int
      /\ r.left < r.right /\ r.top < r.bottom
  BY DEF IsRect, Rects
<1>1. /\ bottom \in Int /\ r.top < bottom /\ bottom <= r.bottom
      /\ RowDiffers(r.left, r.right, bottom - 1)
      /\ \A y \in r.top .. r.bottom - 1 : RowDiffers(r.left, r.right, y) => y < bottom
  <2>1. CASE low = {}
    <3>1. bottom = r.top + 1 /\ bottom - 1 = r.top  BY <1>0, <2>1
    <3>2. \A y \in r.top .. r.bottom - 1 : y \notin low => ~RowDiffers(r.left, r.right, y) \/ y = r.top
      BY <1>0
    <3>3. \A y \in r.top .. r.bottom - 1 : RowDiffers(r.left, r.right, y) => y = r.top
      BY <2>1, <3>2
    <3>. HIDE DEF bottom
    <3>. QED  BY <1>0, <3>1, <3>3
  <2>2. CASE low # {}
    <3>1. low \subseteq Int /\ \A y \in low : y <= r.bottom  BY <1>0
    <3>. HIDE DEF low
    <3>2. Greatest(low) \in low /\ \A y \in low : y <= Greatest(low)
      BY <1>0, <2>2, <3>1, GreatestIs
    <3>3. PICK g \in low : g = Greatest(low)  BY <3>2
    <3>4. bottom = g + 1  BY <2>2, <3>3
    <3>. HIDE DEF bottom
    <3>. USE DEF low
    <3>5. g \in r.top + 1 .. r.bottom - 1 /\ RowDiffers(r.left, r.right, g)  OBVIOUS
    <3>6. bottom \in Int /\ r.top < bottom /\ bottom <= r.bottom /\ bottom - 1 = g
      BY <1>0, <3>4, <3>5
    <3>7. ASSUME NEW y \in r.top .. r.bottom - 1, RowDiffers(r.left, r.right, y) PROVE y < bottom
      <4>1. CASE y = r.top  BY <1>0, <3>6, <4>1
      <4>2. CASE y # r.top
        <5>1. y \in low  BY <1>0, <3>7, <4>2
        <5>2. y <= g  BY <3>2, <3>3, <5>1
        <5>. HIDE DEF low
        <5>. QED  BY <1>0, <3>4, <3>5, <5>2
      <4>. QED  BY <4>1, <4>2
    <3>. QED  BY <3>5, <3>6, <3>7
  <2>. QED  BY <2>1, <2>2
<1>2. SubRect(r) = IF cols = {} THEN Rect(r.right - 1, r.top, r.left + 1, bottom)
                   ELSE Rect(Least(cols), r.top, Greatest(cols) + 1, bottom)
  BY DEF SubRect
<1>. HIDE DEF bottom
<1>3. PICK x0 \in r.left .. r.right - 1 : <<x0, r.top>> \in diff  BY DEF RowDiffers
<1>4. r.top \in r.top .. bottom - 1 /\ bottom - 1 \in r.top .. bottom - 1  BY <1>0, <1>1
<1>5. x0 \in cols  BY <1>3, <1>4
<1>6. cols \subseteq Int /\ \A x \in cols : r.left <= x /\ x <= r.right - 1  BY <1>0
<1>7. PICK x1 \in r.left .. r.right - 1 : <<x1, bottom - 1>> \in diff  BY <1>1 DEF RowDiffers
<1>8. x1 \in cols  BY <1>4, <1>7
<1>9. \A x \in cols : x \in r.left .. r.right - 1 /\ \E y \in r.top .. bottom - 1 : <<x, y>> \in diff
  OBVIOUS
<1>10. \A x \in r.left .. r.right - 1 : \A y \in r.top .. bottom - 1 : <<x, y>> \in diff => x \in cols
  OBVIOUS
<1>. HIDE DEF cols
<1>11. Least(cols) \in cols /\ \A x \in cols : Least(cols) <= x
  BY <1>0, <1>5, <1>6, LeastIs
<1>12. Greatest(cols) \in cols /\ \A x \in cols : x <= Greatest(cols)
  <2>1. r.right - 1 \in Int  BY <1>0
  <2>. QED  BY <1>5, <1>6, <2>1, GreatestIs
<1>13. PICK a \in cols, b \in cols : a = Least(cols) /\ b = Greatest(cols)  BY <1>11, <1>12
<1>14. a \in Int /\ b \in Int /\ \A x \in cols : a <= x /\ x <= b  BY <1>6, <1>11, <1>12, <1>13
<1>. DEFINE s == Rect(a, r.top, b + 1, bottom)
<1>15. SubRect(r) = s  BY <1>2, <1>5, <1>13
<1>16. s.left = a /\ s.right = b + 1 /\ s.top = r.top /\ s.bottom = bottom /\ s.right - 1 = b
  BY <1>14 DEF Rect
<1>17. IsRect(s)
  <2>1. s \in Rects  BY <1>0, <1>1, <1>14 DEF Rect, Rects
  <2>. HIDE DEF s
  <2>. QED  BY <1>1, <1>0, <1>14, <1>16, <2>1 DEF IsRect
<1>. HIDE DEF s
<1>18. Tight(s)
  <2>1. \A x \in cols : x \in s.left .. s.right - 1  BY <1>6, <1>14, <1>16
  <2>2. RowDiffers(s.left, s.right, s.top)  BY <1>3, <1>5, <1>16, <2>1 DEF RowDiffers
  <2>3. RowDiffers(s.left, s.right, s.bottom - 1)  BY <1>7, <1>8, <1>16, <2>1 DEF RowDiffers
  <2>4. ColumnDiffers(s, s.left) /\ ColumnDiffers(s, s.right - 1)
    BY <1>9, <1>16 DEF ColumnDiffers
  <2>. QED  BY <2>2, <2>3, <2>4 DEF Tight
<1>19. ASSUME NEW x \in Int, NEW y \in Int, Holds(s, x, y) PROVE <<x, y>> \in Points(r)
  <2>1. a \in r.left .. r.right - 1 /\ b \in r.left .. r.right - 1  BY <1>9
  <2>2. Holds(r, x, y)  BY <1>0, <1>1, <1>14, <1>16, <1>19, <2>1 DEF Holds
  <2>. QED  BY <2>2, HeldPoints
<1>20. ASSUME NEW x \in Int, NEW y \in Int, <<x, y>> \in diff, <<x, y>> \in Points(r)
       PROVE  Holds(s, x, y)
  <2>1. x \in r.left .. r.right - 1 /\ y \in r.top .. r.bottom - 1
    BY <1>0, <1>20, HeldPoints DEF Holds
  <2>2. y < bottom  BY <1>1, <1>20, <2>1 DEF RowDiffers
  <2>3. y \in r.top .. bottom - 1  BY <1>0, <1>1, <2>1, <2>2
  <2>4. x \in cols  BY <1>10, <1>20, <2>1, <2>3
  <2>. QED  BY <1>14, <1>16, <2>3, <2>4, <1>0, <1>1 DEF Holds
<1>. QED  BY <1>15, <1>17, <1>18, <1>19, <1>20 DEF Exact
-----------------------------------------------------------------------------
(* Blocks.                                                                 *)

LEMMA RunsAre ==
  ASSUME NEW r, IsRect(r), NEW y
  PROVE  \A a, c : <<a, c>> \in BlockRuns(r, y) <=>
           /\ a \in Starts(r.left) /\ c \in Starts(r.left) /\ a <= c /\ c < r.right
           /\ \A x \in Starts(r.left) : a <= x /\ x <= c => BlockDiffers(r, x, y)
           /\ ~BlockDiffers(r, a - BlockSize, y) /\ ~BlockDiffers(r, c + BlockSize, y)
<1>. r.left \in Int /\ r.right \in Int  BY DEF IsRect, Rects
<1>. DEFINE xs == {x \in r.left .. r.right - 1 : (x - r.left) % BlockSize = 0}
<1>1. \A x : x \in xs <=> x \in Starts(r.left) /\ x < r.right  BY DEF Starts
<1>2. \A a, c : <<a, c>> \in BlockRuns(r, y) <=>
           /\ a \in xs /\ c \in xs /\ a <= c
           /\ \A x \in xs : a <= x /\ x <= c => BlockDiffers(r, x, y)
           /\ ~BlockDiffers(r, a - BlockSize, y) /\ ~BlockDiffers(r, c + BlockSize, y)
  BY DEF BlockRuns
<1>. HIDE DEF xs
<1>3. \A x \in Starts(r.left) : x \in Int  BY DEF Starts
<1>. SUFFICES ASSUME NEW a, NEW c
              PROVE  <<a, c>> \in BlockRuns(r, y) <=>
                       /\ a \in Starts(r.left) /\ c \in Starts(r.left) /\ a <= c /\ c < r.right
                       /\ \A x \in Starts(r.left) : a <= x /\ x <= c => BlockDiffers(r, x, y)
                       /\ ~BlockDiffers(r, a - BlockSize, y) /\ ~BlockDiffers(r, c + BlockSize, y)
  OBVIOUS
<1>4. ASSUME a \in xs, c \in xs, a <= c
      PROVE  \A x \in Starts(r.left) : a <= x /\ x <= c => x \in xs
  BY <1>1, <1>3, <1>4
<1>5. a \in xs /\ c \in xs /\ a <= c <=>
        a \in Starts(r.left) /\ c \in Starts(r.left) /\ a <= c /\ c < r.right
  BY <1>1, <1>3
<1>6. ASSUME a \in xs, c \in xs, a <= c
      PROVE  (\A x \in xs : a <= x /\ x <= c => BlockDiffers(r, x, y)) <=>
               \A x \in Starts(r.left) : a <= x /\ x <= c => BlockDiffers(r, x, y)
  BY <1>1, <1>4, <1>6
<1>. QED  BY <1>2, <1>5, <1>6

LEMMA RunIsPair ==
  ASSUME NEW r, NEW y, NEW run \in BlockRuns(r, y)
  PROVE  run = <<run[1], run[2]>>
BY DEF BlockRuns

\* A block that differs is in a run.
LEMMA RunThere ==
  ASSUME NEW r, IsRect(r), NEW y, NEW b \in Starts(r.left), BlockDiffers(r, b, y)
  PROVE  \E a, c \in Starts(r.left) : <<a, c>> \in BlockRuns(r, y) /\ a <= b /\ b <= c
<1>. r.left \in Int /\ r.right \in Int /\ BlockSize \in Nat /\ BlockSize > 1
  BY FilterAssumption DEF IsRect, Rects
<1>0. \A x \in Starts(r.left) : x \in Int /\ x >= r.left  BY DEF Starts
<1>1. \A x : BlockDiffers(r, x, y) => x \in Int /\ r.left <= x /\ x < r.right
  BY DEF BlockDiffers
<1>. DEFINE A == {x \in Starts(r.left) :
                    x <= b /\ \A z \in Starts(r.left) : x <= z /\ z <= b => BlockDiffers(r, z, y)}
            C == {x \in Starts(r.left) :
                    b <= x /\ \A z \in Starts(r.left) : b <= z /\ z <= x => BlockDiffers(r, z, y)}
<1>2. b \in A /\ b \in C
  <2>1. b <= b /\ \A z \in Starts(r.left) : b <= z /\ z <= b => z = b  BY <1>0
  <2>. QED  BY <2>1
<1>3. Least(A) \in A /\ \A x \in A : Least(A) <= x
  <2>1. A \subseteq Int /\ \A x \in A : r.left <= x  BY <1>0
  <2>. HIDE DEF A
  <2>. QED  BY <1>2, <2>1, LeastIs
<1>4. Greatest(C) \in C /\ \A x \in C : x <= Greatest(C)
  <2>1. ASSUME NEW x \in C PROVE x \in Int /\ x <= r.right
    <3>1. x \in Starts(r.left) /\ b <= x /\ x <= x  BY <1>0
    <3>2. BlockDiffers(r, x, y)  BY <3>1
    <3>. QED  BY <1>1, <3>2
  <2>2. C \subseteq Int /\ \A x \in C : x <= r.right  BY <2>1
  <2>. HIDE DEF C
  <2>. QED  BY <1>2, <2>2, GreatestIs
<1>5. PICK a \in A, c \in C : a = Least(A) /\ c = Greatest(C)  BY <1>3, <1>4
<1>6. /\ a \in Starts(r.left) /\ c \in Starts(r.left) /\ a <= b /\ b <= c
      /\ \A z \in Starts(r.left) : a <= z /\ z <= b => BlockDiffers(r, z, y)
      /\ \A z \in Starts(r.left) : b <= z /\ z <= c => BlockDiffers(r, z, y)
  OBVIOUS
<1>7. \A x \in Starts(r.left) : a <= x /\ x <= c => BlockDiffers(r, x, y)  BY <1>0, <1>6
<1>8. a \in Int /\ c \in Int /\ b \in Int /\ a <= c /\ c < r.right
  <2>1. BlockDiffers(r, c, y)  BY <1>0, <1>6
  <2>. QED  BY <1>0, <1>1, <1>6, <2>1
<1>9. ~BlockDiffers(r, a - BlockSize, y)
  <2>. SUFFICES ASSUME BlockDiffers(r, a - BlockSize, y) PROVE FALSE  OBVIOUS
  <2>1. r.left <= a - BlockSize  BY <1>1
  <2>2. a - BlockSize \in Starts(r.left)  BY <1>6, <1>8, <2>1, StartNext
  <2>3. ASSUME NEW z \in Starts(r.left), a - BlockSize <= z, z <= b PROVE BlockDiffers(r, z, y)
    <3>1. CASE a <= z  BY <1>6, <2>3, <3>1
    <3>2. CASE z < a
      <4>1. z + BlockSize <= a  BY <1>6, <3>2, StartsApart
      <4>2. z = a - BlockSize  BY <1>0, <1>8, <2>3, <4>1
      <4>. QED  BY <4>2
    <3>. QED  BY <1>0, <1>8, <3>1, <3>2
  <2>4. a - BlockSize <= b  BY <1>6, <1>8
  <2>5. a - BlockSize \in A  BY <2>2, <2>3, <2>4
  <2>6. a <= a - BlockSize  BY <1>3, <1>5, <2>5
  <2>. HIDE DEF A, C
  <2>. QED  BY <1>8, <2>6
<1>10. ~BlockDiffers(r, c + BlockSize, y)
  <2>. SUFFICES ASSUME BlockDiffers(r, c + BlockSize, y) PROVE FALSE  OBVIOUS
  <2>2. c + BlockSize \in Starts(r.left)  BY <1>6, StartNext
  <2>3. ASSUME NEW z \in Starts(r.left), b <= z, z <= c + BlockSize PROVE BlockDiffers(r, z, y)
    <3>1. CASE z <= c  BY <1>6, <2>3, <3>1
    <3>2. CASE c < z
      <4>1. c + BlockSize <= z  BY <1>6, <3>2, StartsApart
      <4>2. z = c + BlockSize  BY <1>0, <1>8, <2>3, <4>1
      <4>. QED  BY <4>2
    <3>. QED  BY <1>0, <1>8, <3>1, <3>2
  <2>4. b <= c + BlockSize  BY <1>6, <1>8
  <2>5. c + BlockSize \in C  BY <2>2, <2>3, <2>4
  <2>6. c + BlockSize <= c  BY <1>4, <1>5, <2>5
  <2>. HIDE DEF A, C
  <2>. QED  BY <1>8, <2>6
<1>. HIDE DEF A, C
<1>. QED  BY <1>6, <1>7, <1>8, <1>9, <1>10, RunsAre

\* Two runs have no place in common.
LEMMA RunsApart ==
  ASSUME NEW r, IsRect(r), NEW y, NEW a, NEW c, NEW b, NEW d,
         <<a, c>> \in BlockRuns(r, y), <<b, d>> \in BlockRuns(r, y),
         a <= b, NEW x \in Int, b <= x, x < c + BlockSize
  PROVE  a = b /\ c = d
<1>. r.left \in Int /\ r.right \in Int /\ BlockSize \in Nat /\ BlockSize > 1
  BY FilterAssumption DEF IsRect, Rects
<1>0. \A z \in Starts(r.left) : z \in Int /\ z >= r.left  BY DEF Starts
<1>1. /\ a \in Starts(r.left) /\ c \in Starts(r.left) /\ a <= c /\ c < r.right
      /\ \A z \in Starts(r.left) : a <= z /\ z <= c => BlockDiffers(r, z, y)
      /\ ~BlockDiffers(r, c + BlockSize, y)
  BY RunsAre
<1>2. /\ b \in Starts(r.left) /\ d \in Starts(r.left) /\ b <= d /\ d < r.right
      /\ \A z \in Starts(r.left) : b <= z /\ z <= d => BlockDiffers(r, z, y)
      /\ ~BlockDiffers(r, b - BlockSize, y) /\ ~BlockDiffers(r, d + BlockSize, y)
  BY RunsAre
<1>3. b <= c
  <2>1. c < b => c + BlockSize <= b  BY <1>1, <1>2, StartsApart
  <2>. QED  BY <1>0, <1>1, <1>2, <2>1
<1>4. a = b
  <2>. SUFFICES ASSUME a # b PROVE FALSE  OBVIOUS
  <2>1. a < b  BY <1>0, <1>1, <1>2
  <2>2. a + BlockSize <= b  BY <1>1, <1>2, <2>1, StartsApart
  <2>3. b - BlockSize \in Starts(r.left)
    <3>1. b > r.left  BY <1>0, <1>1, <1>2, <2>1
    <3>. QED  BY <1>2, <3>1, StartNext
  <2>4. a <= b - BlockSize /\ b - BlockSize <= c  BY <1>0, <1>1, <1>2, <1>3, <2>2
  <2>. QED  BY <1>1, <1>2, <2>3, <2>4
<1>5. ~(c < d)
  <2>. SUFFICES ASSUME c < d PROVE FALSE  OBVIOUS
  <2>1. c + BlockSize <= d /\ c + BlockSize \in Starts(r.left)  BY <1>1, <1>2, StartsApart, StartNext
  <2>2. b <= c + BlockSize  BY <1>0, <1>1, <1>2, <1>3
  <2>. QED  BY <1>1, <1>2, <2>1, <2>2
<1>6. ~(d < c)
  <2>. SUFFICES ASSUME d < c PROVE FALSE  OBVIOUS
  <2>1. d + BlockSize <= c /\ d + BlockSize \in Starts(r.left)  BY <1>1, <1>2, StartsApart, StartNext
  <2>2. a <= d + BlockSize  BY <1>0, <1>1, <1>2, <1>4
  <2>. QED  BY <1>1, <1>2, <2>1, <2>2
<1>. QED  BY <1>0, <1>1, <1>2, <1>4, <1>5, <1>6

\* The rectangle of a run of blocks.
WholeRun(r, a, c, y) ==
  Rect(a, y, Smaller(c + BlockSize, r.right), Smaller(y + BlockSize, r.bottom))

LEMMA WholeRunIs ==
  ASSUME NEW r, IsRect(r), NEW y \in r.top .. r.bottom - 1, NEW a \in Int, NEW c \in Int,
         r.left <= a, a <= c, c < r.right
  PROVE  /\ IsRect(WholeRun(r, a, c, y))
         /\ \A i, j \in Int : Holds(WholeRun(r, a, c, y), i, j) <=>
              /\ a <= i /\ i < c + BlockSize /\ i < r.right
              /\ y <= j /\ j < y + BlockSize /\ j < r.bottom
BY FilterAssumption DEF IsRect, Rects, Rect, Smaller, WholeRun, Holds

LEMMA PointAt ==
  ASSUME NEW r, IsRect(r), NEW p \in Points(r)
  PROVE  \E i, j \in Int : p = <<i, j>> /\ Holds(r, i, j)
<1>1. PICK i \in Int, j \in Int : p = <<i, j>>  BY HeldPoints
<1>. QED  BY <1>1, HeldPoints

LEMMA BlockDiffersIs ==
  ASSUME NEW r, IsRect(r), NEW y \in r.top .. r.bottom - 1, NEW x \in Int, r.left <= x, x < r.right
  PROVE  BlockDiffers(r, x, y) <=>
           \E i, j \in Int : <<i, j>> \in diff /\ Holds(WholeRun(r, x, x, y), i, j)
<1>1. IsRect(WholeRun(r, x, x, y))  BY WholeRunIs
<1>2. Block(r, x, y) = WholeRun(r, x, x, y)  BY DEF Block, WholeRun
<1>3. x \in r.left .. r.right - 1  BY DEF IsRect, Rects
<1>4. BlockDiffers(r, x, y) <=> \E p \in Points(WholeRun(r, x, x, y)) : p \in diff
  BY <1>2, <1>3 DEF BlockDiffers
<1>5. ASSUME NEW p \in Points(WholeRun(r, x, x, y)), p \in diff
      PROVE  \E i, j \in Int : <<i, j>> \in diff /\ Holds(WholeRun(r, x, x, y), i, j)
  BY <1>1, <1>5, PointAt
<1>6. ASSUME NEW i \in Int, NEW j \in Int, <<i, j>> \in diff, Holds(WholeRun(r, x, x, y), i, j)
      PROVE  \E p \in Points(WholeRun(r, x, x, y)) : p \in diff
  BY <1>1, <1>6, HeldPoints
<1>. QED  BY <1>4, <1>5, <1>6

\* The rows above the first that differs are cut off.
LEMMA FromFirstRow ==
  ASSUME NEW w, IsRect(w), NEW i \in Int, NEW j \in Int, <<i, j>> \in diff, Holds(w, i, j)
  PROVE  Exact({SubRect([w EXCEPT !.top = FirstRow(w)])}, Points(w))
<1>. DEFINE rows == {k \in w.top .. w.bottom - 1 : RowDiffers(w.left, w.right, k)}
<1>4. FirstRow(w) = Least(rows)  BY DEF FirstRow
<1>6. w.left \in Int /\ w.top \in Int /\ w.right \in Int /\ w.bottom \in Int
  BY DEF IsRect, Rects
<1>7. \A x, z \in Int : <<x, z>> \in diff /\ Holds(w, x, z) => z \in rows
  BY <1>6 DEF Holds, RowDiffers
<1>8. rows \subseteq Int /\ (\A z \in rows : w.top <= z) /\ j \in rows
  BY <1>6, <1>7
<1>9. \A z \in rows : z \in w.top .. w.bottom - 1 /\ RowDiffers(w.left, w.right, z)  OBVIOUS
<1>. HIDE DEF rows
<1>10. Least(rows) \in rows /\ \A z \in rows : Least(rows) <= z  BY <1>6, <1>8, LeastIs
<1>11. PICK t \in rows : t = Least(rows)  BY <1>10
<1>. DEFINE s == [w EXCEPT !.top = t]
<1>12. [w EXCEPT !.top = FirstRow(w)] = s  BY <1>4, <1>11
<1>13. /\ s \in Rects /\ s.left = w.left /\ s.right = w.right /\ s.bottom = w.bottom /\ s.top = t
  BY <1>8 DEF IsRect, Rects
<1>. HIDE DEF s
<1>14. w.top <= t /\ t < w.bottom /\ t \in Int  BY <1>6, <1>9
<1>15. IsRect(s)  BY <1>13, <1>14 DEF IsRect
<1>16. RowDiffers(s.left, s.right, s.top)  BY <1>9, <1>13
<1>17. Exact({SubRect(s)}, Points(s))  BY <1>15, <1>16, SubRectIs
<1>18. \A x, z \in Int : Holds(s, x, z) => Holds(w, x, z)  BY <1>6, <1>13, <1>14 DEF Holds
<1>19. \A x, z \in Int : Holds(w, x, z) /\ <<x, z>> \in diff => Holds(s, x, z)
  BY <1>7, <1>10, <1>11, <1>13 DEF Holds
<1>20. Exact({SubRect(s)}, Points(w))
  <2>1. \A x, z \in Int : <<x, z>> \in Points(s) => <<x, z>> \in Points(w)
    BY <1>15, <1>18, HeldPoints
  <2>2. \A x, z \in Int : <<x, z>> \in Points(w) /\ <<x, z>> \in diff => <<x, z>> \in Points(s)
    BY <1>15, <1>19, HeldPoints
  <2>. QED  BY <1>17, <2>1, <2>2, ExactWider
<1>. QED  BY <1>12, <1>20

LEMMA RunRectIs ==
  ASSUME NEW r, IsRect(r), NEW y \in r.top .. r.bottom - 1, NEW a, NEW c, <<a, c>> \in BlockRuns(r, y)
  PROVE  Exact({SubRect(RunRect(r, <<a, c>>, y))}, Points(WholeRun(r, a, c, y)))
<1>. r.left \in Int /\ r.right \in Int /\ r.top \in Int /\ r.bottom \in Int
     /\ BlockSize \in Nat /\ BlockSize > 1
  BY FilterAssumption DEF IsRect, Rects
<1>. DEFINE w == WholeRun(r, a, c, y)
<1>1. /\ a \in Int /\ c \in Int /\ r.left <= a /\ a <= c /\ c < r.right /\ BlockDiffers(r, a, y)
  <2>1. /\ a \in Starts(r.left) /\ c \in Starts(r.left) /\ a <= c /\ c < r.right
        /\ \A x \in Starts(r.left) : a <= x /\ x <= c => BlockDiffers(r, x, y)
    BY RunsAre
  <2>2. a \in Int /\ c \in Int /\ r.left <= a /\ a <= a  BY <2>1 DEF Starts
  <2>. QED  BY <2>1, <2>2
<1>2. IsRect(w)
  <2>1. IsRect(WholeRun(r, a, c, y))  BY <1>1, WholeRunIs
  <2>. QED  BY <2>1
<1>3. \A i, j \in Int : Holds(w, i, j) <=>
              /\ a <= i /\ i < c + BlockSize /\ i < r.right
              /\ y <= j /\ j < y + BlockSize /\ j < r.bottom
  BY <1>1, WholeRunIs
<1>4. RunRect(r, <<a, c>>, y) = [w EXCEPT !.top = FirstRow(w)]
  BY DEF RunRect, WholeRun
<1>. HIDE DEF w
<1>5. PICK i \in Int, j \in Int : <<i, j>> \in diff /\ Holds(w, i, j)
  <2>1. a < r.right /\ a <= a  BY <1>1
  <2>2. PICK i \in Int, j \in Int : <<i, j>> \in diff /\ Holds(WholeRun(r, a, a, y), i, j)
    BY <1>1, <2>1, BlockDiffersIs
  <2>3. \A p, q \in Int : Holds(WholeRun(r, a, a, y), p, q) <=>
              /\ a <= p /\ p < a + BlockSize /\ p < r.right
              /\ y <= q /\ q < y + BlockSize /\ q < r.bottom
    BY <1>1, <2>1, WholeRunIs
  <2>4. /\ a <= i /\ i < a + BlockSize /\ i < r.right
        /\ y <= j /\ j < y + BlockSize /\ j < r.bottom
    BY <2>2, <2>3
  <2>5. i < c + BlockSize  BY <1>1, <2>4
  <2>. QED  BY <1>3, <2>2, <2>4, <2>5
<1>6. Exact({SubRect([w EXCEPT !.top = FirstRow(w)])}, Points(w))  BY <1>2, <1>5, FromFirstRow
<1>. QED  BY <1>4, <1>6 DEF w

\* A row of blocks.
Band(r, y) == Points(Rect(r.left, y, r.right, Smaller(y + BlockSize, r.bottom)))

LEMMA BandPoints ==
  ASSUME NEW r, IsRect(r), NEW y \in r.top .. r.bottom - 1
  PROVE  \A i, j \in Int : <<i, j>> \in Band(r, y) <=>
           /\ r.left <= i /\ i < r.right
           /\ y <= j /\ j < y + BlockSize /\ j < r.bottom
<1>. DEFINE b == Rect(r.left, y, r.right, Smaller(y + BlockSize, r.bottom))
<1>1. IsRect(b) /\ \A i, j \in Int : Holds(b, i, j) <=>
           /\ r.left <= i /\ i < r.right
           /\ y <= j /\ j < y + BlockSize /\ j < r.bottom
  BY FilterAssumption DEF IsRect, Rects, Rect, Smaller, Holds
<1>2. Band(r, y) = Points(b)  BY DEF Band
<1>. HIDE DEF b
<1>. QED  BY <1>1, <1>2, HeldPoints

BandRects(r, y) == {SubRect(RunRect(r, run, y)) : run \in BlockRuns(r, y)}

LEMMA BandIs ==
  ASSUME NEW r, IsRect(r), NEW y \in r.top .. r.bottom - 1
  PROVE  Exact(BandRects(r, y), Band(r, y))
<1>. r.left \in Int /\ r.right \in Int /\ r.top \in Int /\ r.bottom \in Int
     /\ BlockSize \in Nat /\ BlockSize > 1
  BY FilterAssumption DEF IsRect, Rects
<1>. DEFINE I == BlockRuns(r, y)
            U == [run \in I |-> {SubRect(RunRect(r, run, y))}]
            P == [run \in I |-> Points(WholeRun(r, run[1], run[2], y))]
<1>1. ASSUME NEW run \in I
      PROVE  /\ run = <<run[1], run[2]>> /\ run[1] \in Int /\ run[2] \in Int
             /\ r.left <= run[1] /\ run[1] <= run[2] /\ run[2] < r.right
  <2>1. run = <<run[1], run[2]>>  BY RunIsPair
  <2>2. PICK a, c : a = run[1] /\ c = run[2] /\ <<a, c>> \in BlockRuns(r, y)  BY <2>1
  <2>3. a \in Starts(r.left) /\ c \in Starts(r.left) /\ a <= c /\ c < r.right  BY <2>2, RunsAre
  <2>4. a \in Int /\ c \in Int /\ r.left <= a  BY <2>3 DEF Starts
  <2>. QED  BY <2>1, <2>2, <2>3, <2>4
<1>2. ASSUME NEW run \in I
      PROVE  \A i, j \in Int : <<i, j>> \in P[run] <=>
                /\ run[1] <= i /\ i < run[2] + BlockSize /\ i < r.right
                /\ y <= j /\ j < y + BlockSize /\ j < r.bottom
  <2>1. PICK a \in Int, c \in Int : a = run[1] /\ c = run[2]  BY <1>1
  <2>2. r.left <= a /\ a <= c /\ c < r.right  BY <1>1, <2>1
  <2>3. P[run] = Points(WholeRun(r, a, c, y))  BY <2>1
  <2>. HIDE DEF P, I
  <2>4. IsRect(WholeRun(r, a, c, y))  BY <2>2, WholeRunIs
  <2>5. \A i, j \in Int : Holds(WholeRun(r, a, c, y), i, j) <=>
              /\ a <= i /\ i < c + BlockSize /\ i < r.right
              /\ y <= j /\ j < y + BlockSize /\ j < r.bottom
    BY <2>2, WholeRunIs
  <2>6. \A i, j \in Int : <<i, j>> \in Points(WholeRun(r, a, c, y)) <=> Holds(WholeRun(r, a, c, y), i, j)
    BY <2>4, HeldPoints
  <2>. QED  BY <2>1, <2>3, <2>5, <2>6
<1>3. \A run \in I : Exact(U[run], P[run])
  <2>. SUFFICES ASSUME NEW run \in I PROVE Exact(U[run], P[run])  OBVIOUS
  <2>1. PICK a, c : a = run[1] /\ c = run[2] /\ run = <<a, c>>  BY <1>1
  <2>2. U[run] = {SubRect(RunRect(r, <<a, c>>, y))} /\ P[run] = Points(WholeRun(r, a, c, y))
    BY <2>1
  <2>3. <<a, c>> \in BlockRuns(r, y)  BY <2>1
  <2>4. Exact({SubRect(RunRect(r, <<a, c>>, y))}, Points(WholeRun(r, a, c, y)))
    BY <2>3, RunRectIs
  <2>. HIDE DEF U, P, I
  <2>. QED  BY <2>2, <2>4
<1>4. ASSUME NEW run \in I, NEW sun \in I, NEW i \in Int, NEW j \in Int,
             <<i, j>> \in P[run], <<i, j>> \in P[sun]
      PROVE  run = sun
  <2>1. PICK a \in Int, c \in Int : a = run[1] /\ c = run[2] /\ run = <<a, c>>  BY <1>1
  <2>2. PICK b \in Int, d \in Int : b = sun[1] /\ d = sun[2] /\ sun = <<b, d>>  BY <1>1
  <2>3. <<a, c>> \in BlockRuns(r, y) /\ <<b, d>> \in BlockRuns(r, y)  BY <2>1, <2>2
  <2>4. a <= i /\ i < c + BlockSize /\ b <= i /\ i < d + BlockSize
    BY <1>2, <1>4, <2>1, <2>2
  <2>. HIDE DEF P, I, U
  <2>5. CASE a <= b
    <3>1. a = b /\ c = d  BY <2>3, <2>4, <2>5, RunsApart
    <3>. QED  BY <2>1, <2>2, <3>1
  <2>6. CASE b <= a
    <3>1. b = a /\ d = c  BY <2>3, <2>4, <2>6, RunsApart
    <3>. QED  BY <2>1, <2>2, <3>1
  <2>. QED  BY <2>5, <2>6
<1>5. BandRects(r, y) = Joined(U, I)
  BY DEF Joined, BandRects
<1>6. \A run \in I : \A p \in P[run] : p \in Joined(P, I)  BY DEF Joined
<1>7. \A p \in Joined(P, I) : \E run \in I : p \in P[run]  BY DEF Joined
<1>. DEFINE Q == Joined(P, I)
<1>. HIDE DEF P, U
<1>11. \A run, sun \in I : \A i, j \in Int :
         <<i, j>> \in P[run] /\ <<i, j>> \in P[sun] => run = sun
  BY <1>4
<1>8. Exact(Joined(U, I), Q)
  <2>. HIDE DEF I
  <2>. QED  BY <1>3, <1>11, ExactUnion
<1>. HIDE DEF Q
<1>9. ASSUME NEW i \in Int, NEW j \in Int, <<i, j>> \in Q PROVE <<i, j>> \in Band(r, y)
  <2>1. PICK run \in I : <<i, j>> \in P[run]  BY <1>7, <1>9 DEF Q
  <2>2. PICK a \in Int : a = run[1] /\ r.left <= a  BY <1>1
  <2>3. /\ a <= i /\ i < r.right /\ y <= j /\ j < y + BlockSize /\ j < r.bottom
    BY <1>2, <2>1, <2>2
  <2>. QED  BY <2>2, <2>3, BandPoints
<1>10. ASSUME NEW i \in Int, NEW j \in Int, <<i, j>> \in Band(r, y), <<i, j>> \in diff
       PROVE  <<i, j>> \in Q
  <2>1. /\ r.left <= i /\ i < r.right
        /\ y <= j /\ j < y + BlockSize /\ j < r.bottom
    BY <1>10, BandPoints
  <2>2. PICK b \in Starts(r.left) : b <= i /\ i < b + BlockSize  BY <2>1, StartOf
  <2>3. b \in Int /\ r.left <= b /\ b < r.right  BY <2>1, <2>2 DEF Starts
  <2>4. Holds(WholeRun(r, b, b, y), i, j)
    <3>1. b <= b  BY <2>3
    <3>2. Holds(WholeRun(r, b, b, y), i, j) <=>
            /\ b <= i /\ i < b + BlockSize /\ i < r.right
            /\ y <= j /\ j < y + BlockSize /\ j < r.bottom
      BY <2>3, <3>1, WholeRunIs
    <3>. QED  BY <2>1, <2>2, <3>2
  <2>5. BlockDiffers(r, b, y)  BY <1>10, <2>3, <2>4, BlockDiffersIs
  <2>6. PICK a \in Starts(r.left), c \in Starts(r.left) :
          <<a, c>> \in BlockRuns(r, y) /\ a <= b /\ b <= c
    BY <2>5, RunThere
  <2>7. PICK run \in I : run = <<a, c>>  BY <2>6
  <2>8. a \in Int /\ c \in Int /\ a <= i /\ i < c + BlockSize  BY <2>2, <2>3, <2>6 DEF Starts
  <2>9. run[1] = a /\ run[2] = c  BY <2>7
  <2>10. <<i, j>> \in P[run]  BY <1>2, <2>1, <2>8, <2>9
  <2>. QED  BY <1>6, <2>10 DEF Q
<1>. HIDE DEF I
<1>. QED  BY <1>5, <1>8, <1>9, <1>10, ExactWider

\* The rows at which a row of blocks begins.
BandStarts(r) == {v \in r.top .. r.bottom - 1 : (v - r.top) % BlockSize = 0}

LEMMA BandStartsAre ==
  ASSUME NEW r, IsRect(r)
  PROVE  \A y : y \in BandStarts(r) <=> y \in Starts(r.top) /\ y < r.bottom
BY DEF BandStarts, Starts, IsRect, Rects

LEMMA SmallRects ==
  ASSUME NEW r, IsSmall(r)
  PROVE  UpdateChangedRect(r) = {SubRect(r)}
BY DEF UpdateChangedRect

LEMMA BigRects ==
  ASSUME NEW r, IsRect(r), ~IsSmall(r)
  PROVE  Exact(UpdateChangedRect(r), Points(r))
<1>. r.left \in Int /\ r.right \in Int /\ r.top \in Int /\ r.bottom \in Int
     /\ BlockSize \in Nat /\ BlockSize > 1
  BY FilterAssumption DEF IsRect, Rects
<1>. DEFINE I == BandStarts(r)
            U == [y \in I |-> BandRects(r, y)]
            P == [y \in I |-> Band(r, y)]
<1>1. UpdateChangedRect(r) = Joined(U, I)
  <2>1. UpdateChangedRect(r) = UNION {BandRects(r, y) : y \in BandStarts(r)}
    BY DEF UpdateChangedRect, BandRects, BandStarts
  <2>. QED  BY <2>1 DEF Joined
<1>2. \A y \in I : y \in Starts(r.top) /\ y \in Int /\ r.top <= y /\ y < r.bottom
                   /\ y \in r.top .. r.bottom - 1
  BY BandStartsAre DEF Starts
<1>3. \A y \in I : Exact(U[y], P[y])
  <2>. SUFFICES ASSUME NEW y \in I PROVE Exact(U[y], P[y])  OBVIOUS
  <2>1. y \in r.top .. r.bottom - 1  BY <1>2
  <2>. HIDE DEF I
  <2>. QED  BY <2>1, BandIs
<1>4. \A y \in I : \A i, j \in Int : <<i, j>> \in P[y] <=>
           /\ r.left <= i /\ i < r.right
           /\ y <= j /\ j < y + BlockSize /\ j < r.bottom
  <2>. SUFFICES ASSUME NEW y \in I
                PROVE  \A i, j \in Int : <<i, j>> \in P[y] <=>
                         /\ r.left <= i /\ i < r.right
                         /\ y <= j /\ j < y + BlockSize /\ j < r.bottom
    OBVIOUS
  <2>1. y \in r.top .. r.bottom - 1 /\ P[y] = Band(r, y)  BY <1>2
  <2>. HIDE DEF I, P
  <2>. QED  BY <2>1, BandPoints
<1>5. \A y, z \in I : \A i, j \in Int : <<i, j>> \in P[y] /\ <<i, j>> \in P[z] => y = z
  <2>. HIDE DEF I, P
  <2>. SUFFICES ASSUME NEW y \in I, NEW z \in I, NEW i \in Int, NEW j \in Int,
                       <<i, j>> \in P[y], <<i, j>> \in P[z]
                PROVE  y = z
    OBVIOUS
  <2>1. y <= j /\ j < y + BlockSize /\ z <= j /\ j < z + BlockSize  BY <1>4
  <2>2. y < z => y + BlockSize <= z  BY <1>2, StartsApart
  <2>3. z < y => z + BlockSize <= y  BY <1>2, StartsApart
  <2>. QED  BY <1>2, <2>1, <2>2, <2>3
<1>. HIDE DEF U, P
<1>6. Exact(Joined(U, I), Joined(P, I))
  <2>. HIDE DEF I
  <2>. QED  BY <1>3, <1>5, ExactUnion
<1>7. ASSUME NEW i \in Int, NEW j \in Int, <<i, j>> \in Joined(P, I)
      PROVE  <<i, j>> \in Points(r)
  <2>1. PICK y \in I : <<i, j>> \in P[y]  BY <1>7 DEF Joined
  <2>2. Holds(r, i, j)  BY <1>2, <1>4, <2>1 DEF Holds
  <2>. QED  BY <2>2, HeldPoints
<1>8. ASSUME NEW i \in Int, NEW j \in Int, <<i, j>> \in Points(r)
      PROVE  <<i, j>> \in Joined(P, I)
  <2>1. Holds(r, i, j)  BY <1>8, HeldPoints
  <2>2. PICK y \in Starts(r.top) : y <= j /\ j < y + BlockSize  BY <2>1, StartOf DEF Holds
  <2>3. y \in I  BY <2>1, <2>2, BandStartsAre DEF Holds, Starts
  <2>. HIDE DEF I
  <2>4. <<i, j>> \in P[y]  BY <1>4, <2>1, <2>2, <2>3 DEF Holds
  <2>. QED  BY <2>3, <2>4 DEF Joined
<1>. HIDE DEF I
<1>. QED  BY <1>1, <1>6, <1>7, <1>8, ExactWider

\* updateChangedRect: the top row is known to differ, or the rectangle is big.
LEMMA ChangedRectIs ==
  ASSUME NEW r, IsRect(r), RowDiffers(r.left, r.right, r.top)
  PROVE  Exact(UpdateChangedRect(r), Points(r))
<1>1. CASE IsSmall(r)  BY <1>1, SmallRects, SubRectIs
<1>2. CASE ~IsSmall(r)  BY <1>2, BigRects
<1>. QED  BY <1>1, <1>2

-----------------------------------------------------------------------------
(* The scan of a big rectangle.                                            *)

Skip == BlockSize \div 2 - 1

LEMMA SkipIs == Skip \in Nat
BY FilterAssumption DEF Skip

\* What the scan has at row y, from what it has further down.
ScanRow(r, f, y) ==
  [top \in {-1} \cup r.top .. r.bottom |->
     IF y >= r.bottom THEN UpToRow(r, top, r.bottom)
     ELSE IF RowDiffers(r.left, r.right, y)
     THEN f[y + Skip + 1][IF top = -1 THEN y ELSE top]
     ELSE UpToRow(r, top, y) \cup f[y + 1][-1]]

IsScan(r, a, f) == f = [y \in a .. r.bottom + Skip |-> ScanRow(r, f, y)]

LEMMA ScanRowSame ==
  ASSUME NEW r, NEW f, NEW g, NEW y,
         ~(y >= r.bottom) => f[y + Skip + 1] = g[y + Skip + 1] /\ f[y + 1] = g[y + 1]
  PROVE  ScanRow(r, f, y) = ScanRow(r, g, y)
BY DEF ScanRow

LEMMA ScanGrows ==
  ASSUME NEW r, IsRect(r), NEW a \in Int, a <= r.bottom + Skip + 1, NEW f, IsScan(r, a, f)
  PROVE  \E g : IsScan(r, a - 1, g)
<1>. r.bottom \in Int /\ Skip \in Nat  BY SkipIs DEF IsRect, Rects
<1>. DEFINE hi == r.bottom + Skip
            g == [y \in a - 1 .. hi |-> IF y = a - 1 THEN ScanRow(r, f, y) ELSE f[y]]
<1>1. \A y \in a .. hi : f[y] = ScanRow(r, f, y)
  <2>1. f = [y \in a .. hi |-> ScanRow(r, f, y)]  BY DEF IsScan
  <2>. QED  BY <2>1
<1>2. \A y \in a .. hi : g[y] = f[y]  OBVIOUS
<1>3. \A y \in a - 1 .. hi : g[y] = ScanRow(r, f, y)
  <2>1. \A y \in a - 1 .. hi : y # a - 1 => y \in a .. hi  OBVIOUS
  <2>2. \A y \in a - 1 .. hi : y = a - 1 => g[y] = ScanRow(r, f, y)  OBVIOUS
  <2>. HIDE DEF g
  <2>. QED  BY <1>1, <1>2, <2>1, <2>2
<1>4. g = [y \in a - 1 .. hi |-> g[y]]  OBVIOUS
<1>. HIDE DEF g
<1>5. ASSUME NEW y \in a - 1 .. hi PROVE ScanRow(r, f, y) = ScanRow(r, g, y)
  <2>1. ~(y >= r.bottom) => y + Skip + 1 \in a .. hi /\ y + 1 \in a .. hi  OBVIOUS
  <2>2. ~(y >= r.bottom) => f[y + Skip + 1] = g[y + Skip + 1] /\ f[y + 1] = g[y + 1]
    BY <1>2, <2>1
  <2>. QED  BY <2>2, ScanRowSame
<1>6. \A y \in a - 1 .. hi : g[y] = ScanRow(r, g, y)  BY <1>3, <1>5
<1>7. g = [y \in a - 1 .. hi |-> ScanRow(r, g, y)]  BY <1>4, <1>6
<1>. QED  BY <1>7 DEF IsScan

LEMMA ScanIsThere ==
  ASSUME NEW r, IsRect(r) PROVE \E f : IsScan(r, r.top, f)
<1>. r.bottom \in Int /\ r.top \in Int /\ r.top < r.bottom /\ Skip \in Nat
  BY SkipIs DEF IsRect, Rects
<1>. DEFINE hi == r.bottom + Skip
            Bad == {n \in Nat : ~\E f : IsScan(r, hi + 1 - n, f)}
<1>1. SUFFICES ASSUME Bad # {} PROVE FALSE
  <2>1. hi + 1 - r.top \in Nat /\ hi + 1 - (hi + 1 - r.top) = r.top  OBVIOUS
  <2>. QED  BY <2>1
<1>2. PICK m \in Bad : \A t \in Bad : m <= t
  <2>1. Bad \subseteq Nat  OBVIOUS
  <2>. HIDE DEF Bad
  <2>. QED  BY <1>1, <2>1, LeastNumber
<1>3. m # 0
  <2>. SUFFICES ASSUME m = 0 PROVE FALSE  OBVIOUS
  <2>1. hi + 1 .. hi = {}  OBVIOUS
  <2>. DEFINE e == [y \in {} |-> 0]
  <2>2. e = [y \in hi + 1 .. hi |-> ScanRow(r, e, y)]  BY <2>1
  <2>3. IsScan(r, hi + 1, e)  BY <2>2 DEF IsScan
  <2>4. hi + 1 - m = hi + 1  OBVIOUS
  <2>. QED  BY <2>3, <2>4
<1>4. m - 1 \in Nat /\ m - 1 \notin Bad
  <2>1. m \in Nat /\ m - 1 \in Nat  BY <1>3
  <2>2. m - 1 \in Bad => m <= m - 1  BY <1>2
  <2>. HIDE DEF Bad
  <2>. QED  BY <2>1, <2>2
<1>5. PICK f : IsScan(r, hi + 1 - (m - 1), f)  BY <1>4
<1>6. PICK a \in Int : a = hi + 1 - (m - 1)  BY <1>4
<1>7. a <= r.bottom + Skip + 1 /\ a - 1 = hi + 1 - m  BY <1>4, <1>6
<1>8. \E g : IsScan(r, a - 1, g)  BY <1>5, <1>6, <1>7, ScanGrows
<1>. QED  BY <1>7, <1>8

LEMMA ScanIs ==
  ASSUME NEW r, IsRect(r)
  PROVE  \E f : IsScan(r, r.top, f) /\ Scan(r) = f[r.top][-1]
<1>. DEFINE from == CHOOSE f : IsScan(r, r.top, f)
<1>1. IsScan(r, r.top, from)  BY ScanIsThere
<1>2. Scan(r) = from[r.top][-1]  BY DEF Scan, IsScan, ScanRow, Skip
<1>. QED  BY <1>1, <1>2

\* The rows of r from row t up to row b.
RowsOf(r, t, b) == Points(Rect(r.left, t, r.right, b))

LEMMA RowsAre ==
  ASSUME NEW r, IsRect(r), NEW t \in Int, NEW b \in Int
  PROVE  \A i, j \in Int : <<i, j>> \in RowsOf(r, t, b) <=>
           r.left <= i /\ i < r.right /\ t <= j /\ j < b
BY DEF RowsOf, IsRect, Rects, Rect, Points

LEMMA UpToRowIs ==
  ASSUME NEW r, IsRect(r), NEW t \in Int, NEW b \in Int, t # -1, t < b,
         RowDiffers(r.left, r.right, t)
  PROVE  Exact(UpToRow(r, t, b), RowsOf(r, t, b))
<1>. DEFINE s == Rect(r.left, t, r.right, b)
<1>1. [r EXCEPT !.top = t, !.bottom = b] = s
  <2>. DEFINE u == [r EXCEPT !.top = t, !.bottom = b]
  <2>1. r = [left |-> r.left, top |-> r.top, right |-> r.right, bottom |-> r.bottom]
    BY DEF IsRect, Rects
  <2>2. u \in Rects /\ u.left = r.left /\ u.top = t /\ u.right = r.right /\ u.bottom = b
    BY DEF IsRect, Rects
  <2>. HIDE DEF u
  <2>3. u = [left |-> u.left, top |-> u.top, right |-> u.right, bottom |-> u.bottom]
    BY <2>2 DEF Rects
  <2>4. u = s  BY <2>2, <2>3 DEF Rect
  <2>. QED  BY <2>4 DEF u
<1>2. /\ IsRect(s) /\ s.left = r.left /\ s.right = r.right /\ s.top = t
  BY DEF IsRect, Rects, Rect
<1>3. UpToRow(r, t, b) = UpdateChangedRect(s) /\ RowsOf(r, t, b) = Points(s)
  BY <1>1 DEF UpToRow, RowsOf
<1>. HIDE DEF s
<1>4. RowDiffers(s.left, s.right, s.top)  BY <1>2
<1>. QED  BY <1>2, <1>3, <1>4, ChangedRectIs

\* What the scan has at row y is exact for the rows below the rectangle it
\* has begun, and with it.
ScanGood(r, f, y) ==
  /\ Exact(f[y][-1], RowsOf(r, y, r.bottom))
  /\ \A t \in r.top .. r.bottom - 1 :
       t < y /\ RowDiffers(r.left, r.right, t) => Exact(f[y][t], RowsOf(r, t, r.bottom))

LEMMA ScanRowGood ==
  ASSUME NEW r, IsRect(r), r.top >= 0, NEW f, IsScan(r, r.top, f),
         NEW y \in r.top .. r.bottom + Skip,
         y < r.bottom => ScanGood(r, f, y + Skip + 1) /\ ScanGood(r, f, y + 1)
  PROVE  ScanGood(r, f, y)
<1>. r.bottom \in Int /\ r.top \in Int /\ r.top < r.bottom /\ Skip \in Nat /\ y \in Int
  BY SkipIs DEF IsRect, Rects
<1>1. f[y] = ScanRow(r, f, y)
  <2>1. f = [z \in r.top .. r.bottom + Skip |-> ScanRow(r, f, z)]  BY DEF IsScan
  <2>. QED  BY <2>1
<1>2. /\ f[y][-1] = IF y >= r.bottom THEN {}
                    ELSE IF RowDiffers(r.left, r.right, y) THEN f[y + Skip + 1][y]
                    ELSE f[y + 1][-1]
      /\ \A t \in r.top .. r.bottom - 1 :
           f[y][t] = IF y >= r.bottom THEN UpToRow(r, t, r.bottom)
                     ELSE IF RowDiffers(r.left, r.right, y) THEN f[y + Skip + 1][t]
                     ELSE UpToRow(r, t, y) \cup f[y + 1][-1]
  <2>1. -1 \in {-1} \cup r.top .. r.bottom /\ UpToRow(r, -1, r.bottom) = {} /\ UpToRow(r, -1, y) = {}
    BY DEF UpToRow
  <2>2. \A t \in r.top .. r.bottom - 1 : t \in {-1} \cup r.top .. r.bottom /\ t # -1
    OBVIOUS
  <2>. QED  BY <1>1, <2>1, <2>2 DEF ScanRow
<1>3. CASE y >= r.bottom
  <2>1. f[y][-1] = {}  BY <1>2, <1>3
  <2>2. ASSUME NEW i \in Int, NEW j \in Int, <<i, j>> \in RowsOf(r, y, r.bottom) PROVE FALSE
    <3>1. y <= j /\ j < r.bottom  BY <2>2, RowsAre
    <3>. QED  BY <1>3, <3>1
  <2>3. Exact(f[y][-1], RowsOf(r, y, r.bottom))  BY <2>1, <2>2, ExactEmpty
  <2>4. ASSUME NEW t \in r.top .. r.bottom - 1, RowDiffers(r.left, r.right, t)
        PROVE  Exact(f[y][t], RowsOf(r, t, r.bottom))
    <3>1. t \in Int /\ t # -1 /\ t < r.bottom  OBVIOUS
    <3>2. f[y][t] = UpToRow(r, t, r.bottom)  BY <1>2, <1>3
    <3>. QED  BY <2>4, <3>1, <3>2, UpToRowIs
  <2>. QED  BY <2>3, <2>4 DEF ScanGood
<1>4. CASE y < r.bottom /\ RowDiffers(r.left, r.right, y)
  <2>1. y \in r.top .. r.bottom - 1 /\ y < y + Skip + 1 /\ ~(y >= r.bottom)  BY <1>4
  <2>2. \A t \in r.top .. r.bottom - 1 :
          t < y + Skip + 1 /\ RowDiffers(r.left, r.right, t)
            => Exact(f[y + Skip + 1][t], RowsOf(r, t, r.bottom))
    BY <1>4 DEF ScanGood
  <2>3. Exact(f[y][-1], RowsOf(r, y, r.bottom))  BY <1>2, <1>4, <2>1, <2>2
  <2>4. ASSUME NEW t \in r.top .. r.bottom - 1, t < y, RowDiffers(r.left, r.right, t)
        PROVE  Exact(f[y][t], RowsOf(r, t, r.bottom))
    <3>1. t < y + Skip + 1  BY <2>4
    <3>2. f[y][t] = f[y + Skip + 1][t]  BY <1>2, <1>4, <2>1
    <3>. QED  BY <2>2, <2>4, <3>1, <3>2
  <2>. QED  BY <2>3, <2>4 DEF ScanGood
<1>5. CASE y < r.bottom /\ ~RowDiffers(r.left, r.right, y)
  <2>0. ~(y >= r.bottom) /\ y + 1 \in Int  BY <1>5
  <2>1. Exact(f[y + 1][-1], RowsOf(r, y + 1, r.bottom))  BY <1>5 DEF ScanGood
  <2>2. \A i \in Int : r.left <= i /\ i < r.right => <<i, y>> \notin diff
    BY <1>5 DEF RowDiffers, IsRect, Rects
  <2>3. Exact(f[y][-1], RowsOf(r, y, r.bottom))
    <3>1. f[y][-1] = f[y + 1][-1]  BY <1>2, <1>5, <2>0
    <3>2. \A i, j \in Int : <<i, j>> \in RowsOf(r, y, r.bottom) <=>
             r.left <= i /\ i < r.right /\ y <= j /\ j < r.bottom
      BY RowsAre
    <3>3. \A i, j \in Int : <<i, j>> \in RowsOf(r, y + 1, r.bottom) <=>
             r.left <= i /\ i < r.right /\ y + 1 <= j /\ j < r.bottom
      BY <2>0, RowsAre
    <3>4. \A i, j \in Int : <<i, j>> \in RowsOf(r, y + 1, r.bottom)
             => <<i, j>> \in RowsOf(r, y, r.bottom)
      BY <3>2, <3>3
    <3>5. ASSUME NEW i \in Int, NEW j \in Int, <<i, j>> \in RowsOf(r, y, r.bottom), <<i, j>> \in diff
          PROVE  <<i, j>> \in RowsOf(r, y + 1, r.bottom)
      <4>1. j # y  BY <2>2, <3>2, <3>5
      <4>. QED  BY <3>2, <3>3, <3>5, <4>1
    <3>. QED  BY <2>1, <3>1, <3>4, <3>5, ExactWider
  <2>4. ASSUME NEW t \in r.top .. r.bottom - 1, t < y, RowDiffers(r.left, r.right, t)
        PROVE  Exact(f[y][t], RowsOf(r, t, r.bottom))
    <3>0. t \in Int /\ t # -1 /\ t < y  BY <2>4
    <3>1. f[y][t] = UpToRow(r, t, y) \cup f[y + 1][-1]  BY <1>2, <1>5, <2>0
    <3>2. Exact(UpToRow(r, t, y), RowsOf(r, t, y))  BY <2>4, <3>0, UpToRowIs
    <3>3. \A i, j \in Int : <<i, j>> \in RowsOf(r, t, y) <=>
             r.left <= i /\ i < r.right /\ t <= j /\ j < y
      BY <3>0, RowsAre
    <3>4. \A i, j \in Int : <<i, j>> \in RowsOf(r, y + 1, r.bottom) <=>
             r.left <= i /\ i < r.right /\ y + 1 <= j /\ j < r.bottom
      BY <2>0, RowsAre
    <3>5. \A i, j \in Int : <<i, j>> \in RowsOf(r, t, r.bottom) <=>
             r.left <= i /\ i < r.right /\ t <= j /\ j < r.bottom
      BY <3>0, RowsAre
    <3>. DEFINE P == RowsOf(r, t, y)
                Q == RowsOf(r, y + 1, r.bottom)
                R == RowsOf(r, t, r.bottom)
    <3>. HIDE DEF P, Q, R
    <3>6. Exact(f[y][t], P \cup Q)
      <4>1. ASSUME NEW i \in Int, NEW j \in Int, <<i, j>> \in P, <<i, j>> \in Q PROVE FALSE
        <5>1. j < y  BY <3>3, <4>1 DEF P
        <5>2. y + 1 <= j  BY <3>4, <4>1 DEF Q
        <5>. QED  BY <5>1, <5>2
      <4>. QED  BY <2>1, <3>1, <3>2, <4>1, ExactBoth DEF P, Q
    <3>7. \A i, j \in Int : <<i, j>> \in P \cup Q => <<i, j>> \in R
      BY <1>5, <3>0, <3>3, <3>4, <3>5 DEF P, Q, R
    <3>8. ASSUME NEW i \in Int, NEW j \in Int, <<i, j>> \in R, <<i, j>> \in diff
          PROVE  <<i, j>> \in P \cup Q
      <4>1. r.left <= i /\ i < r.right /\ t <= j /\ j < r.bottom  BY <3>5, <3>8 DEF R
      <4>2. j # y  BY <2>2, <3>8, <4>1
      <4>. QED  BY <3>3, <3>4, <4>1, <4>2 DEF P, Q
    <3>9. Exact(f[y][t], R)  BY <3>6, <3>7, <3>8, ExactWider
    <3>. QED  BY <3>9 DEF R
  <2>. QED  BY <2>3, <2>4 DEF ScanGood
<1>. QED  BY <1>3, <1>4, <1>5

LEMMA ScanExact ==
  ASSUME NEW r, IsRect(r), r.top >= 0
  PROVE  Exact(Scan(r), Points(r))
<1>. r.bottom \in Int /\ r.top \in Int /\ r.top < r.bottom /\ Skip \in Nat
  BY SkipIs DEF IsRect, Rects
<1>1. PICK f : IsScan(r, r.top, f) /\ Scan(r) = f[r.top][-1]  BY ScanIs
<1>. DEFINE hi == r.bottom + Skip
            Bad == {n \in Nat : n <= hi - r.top /\ ~ScanGood(r, f, hi - n)}
<1>2. Bad = {}
  <2>. SUFFICES ASSUME Bad # {} PROVE FALSE  OBVIOUS
  <2>1. PICK m \in Bad : \A t \in Bad : m <= t
    <3>1. Bad \subseteq Nat  OBVIOUS
    <3>. HIDE DEF Bad
    <3>. QED  BY <3>1, LeastNumber
  <2>2. PICK y \in r.top .. hi : y = hi - m  OBVIOUS
  <2>3. ~ScanGood(r, f, y)  BY <2>2
  <2>4. ASSUME NEW z \in y + 1 .. hi PROVE ScanGood(r, f, z)
    <3>1. hi - z \in Nat /\ hi - z <= hi - r.top /\ hi - z < m /\ hi - (hi - z) = z
      BY <2>2, <2>4
    <3>2. hi - z \in Bad => m <= hi - z  BY <2>1
    <3>3. hi - z \notin Bad
      <4>1. m \in Nat  OBVIOUS
      <4>. HIDE DEF Bad
      <4>. QED  BY <3>1, <3>2, <4>1
    <3>. QED  BY <3>1, <3>3
  <2>5. y < r.bottom => y + Skip + 1 \in y + 1 .. hi /\ y + 1 \in y + 1 .. hi  OBVIOUS
  <2>6. y < r.bottom => ScanGood(r, f, y + Skip + 1) /\ ScanGood(r, f, y + 1)
    BY <2>4, <2>5
  <2>. HIDE DEF Bad
  <2>. QED  BY <1>1, <2>3, <2>6, ScanRowGood
<1>3. ScanGood(r, f, r.top)
  <2>1. hi - r.top \in Nat /\ hi - (hi - r.top) = r.top  OBVIOUS
  <2>. QED  BY <1>2, <2>1
<1>4. Exact(Scan(r), RowsOf(r, r.top, r.bottom))  BY <1>1, <1>3 DEF ScanGood
<1>5. RowsOf(r, r.top, r.bottom) = Points(r)  BY DEF RowsOf, Points, Rect
<1>. QED  BY <1>4, <1>5

\* getChangedRegion.
LEMMA ChangedRegionIs ==
  ASSUME NEW r, IsRect(r), r.top >= 0
  PROVE  Exact(GetChangedRegion(r), Points(r))
<1>1. CASE ~IsSmall(r)  BY <1>1, ScanExact DEF GetChangedRegion
<1>2. CASE IsSmall(r) /\ Points(r) \cap diff = {}
  <2>1. \A x, y \in Int : <<x, y>> \in Points(r) => <<x, y>> \notin diff  BY <1>2
  <2>. QED  BY <1>2, <2>1, ExactEmpty DEF GetChangedRegion
<1>3. CASE IsSmall(r) /\ Points(r) \cap diff # {}
  <2>1. PICK p \in Points(r) : p \in diff  BY <1>3
  <2>2. PICK i \in Int, j \in Int : p = <<i, j>> /\ Holds(r, i, j)  BY PointAt
  <2>3. Exact({SubRect([r EXCEPT !.top = FirstRow(r)])}, Points(r))
    BY <2>1, <2>2, FromFirstRow
  <2>. QED  BY <1>3, <2>3 DEF GetChangedRegion
<1>. QED  BY <1>1, <1>2, <1>3

-----------------------------------------------------------------------------
(* The rectangles of a region.                                             *)

IsRegion(region) ==
  /\ buffer \in Rects /\ buffer.left = 0 /\ buffer.top = 0
  /\ region \subseteq Points(buffer)

LEMMA RegionPoints ==
  ASSUME NEW region, IsRegion(region)
  PROVE  /\ buffer.right \in Int /\ buffer.bottom \in Int
         /\ \A x, y : <<x, y>> \in region =>
              /\ x \in Int /\ 0 <= x /\ x < buffer.right
              /\ y \in Int /\ 0 <= y /\ y < buffer.bottom
         /\ \A p \in region : \E x, y \in Int : p = <<x, y>>
<1>1. buffer.right \in Int /\ buffer.bottom \in Int /\ buffer.left = 0 /\ buffer.top = 0
  BY DEF IsRegion, Rects
<1>2. ASSUME NEW x, NEW y, <<x, y>> \in region
      PROVE  /\ x \in Int /\ 0 <= x /\ x < buffer.right
             /\ y \in Int /\ 0 <= y /\ y < buffer.bottom
  <2>1. <<x, y>> \in Points(buffer)  BY <1>2 DEF IsRegion
  <2>2. x \in 0 .. buffer.right - 1 /\ y \in 0 .. buffer.bottom - 1  BY <1>1, <2>1 DEF Points
  <2>. QED  BY <1>1, <2>2
<1>3. ASSUME NEW p \in region PROVE \E x, y \in Int : p = <<x, y>>
  <2>1. p \in Points(buffer)  BY DEF IsRegion
  <2>. QED  BY <1>1, <2>1 DEF Points
<1>. QED  BY <1>1, <1>2, <1>3

LEMMA RowRunsAre ==
  ASSUME NEW region, IsRegion(region), NEW y
  PROVE  \A a, b : <<a, b>> \in Runs(region, y) <=>
           /\ a \in Int /\ b \in Int /\ 0 <= a /\ a < b /\ b <= buffer.right
           /\ \A x \in Int : a <= x /\ x < b => <<x, y>> \in region
           /\ <<a - 1, y>> \notin region /\ <<b, y>> \notin region
<1>. SUFFICES ASSUME NEW a, NEW b
              PROVE  <<a, b>> \in Runs(region, y) <=>
                       /\ a \in Int /\ b \in Int /\ 0 <= a /\ a < b /\ b <= buffer.right
                       /\ \A x \in Int : a <= x /\ x < b => <<x, y>> \in region
                       /\ <<a - 1, y>> \notin region /\ <<b, y>> \notin region
  OBVIOUS
<1>1. buffer.right \in Int /\ buffer.left = 0  BY RegionPoints DEF IsRegion
<1>2. <<a, b>> \in Runs(region, y) <=>
        /\ a \in Columns /\ b \in Columns /\ a < b
        /\ (a .. b - 1) \X {y} \subseteq region
        /\ <<a - 1, y>> \notin region /\ <<b, y>> \notin region
  BY DEF Runs
<1>3. a \in Columns /\ b \in Columns /\ a < b <=>
        a \in Int /\ b \in Int /\ 0 <= a /\ a < b /\ b <= buffer.right
  BY <1>1 DEF Columns
<1>4. ASSUME a \in Int, b \in Int
      PROVE  (a .. b - 1) \X {y} \subseteq region <=>
               \A x \in Int : a <= x /\ x < b => <<x, y>> \in region
  <2>1. ASSUME (a .. b - 1) \X {y} \subseteq region, NEW x \in Int, a <= x, x < b
        PROVE  <<x, y>> \in region
    <3>1. <<x, y>> \in (a .. b - 1) \X {y}  BY <1>4, <2>1
    <3>. QED  BY <2>1, <3>1
  <2>2. ASSUME \A x \in Int : a <= x /\ x < b => <<x, y>> \in region,
               NEW p \in (a .. b - 1) \X {y}
        PROVE  p \in region
    <3>1. p = <<p[1], y>> /\ p[1] \in a .. b - 1  OBVIOUS
    <3>2. p[1] \in Int /\ a <= p[1] /\ p[1] < b  BY <1>4, <3>1
    <3>. QED  BY <2>2, <3>1, <3>2
  <2>. QED  BY <2>1, <2>2
<1>. QED  BY <1>2, <1>3, <1>4

LEMMA RowRunThere ==
  ASSUME NEW region, IsRegion(region), NEW x, NEW y, <<x, y>> \in region
  PROVE  \E a, b \in Int : <<a, b>> \in Runs(region, y) /\ a <= x /\ x < b
<1>1. /\ buffer.right \in Int /\ x \in Int /\ 0 <= x /\ x < buffer.right
      /\ \A z : <<z, y>> \in region => z \in Int /\ 0 <= z /\ z < buffer.right
  BY RegionPoints
<1>. DEFINE A == {a \in Int : a <= x /\ \A z \in Int : a <= z /\ z <= x => <<z, y>> \in region}
            B == {b \in Int : x < b /\ <<b, y>> \notin region}
<1>2. x \in A
  <2>1. x <= x /\ \A z \in Int : x <= z /\ z <= x => z = x  BY <1>1
  <2>. QED  BY <1>1, <2>1
<1>3. A \subseteq Int /\ \A a \in A : 0 <= a
  <2>1. ASSUME NEW a \in A PROVE 0 <= a
    <3>1. a <= a /\ a <= x /\ a \in Int  OBVIOUS
    <3>2. <<a, y>> \in region  BY <3>1
    <3>. QED  BY <1>1, <3>2
  <2>. QED  BY <2>1
<1>4. buffer.right \in B  BY <1>1
<1>5. B \subseteq Int /\ \A b \in B : x <= b  BY <1>1
<1>6. /\ \A a \in A : a \in Int /\ a <= x /\ \A z \in Int : a <= z /\ z <= x => <<z, y>> \in region
      /\ \A a \in Int : a <= x /\ (\A z \in Int : a <= z /\ z <= x => <<z, y>> \in region) => a \in A
      /\ \A b : b \in B <=> b \in Int /\ x < b /\ <<b, y>> \notin region
  OBVIOUS
<1>. HIDE DEF A, B
<1>7. Least(A) \in A /\ \A a \in A : Least(A) <= a
  <2>1. PICK k \in Int : k = 0  OBVIOUS
  <2>2. \A a \in A : k <= a  BY <1>2, <1>3, <2>1
  <2>. QED  BY <1>2, <1>3, <2>2, LeastIs
<1>8. Least(B) \in B /\ \A b \in B : Least(B) <= b  BY <1>1, <1>4, <1>5, LeastIs
<1>9. PICK a \in A, b \in B : a = Least(A) /\ b = Least(B)  BY <1>7, <1>8
<1>10. a \in Int /\ b \in Int /\ 0 <= a /\ a <= x /\ x < b /\ b <= buffer.right
  <2>1. a \in Int /\ a <= x /\ b \in Int /\ x < b  BY <1>6
  <2>2. 0 <= a  BY <1>3
  <2>3. b <= buffer.right  BY <1>4, <1>8, <1>9
  <2>. QED  BY <2>1, <2>2, <2>3
<1>11. ASSUME NEW z \in Int, a <= z, z < b PROVE <<z, y>> \in region
  <2>1. CASE z <= x  BY <1>6, <1>11, <2>1
  <2>2. CASE x < z
    <3>1. z \in B => b <= z  BY <1>8, <1>9
    <3>2. z \notin B  BY <1>10, <1>11, <3>1
    <3>. QED  BY <1>6, <2>2, <3>2
  <2>. QED  BY <1>1, <2>1, <2>2
<1>12. <<a - 1, y>> \notin region
  <2>. SUFFICES ASSUME <<a - 1, y>> \in region PROVE FALSE  OBVIOUS
  <2>1. ASSUME NEW z \in Int, a - 1 <= z, z <= x PROVE <<z, y>> \in region
    <3>1. z = a - 1 \/ a <= z  BY <1>10, <2>1
    <3>. QED  BY <1>6, <2>1, <3>1
  <2>2. a - 1 \in Int /\ a - 1 <= x  BY <1>1, <1>10
  <2>3. a - 1 \in A  BY <1>6, <2>1, <2>2
  <2>4. a <= a - 1  BY <1>7, <1>9, <2>3
  <2>. QED  BY <1>10, <2>4
<1>13. <<b, y>> \notin region  BY <1>6
<1>14. a < b  BY <1>1, <1>10
<1>15. <<a, b>> \in Runs(region, y)  BY <1>10, <1>11, <1>12, <1>13, <1>14, RowRunsAre
<1>. QED  BY <1>10, <1>15

LEMMA RowRunsApart ==
  ASSUME NEW region, IsRegion(region), NEW y, NEW a, NEW b, NEW c, NEW d, NEW x \in Int,
         <<a, b>> \in Runs(region, y), <<c, d>> \in Runs(region, y),
         a <= x, x < b, c <= x, x < d
  PROVE  a = c /\ b = d
<1>1. /\ a \in Int /\ b \in Int
      /\ \A z \in Int : a <= z /\ z < b => <<z, y>> \in region
      /\ <<a - 1, y>> \notin region /\ <<b, y>> \notin region
  BY RowRunsAre
<1>2. /\ c \in Int /\ d \in Int
      /\ \A z \in Int : c <= z /\ z < d => <<z, y>> \in region
      /\ <<c - 1, y>> \notin region /\ <<d, y>> \notin region
  BY RowRunsAre
<1>3. ~(a < c)
  <2>1. a < c => a <= c - 1 /\ c - 1 < b /\ c - 1 \in Int  BY <1>1, <1>2
  <2>. QED  BY <1>1, <1>2, <2>1
<1>4. ~(c < a)
  <2>1. c < a => c <= a - 1 /\ a - 1 < d /\ a - 1 \in Int  BY <1>1, <1>2
  <2>. QED  BY <1>1, <1>2, <2>1
<1>5. ~(b < d)
  <2>1. b < d => c <= b /\ b < d  BY <1>1, <1>2
  <2>. QED  BY <1>1, <1>2, <2>1
<1>6. ~(d < b)
  <2>1. d < b => a <= d /\ d < b  BY <1>1, <1>2
  <2>. QED  BY <1>1, <1>2, <2>1
<1>. QED  BY <1>1, <1>2, <1>3, <1>4, <1>5, <1>6

LEMMA NoRuns ==
  ASSUME NEW region, IsRegion(region), NEW y, y < 0 \/ y >= buffer.bottom, y \in Int
  PROVE  Runs(region, y) = {}
<1>. SUFFICES ASSUME NEW run \in Runs(region, y) PROVE FALSE  OBVIOUS
<1>1. PICK a, b : run = <<a, b>>  BY DEF Runs
<1>2. /\ a \in Int /\ b \in Int /\ a < b
      /\ \A x \in Int : a <= x /\ x < b => <<x, y>> \in region
  BY <1>1, RowRunsAre
<1>3. <<a, y>> \in region
  <2>1. a <= a  BY <1>2
  <2>. QED  BY <1>2, <2>1
<1>4. 0 <= y /\ y < buffer.bottom /\ buffer.bottom \in Int  BY <1>3, RegionPoints
<1>. QED  BY <1>4

\* Rows with the same runs.
LEMMA BandThere ==
  ASSUME NEW region, IsRegion(region), NEW y \in Int, Runs(region, y) # {}
  PROVE  \E t, b \in Int : /\ IsBand(region, t, b) /\ t <= y /\ y < b
                           /\ 0 <= t /\ b <= buffer.bottom
<1>1. buffer.bottom \in Int /\ 0 <= y /\ y < buffer.bottom  BY NoRuns, RegionPoints
<1>. DEFINE R(z) == Runs(region, z)
            T == {t \in Int : t <= y /\ \A z \in Int : t <= z /\ z <= y => R(z) = R(y)}
            B == {b \in Int : y < b /\ R(b) # R(y)}
<1>2. \A z \in Int : z < 0 \/ z >= buffer.bottom => R(z) # R(y)  BY NoRuns
<1>3. R(y) = Runs(region, y)  OBVIOUS
<1>. HIDE DEF R
<1>4. y \in T
  <2>1. y <= y /\ \A z \in Int : y <= z /\ z <= y => z = y  BY <1>1
  <2>. QED  BY <1>1, <2>1
<1>5. T \subseteq Int /\ \A t \in T : 0 <= t
  <2>1. ASSUME NEW t \in T PROVE 0 <= t
    <3>1. t <= t /\ t <= y /\ t \in Int  OBVIOUS
    <3>2. R(t) = R(y)  BY <3>1
    <3>. QED  BY <1>2, <3>1, <3>2
  <2>. QED  BY <2>1
<1>6. buffer.bottom \in B  BY <1>1, <1>2
<1>7. B \subseteq Int /\ \A b \in B : y <= b  BY <1>1
<1>8. /\ \A t \in T : t \in Int /\ t <= y /\ \A z \in Int : t <= z /\ z <= y => R(z) = R(y)
      /\ \A t \in Int : t <= y /\ (\A z \in Int : t <= z /\ z <= y => R(z) = R(y)) => t \in T
      /\ \A b : b \in B <=> b \in Int /\ y < b /\ R(b) # R(y)
  OBVIOUS
<1>. HIDE DEF T, B
<1>9. Least(T) \in T /\ \A t \in T : Least(T) <= t
  <2>1. PICK k \in Int : k = 0  OBVIOUS
  <2>2. \A t \in T : k <= t  BY <1>4, <1>5, <2>1
  <2>. QED  BY <1>4, <1>5, <2>2, LeastIs
<1>10. Least(B) \in B /\ \A b \in B : Least(B) <= b  BY <1>1, <1>6, <1>7, LeastIs
<1>11. PICK t \in T, b \in B : t = Least(T) /\ b = Least(B)  BY <1>9, <1>10
<1>12. t \in Int /\ b \in Int /\ 0 <= t /\ t <= y /\ y < b /\ b <= buffer.bottom
  <2>1. t \in Int /\ t <= y /\ b \in Int /\ y < b  BY <1>8
  <2>2. 0 <= t  BY <1>5
  <2>3. b <= buffer.bottom  BY <1>6, <1>10, <1>11
  <2>. QED  BY <2>1, <2>2, <2>3
<1>13. ASSUME NEW z \in Int, t <= z, z < b PROVE R(z) = R(y)
  <2>1. CASE z <= y  BY <1>8, <1>13, <2>1
  <2>2. CASE y < z
    <3>1. z \in B => b <= z  BY <1>10, <1>11
    <3>2. z \notin B  BY <1>12, <1>13, <3>1
    <3>. QED  BY <1>8, <2>2, <3>2
  <2>. QED  BY <2>1, <2>2
<1>14. R(t) = R(y) /\ R(b) # R(y)
  <2>1. t <= t /\ t < b  BY <1>12
  <2>. QED  BY <1>8, <1>12, <1>13, <2>1
<1>15. R(t - 1) # R(y)
  <2>. SUFFICES ASSUME R(t - 1) = R(y) PROVE FALSE  OBVIOUS
  <2>1. ASSUME NEW z \in Int, t - 1 <= z, z <= y PROVE R(z) = R(y)
    <3>1. z = t - 1 \/ t <= z  BY <1>12, <2>1
    <3>. QED  BY <1>8, <2>1, <3>1
  <2>2. t - 1 \in Int /\ t - 1 <= y  BY <1>12
  <2>3. t - 1 \in T  BY <1>8, <2>1, <2>2
  <2>4. t <= t - 1  BY <1>9, <1>11, <2>3
  <2>. QED  BY <1>12, <2>4
<1>16. \A z \in t .. b - 1 : R(z) = R(t)  BY <1>12, <1>13, <1>14
<1>17. t < b  BY <1>12
<1>18. IsBand(region, t, b)  BY <1>14, <1>15, <1>16, <1>17 DEF IsBand, R
<1>. QED  BY <1>12, <1>18

LEMMA BandsApart ==
  ASSUME NEW region, NEW t \in Int, NEW b \in Int, NEW u \in Int, NEW c \in Int, NEW y \in Int,
         IsBand(region, t, b), IsBand(region, u, c), t <= y, y < b, u <= y, y < c
  PROVE  t = u /\ b = c
<1>. DEFINE R(z) == Runs(region, z)
<1>1. /\ \A z \in t .. b - 1 : R(z) = R(t)
      /\ R(t - 1) # R(t) /\ R(b) # R(t)
  BY DEF IsBand
<1>2. /\ \A z \in u .. c - 1 : R(z) = R(u)
      /\ R(u - 1) # R(u) /\ R(c) # R(u)
  BY DEF IsBand
<1>. HIDE DEF R
<1>3. R(t) = R(u)
  <2>1. y \in t .. b - 1 /\ y \in u .. c - 1  OBVIOUS
  <2>. QED  BY <1>1, <1>2, <2>1
<1>4. ~(t < u)
  <2>1. t < u => u - 1 \in t .. b - 1  OBVIOUS
  <2>. QED  BY <1>1, <1>2, <1>3, <2>1
<1>5. ~(u < t)
  <2>1. u < t => t - 1 \in u .. c - 1  OBVIOUS
  <2>. QED  BY <1>1, <1>2, <1>3, <2>1
<1>6. ~(b < c)
  <2>1. b < c => b \in u .. c - 1  OBVIOUS
  <2>. QED  BY <1>1, <1>2, <1>3, <2>1
<1>7. ~(c < b)
  <2>1. c < b => c \in t .. b - 1  OBVIOUS
  <2>. QED  BY <1>1, <1>2, <1>3, <2>1
<1>. QED  BY <1>4, <1>5, <1>6, <1>7

\* The rectangle of run <<a, c>> of the band from row t up to row b.
IsRectOf(region, r, t, b, a, c) ==
  IsBand(region, t, b) /\ <<a, c>> \in Runs(region, t) /\ r = Rect(a, t, c, b)

LEMMA RectVectorHas ==
  ASSUME NEW region, NEW r
  PROVE  r \in RectVector(region) <=> \E t, b \in Rows : \E a, c : IsRectOf(region, r, t, b, a, c)
<1>1. ASSUME r \in RectVector(region)
      PROVE  \E t, b \in Rows : \E a, c : IsRectOf(region, r, t, b, a, c)
  <2>1. PICK band \in Rows \X Rows :
          /\ IsBand(region, band[1], band[2])
          /\ r \in {Rect(run[1], band[1], run[2], band[2]) : run \in Runs(region, band[1])}
    BY <1>1 DEF RectVector
  <2>2. PICK run \in Runs(region, band[1]) : r = Rect(run[1], band[1], run[2], band[2])
    BY <2>1
  <2>3. run = <<run[1], run[2]>>  BY DEF Runs
  <2>4. band[1] \in Rows /\ band[2] \in Rows  OBVIOUS
  <2>5. IsRectOf(region, r, band[1], band[2], run[1], run[2])
    BY <2>1, <2>2, <2>3 DEF IsRectOf
  <2>. QED  BY <2>4, <2>5
<1>2. ASSUME NEW t \in Rows, NEW b \in Rows, NEW a, NEW c, IsRectOf(region, r, t, b, a, c)
      PROVE  r \in RectVector(region)
  <2>0. IsBand(region, t, b) /\ <<a, c>> \in Runs(region, t) /\ r = Rect(a, t, c, b)
    BY <1>2 DEF IsRectOf
  <2>1. PICK band \in Rows \X Rows : band = <<t, b>>  OBVIOUS
  <2>2. band[1] = t /\ band[2] = b  BY <2>1
  <2>3. PICK run \in Runs(region, band[1]) : run = <<a, c>>  BY <2>0, <2>2
  <2>4. r = Rect(run[1], band[1], run[2], band[2])  BY <2>0, <2>2, <2>3
  <2>5. r \in {Rect(q[1], band[1], q[2], band[2]) : q \in Runs(region, band[1])}
    BY <2>4
  <2>6. IsBand(region, band[1], band[2])  BY <2>0, <2>2
  <2>. QED  BY <2>5, <2>6 DEF RectVector
<1>. QED  BY <1>1, <1>2

LEMMA RectOfRegion ==
  ASSUME NEW region, IsRegion(region), NEW r \in RectVector(region)
  PROVE  \E t, b, a, c \in Int :
           /\ IsBand(region, t, b) /\ <<a, c>> \in Runs(region, t)
           /\ r = Rect(a, t, c, b) /\ 0 <= t /\ t < b /\ 0 <= a /\ a < c
<1>0. PICK t \in Rows, b \in Rows : \E a, c : IsRectOf(region, r, t, b, a, c)
  BY RectVectorHas
<1>1. PICK a, c : IsBand(region, t, b) /\ <<a, c>> \in Runs(region, t) /\ r = Rect(a, t, c, b)
  BY <1>0 DEF IsRectOf
<1>2. t \in Int /\ b \in Int /\ 0 <= t /\ t < b
  BY <1>1, RegionPoints DEF IsRegion, Rows, IsBand
<1>3. a \in Int /\ c \in Int /\ 0 <= a /\ a < c  BY <1>1, RowRunsAre
<1>. QED  BY <1>1, <1>2, <1>3

LEMMA RectsWithin ==
  ASSUME NEW region, IsRegion(region), NEW r \in RectVector(region)
  PROVE  /\ IsRect(r) /\ r.top >= 0
         /\ \A x, y \in Int : Holds(r, x, y) => <<x, y>> \in region
<1>1. PICK t \in Int, b \in Int, a \in Int, c \in Int :
        /\ IsBand(region, t, b) /\ <<a, c>> \in Runs(region, t)
        /\ r = Rect(a, t, c, b) /\ 0 <= t /\ t < b /\ 0 <= a /\ a < c
  BY RectOfRegion
<1>2. r \in Rects /\ r.left = a /\ r.top = t /\ r.right = c /\ r.bottom = b
  BY <1>1 DEF Rect, Rects
<1>3. ASSUME NEW x \in Int, NEW y \in Int, Holds(r, x, y) PROVE <<x, y>> \in region
  <2>1. a <= x /\ x < c /\ t <= y /\ y < b  BY <1>2, <1>3 DEF Holds
  <2>2. Runs(region, y) = Runs(region, t)
    <3>1. y \in t .. b - 1  BY <2>1
    <3>. QED  BY <1>1, <3>1 DEF IsBand
  <2>3. <<a, c>> \in Runs(region, y)  BY <1>1, <2>2
  <2>. QED  BY <2>1, <2>3, RowRunsAre
<1>. QED  BY <1>1, <1>2, <1>3 DEF IsRect

LEMMA RectsCover ==
  ASSUME NEW region, IsRegion(region), NEW x \in Int, NEW y \in Int, <<x, y>> \in region
  PROVE  \E r \in RectVector(region) : Holds(r, x, y)
<1>1. PICK a \in Int, c \in Int : <<a, c>> \in Runs(region, y) /\ a <= x /\ x < c
  BY RowRunThere
<1>2. PICK t \in Int, b \in Int :
        /\ IsBand(region, t, b) /\ t <= y /\ y < b
        /\ 0 <= t /\ b <= buffer.bottom
  <2>1. Runs(region, y) # {}  BY <1>1
  <2>. QED  BY <2>1, BandThere
<1>3. Runs(region, y) = Runs(region, t)
  <2>1. y \in t .. b - 1  BY <1>2
  <2>. QED  BY <1>2, <2>1 DEF IsBand
<1>4. t \in Rows /\ b \in Rows
  BY <1>2, RegionPoints DEF Rows, IsRegion
<1>5. PICK r : r = Rect(a, t, c, b)  OBVIOUS
<1>6. IsRectOf(region, r, t, b, a, c)  BY <1>1, <1>2, <1>3, <1>5 DEF IsRectOf
<1>8. r \in RectVector(region)  BY <1>4, <1>6, RectVectorHas
<1>7. Holds(r, x, y)  BY <1>1, <1>2, <1>5 DEF Holds, Rect
<1>. QED  BY <1>7, <1>8

LEMMA RectsApart ==
  ASSUME NEW region, IsRegion(region), NEW r \in RectVector(region), NEW s \in RectVector(region),
         NEW x \in Int, NEW y \in Int, Holds(r, x, y), Holds(s, x, y)
  PROVE  r = s
<1>1. PICK t \in Int, b \in Int, a \in Int, c \in Int :
        /\ IsBand(region, t, b) /\ <<a, c>> \in Runs(region, t)
        /\ r = Rect(a, t, c, b) /\ 0 <= t /\ t < b /\ 0 <= a /\ a < c
  BY RectOfRegion
<1>2. PICK u \in Int, e \in Int, d \in Int, g \in Int :
        /\ IsBand(region, u, e) /\ <<d, g>> \in Runs(region, u)
        /\ s = Rect(d, u, g, e) /\ 0 <= u /\ u < e /\ 0 <= d /\ d < g
  BY RectOfRegion
<1>3. a <= x /\ x < c /\ t <= y /\ y < b  BY <1>1 DEF Holds, Rect
<1>4. d <= x /\ x < g /\ u <= y /\ y < e  BY <1>2 DEF Holds, Rect
<1>5. t = u /\ b = e  BY <1>1, <1>2, <1>3, <1>4, BandsApart
<1>6. a = d /\ c = g  BY <1>1, <1>2, <1>3, <1>4, <1>5, RowRunsApart
<1>. QED  BY <1>1, <1>2, <1>5, <1>6

\* UpdateFilter::filter.
LEMMA FoundIsExact ==
  ASSUME NEW region, IsRegion(region)
  PROVE  Exact(UNION {GetChangedRegion(r) : r \in RectVector(region)}, region)
<1>. DEFINE I == RectVector(region)
            U == [r \in I |-> GetChangedRegion(r)]
            P == [r \in I |-> Points(r)]
<1>1. UNION {GetChangedRegion(r) : r \in I} = Joined(U, I)  BY DEF Joined
<1>2. \A r \in I : IsRect(r) /\ r.top >= 0
                   /\ \A x, y \in Int : Holds(r, x, y) => <<x, y>> \in region
  BY RectsWithin
<1>3. \A r \in I : Exact(U[r], P[r])
  <2>. SUFFICES ASSUME NEW r \in I PROVE Exact(U[r], P[r])  OBVIOUS
  <2>1. IsRect(r) /\ r.top >= 0  BY <1>2
  <2>2. U[r] = GetChangedRegion(r) /\ P[r] = Points(r)  OBVIOUS
  <2>. HIDE DEF I, U, P
  <2>. QED  BY <2>1, <2>2, ChangedRegionIs
<1>4. \A r \in I : \A x, y \in Int : <<x, y>> \in P[r] <=> Holds(r, x, y)
  <2>. SUFFICES ASSUME NEW r \in I
                PROVE  \A x, y \in Int : <<x, y>> \in P[r] <=> Holds(r, x, y)
    OBVIOUS
  <2>1. IsRect(r) /\ P[r] = Points(r)  BY <1>2
  <2>. HIDE DEF I, P
  <2>. QED  BY <2>1, HeldPoints
<1>5. \A r, s \in I : \A x, y \in Int : <<x, y>> \in P[r] /\ <<x, y>> \in P[s] => r = s
  <2>. HIDE DEF P
  <2>. QED  BY <1>4, RectsApart
<1>6. \A x, y \in Int : <<x, y>> \in region => \E r \in I : Holds(r, x, y)  BY RectsCover
<1>. HIDE DEF I, U, P
<1>7. Exact(Joined(U, I), Joined(P, I))  BY <1>3, <1>5, ExactUnion
<1>8. \A x, y \in Int : <<x, y>> \in Joined(P, I) => <<x, y>> \in region
  BY <1>2, <1>4 DEF Joined
<1>9. \A x, y \in Int : <<x, y>> \in region => <<x, y>> \in Joined(P, I)
  BY <1>4, <1>6 DEF Joined
<1>10. Exact(Joined(U, I), region)  BY <1>7, <1>8, <1>9, ExactWider
<1>. QED  BY <1>1, <1>10 DEF I

-----------------------------------------------------------------------------
(* The steps of the filter.                                                *)

FilterInv ==
  /\ buffer \in Dimensions
  /\ FilterTypeOK /\ NoDifferenceMissed /\ SentOnce

OnlyDifferencesStep ==
  \A r \in found' :
    /\ Points(r) \subseteq toCheck'
    /\ \A p \in {r.top, r.bottom - 1} : RowDiffers(r.left, r.right, p)
    /\ \A x \in {r.left, r.right - 1} :
         \E y \in r.top .. r.bottom - 1 : <<x, y>> \in diff

LEMMA FilterStarts ==
  ASSUME FilterInit PROVE FilterInv
BY DEF FilterInit, FilterInv, FilterTypeOK, NoDifferenceMissed, SentOnce, Points

LEMMA FilterSteps ==
  ASSUME FilterInv, NEW region, FilterRegion(region)
  PROVE  FilterInv' /\ OnlyDifferencesStep
<1>0. /\ region \subseteq Points(buffer) /\ toCheck' = region /\ buffer' = buffer
      /\ found' = UNION {GetChangedRegion(r) : r \in RectVector(region)}
      /\ diff' = diff \ UNION {Points(r) : r \in found'}
  BY DEF FilterRegion
<1>1. IsRegion(region)  BY <1>0, FilterAssumption DEF IsRegion, FilterInv
<1>2. Exact(found', region)  BY <1>0, <1>1, FoundIsExact
<1>3. ASSUME NEW r \in found'
      PROVE  /\ IsRect(r) /\ Tight(r) /\ Points(r) \subseteq region
             /\ \A x, y \in Int : <<x, y>> \in Points(r) <=> Holds(r, x, y)
             /\ Points(r) \subseteq Int \X Int
  <2>1. IsRect(r) /\ Tight(r) /\ \A x, y \in Int : Holds(r, x, y) => <<x, y>> \in region
    BY <1>2 DEF Exact
  <2>2. /\ \A x, y \in Int : <<x, y>> \in Points(r) <=> Holds(r, x, y)
        /\ Points(r) \subseteq Int \X Int
    BY <2>1, HeldPoints
  <2>3. ASSUME NEW p \in Points(r) PROVE p \in region
    <3>1. PICK x \in Int, y \in Int : p = <<x, y>> /\ Holds(r, x, y)  BY <2>1, PointAt
    <3>. QED  BY <2>1, <3>1
  <2>. QED  BY <2>1, <2>2, <2>3
<1>4. OnlyDifferencesStep
  <2>. SUFFICES ASSUME NEW r \in found'
                PROVE  /\ Points(r) \subseteq toCheck'
                       /\ \A p \in {r.top, r.bottom - 1} : RowDiffers(r.left, r.right, p)
                       /\ \A x \in {r.left, r.right - 1} :
                            \E y \in r.top .. r.bottom - 1 : <<x, y>> \in diff
    BY DEF OnlyDifferencesStep
  <2>. QED  BY <1>0, <1>3 DEF Tight, ColumnDiffers
<1>5. FilterTypeOK'
  <2>1. ASSUME NEW r \in found' PROVE ~RectIsEmpty(r)
    BY <1>3 DEF IsRect, Rects, RectIsEmpty, Width, Height
  <2>2. diff' \subseteq Points(buffer')  BY <1>0 DEF FilterInv, FilterTypeOK
  <2>. QED  BY <1>0, <2>1, <2>2 DEF FilterTypeOK
<1>6. NoDifferenceMissed'
  <2>1. ASSUME NEW p \in region, p \in diff PROVE \E r \in found' : p \in Points(r)
    <3>1. PICK x \in Int, y \in Int : p = <<x, y>>  BY <1>1, RegionPoints
    <3>2. PICK r \in found' : Holds(r, x, y)  BY <1>2, <2>1, <3>1 DEF Exact
    <3>. QED  BY <1>3, <3>1, <3>2
  <2>. QED  BY <1>0, <2>1 DEF NoDifferenceMissed
<1>7. SentOnce'
  <2>1. ASSUME NEW r \in found', NEW s \in found', NEW p \in Points(r), p \in Points(s)
        PROVE  r = s
    <3>1. PICK x \in Int, y \in Int : p = <<x, y>>  BY <1>3
    <3>2. Holds(r, x, y) /\ Holds(s, x, y)  BY <1>3, <2>1, <3>1
    <3>. QED  BY <1>2, <3>2 DEF Exact
  <2>. QED  BY <2>1 DEF SentOnce
<1>. QED  BY <1>0, <1>4, <1>5, <1>6, <1>7 DEF FilterInv


\* A filter leaves no difference in the region it was given, and what it
\* reports lies in that region, is tight on all four sides and overlaps
\* nowhere: for any screen, any difference, any region and any size of a block
\* (UpdateFilter.cpp:124-311).
THEOREM FilterIsSafe ==
  FilterSpec => [](FilterTypeOK /\ NoDifferenceMissed /\ SentOnce) /\ OnlyDifferences
<1>1. FilterInit => FilterInv
  BY FilterStarts
<1>2. FilterInv /\ [FilterNext]_filterVars => FilterInv'
  <2>1. CASE FilterNext
    BY <2>1, FilterSteps DEF FilterNext
  <2>2. CASE UNCHANGED filterVars
    BY <2>2 DEF filterVars, FilterInv, FilterTypeOK, NoDifferenceMissed, SentOnce
  <2>. QED  BY <2>1, <2>2
<1>3. FilterInv /\ [FilterNext]_filterVars => [OnlyDifferencesStep]_filterVars
  BY FilterSteps DEF FilterNext
<1>4. FilterInv => FilterTypeOK /\ NoDifferenceMissed /\ SentOnce
  BY DEF FilterInv
<1>. QED
  BY <1>1, <1>2, <1>3, <1>4, PTL DEF FilterSpec, OnlyDifferences, OnlyDifferencesStep

\* The same in the composition that is model-checked (UpdateFilter.cpp:124-311).
THEOREM FilterIsExact == CaptureSpec => FilterExact
<1>1. CaptureInit => FilterInit
  BY DEF CaptureInit, FilterIdle, FilterInit
<1>2. [CaptureNext]_captureVars => [FilterNext]_filterVars
  BY DEF CaptureNext, captureVars, notPipeline, notKeeper, FilterNext
<1>3. CaptureSpec => FilterSpec
  BY <1>1, <1>2, PTL DEF CaptureSpec, FilterSpec
<1>. QED  BY <1>3, FilterIsSafe, PTL DEF FilterExact
=============================================================================
