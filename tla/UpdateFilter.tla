---------------------------- MODULE UpdateFilter ----------------------------
(***************************************************************************)
(* UpdateFilter::filter (desktop/UpdateFilter.cpp): the region a detector  *)
(* reported is grabbed from the screen, compared with the back buffer in   *)
(* blocks, and reduced to rectangles round the pixels that differ; those   *)
(* are copied into the back buffer.                                        *)
(*                                                                         *)
(* Two pictures matter only by where they differ: diff is the set of the   *)
(* points at which the screen and the back buffer disagree.  Where memcmp  *)
(* compares bytes, the model compares pixels: the code divides its byte    *)
(* offsets by the size of a pixel.                                         *)
(***************************************************************************)
EXTENDS Regions, FiniteSets

CONSTANTS
  BlockSize,   \* BLOCK_SIZE
  Dimensions,  \* rectangles that the screen and both buffers may have
  Reports      \* the regions that may have to be checked

\* A buffer begins at the origin.
ASSUME FilterAssumption ==
  /\ BlockSize \in Nat /\ BlockSize > 1
  /\ \A d \in Dimensions : d \in Rects /\ d.left = 0 /\ d.top = 0

VARIABLES
  buffer,      \* the rectangle of both buffers
  diff,        \* where the screen and the back buffer disagree
  toCheck,     \* the region of the last filter
  found        \* the rectangles it has put into changedRegion

filterVars == <<buffer, diff, toCheck, found>>

Least(S) == CHOOSE a \in S : \A b \in S : a <= b
Greatest(S) == CHOOSE a \in S : \A b \in S : a >= b

(***************************************************************************)
(* Region::getRectVector: bands of rows that hold the same runs of points, *)
(* one rectangle for each run of a band.                                   *)
(***************************************************************************)
Columns == buffer.left .. buffer.right
Rows == buffer.top .. buffer.bottom

Runs(region, y) ==
  {run \in Columns \X Columns :
     /\ run[1] < run[2]
     /\ (run[1] .. run[2] - 1) \X {y} \subseteq region
     /\ <<run[1] - 1, y>> \notin region /\ <<run[2], y>> \notin region}

IsBand(region, t, b) ==
  /\ t < b
  /\ \A y \in t .. b - 1 : Runs(region, y) = Runs(region, t)
  /\ Runs(region, t - 1) # Runs(region, t)
  /\ Runs(region, b) # Runs(region, t)

RectVector(region) ==
  UNION {{Rect(run[1], band[1], run[2], band[2]) : run \in Runs(region, band[1])} :
           band \in {tb \in Rows \X Rows : IsBand(region, tb[1], tb[2])}}

----------------------------------------------------------------------------
RowDiffers(l, r, y) == \E x \in l .. r - 1 : <<x, y>> \in diff

FirstRow(r) == Least({y \in r.top .. r.bottom - 1 : RowDiffers(r.left, r.right, y)})

IsSmall(r) == Width(r) <= BlockSize /\ Height(r) <= BlockSize

(***************************************************************************)
(* updateChangedSubRect: the rows at the bottom and the columns at both    *)
(* sides that do not differ are cut off.  The top row is known to differ.  *)
(***************************************************************************)
\* Mutant: the sides are taken from the top row alone.
SubRectMutant(r) ==
  LET cols == {x \in r.left .. r.right - 1 : <<x, r.top>> \in diff}
  IN  Rect(Least(cols), r.top, Greatest(cols) + 1, r.bottom)

SubRect(r) ==
  LET low == {y \in r.top + 1 .. r.bottom - 1 : RowDiffers(r.left, r.right, y)}
      bottom == IF low = {} THEN r.top + 1 ELSE Greatest(low) + 1
      cols == {x \in r.left .. r.right - 1 :
                 \E y \in r.top .. bottom - 1 : <<x, y>> \in diff}
  IN  IF cols = {} THEN Rect(r.right - 1, r.top, r.left + 1, bottom)
      ELSE Rect(Least(cols), r.top, Greatest(cols) + 1, bottom)

(***************************************************************************)
(* updateChangedRect: blocks of BlockSize points, row of blocks by row of  *)
(* blocks; a run of neighbouring blocks that differ makes one rectangle,   *)
(* from the first differing row of any of them.                            *)
(***************************************************************************)
Block(r, x, y) ==
  Rect(x, y, Smaller(x + BlockSize, r.right), Smaller(y + BlockSize, r.bottom))

BlockDiffers(r, x, y) ==
  /\ x \in r.left .. r.right - 1
  /\ Points(Block(r, x, y)) \cap diff # {}

BlockRuns(r, y) ==
  LET xs == {x \in r.left .. r.right - 1 : (x - r.left) % BlockSize = 0}
  IN  {run \in xs \X xs :
         /\ run[1] <= run[2]
         /\ \A x \in xs : run[1] <= x /\ x <= run[2] => BlockDiffers(r, x, y)
         /\ ~BlockDiffers(r, run[1] - BlockSize, y)
         /\ ~BlockDiffers(r, run[2] + BlockSize, y)}

RunRect(r, run, y) ==
  LET whole == Rect(run[1], y, Smaller(run[2] + BlockSize, r.right),
                    Smaller(y + BlockSize, r.bottom))
  IN  [whole EXCEPT !.top = FirstRow(whole)]

UpdateChangedRect(r) ==
  IF IsSmall(r) THEN {SubRect(r)}
  ELSE UNION {{SubRect(RunRect(r, run, y)) : run \in BlockRuns(r, y)} :
                y \in {v \in r.top .. r.bottom - 1 : (v - r.top) % BlockSize = 0}}

(***************************************************************************)
(* getChangedRegion.  The rows of a big rectangle are scanned downwards,   *)
(* with half a block skipped after a row that differs; rows that differ    *)
(* close to each other make one rectangle.                                 *)
(***************************************************************************)
\* The rectangle begun at row top, if there is one, ends at row bottom.
UpToRow(r, top, bottom) ==
  IF top = -1 THEN {}
  ELSE UpdateChangedRect([r EXCEPT !.top = top, !.bottom = bottom])

Scan(r) ==
  LET skip == BlockSize \div 2 - 1
      from[y \in r.top .. r.bottom + skip] ==
        [top \in {-1} \cup r.top .. r.bottom |->
           IF y >= r.bottom THEN UpToRow(r, top, r.bottom)
           ELSE IF RowDiffers(r.left, r.right, y)
           THEN from[y + skip + 1][IF top = -1 THEN y ELSE top]
           ELSE UpToRow(r, top, y) \cup from[y + 1][-1]]
  IN  from[r.top][-1]

GetChangedRegion(r) ==
  IF ~IsSmall(r) THEN Scan(r)
  ELSE IF Points(r) \cap diff = {} THEN {}
  ELSE {SubRect([r EXCEPT !.top = FirstRow(r)])}

----------------------------------------------------------------------------
FilterInit ==
  /\ buffer \in Dimensions
  /\ diff \in SUBSET Points(buffer)
  /\ toCheck = {}
  /\ found = {}

\* The changed rectangles are copied into the back buffer.  A behaviour is one
\* filter: the next one meets some other difference, which FilterInit chooses.
FilterRegion(region) ==
  /\ toCheck = {} /\ region \subseteq Points(buffer)
  /\ toCheck' = region
  /\ found' = UNION {GetChangedRegion(r) : r \in RectVector(region)}
  /\ diff' = diff \ UNION {Points(r) : r \in found'}
  /\ UNCHANGED buffer

FilterNext == \E region \in Reports : FilterRegion(region)

FilterSpec == FilterInit /\ [][FilterNext]_filterVars
----------------------------------------------------------------------------
FilterTypeOK ==
  /\ diff \subseteq Points(buffer)
  /\ toCheck \subseteq Points(buffer)
  /\ \A r \in found : ~RectIsEmpty(r)

\* After a filter the back buffer shows the screen on all of the region it
\* was to check: no block, no skipped row and no trimmed side hides a pixel
\* that differs (UpdateFilter.cpp:124-311).
NoDifferenceMissed == diff \cap toCheck = {}

\* The filter reports no more than it must: each rectangle lies in the region
\* that was checked, so it was grabbed, and a pixel on each of its four sides
\* differs (UpdateFilter.cpp:260-311).
OnlyDifferences ==
  [][ \A r \in found' :
        /\ Points(r) \subseteq toCheck'
        /\ \A p \in {r.top, r.bottom - 1} : RowDiffers(r.left, r.right, p)
        /\ \A x \in {r.left, r.right - 1} :
             \E y \in r.top .. r.bottom - 1 : <<x, y>> \in diff ]_filterVars

\* The rectangles of one filter do not overlap, so a frame sends each pixel
\* once (UpdateFilter.cpp:201-257).
SentOnce ==
  \A r, s \in found : r # s => Points(r) \cap Points(s) = {}
============================================================================
