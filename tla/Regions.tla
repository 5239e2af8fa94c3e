------------------------------ MODULE Regions ------------------------------
(***************************************************************************)
(* Rectangles and regions of the screen (region/Rect.h,                    *)
(* region/Region.cpp).  A rectangle is a record of its four sides, the     *)
(* right and the bottom one excluded; a region is the set of its points,   *)
(* so that Region's add, subtract and intersect are \cup, \ and \cap.      *)
(***************************************************************************)
EXTENDS Integers

Rects == [left : Int, top : Int, right : Int, bottom : Int]
Rect(l, t, r, b) == [left |-> l, top |-> t, right |-> r, bottom |-> b]

Zero == Rect(0, 0, 0, 0)

Width(r) == r.right - r.left
Height(r) == r.bottom - r.top
RectIsEmpty(r) == Width(r) <= 0 \/ Height(r) <= 0

\* Region(rect): the points a rectangle covers, none when it is empty.
Points(r) == (r.left .. r.right - 1) \X (r.top .. r.bottom - 1)

\* Rect::move, and Rect::setLocation: the size stays.
MoveRect(r, dx, dy) ==
  Rect(r.left + dx, r.top + dy, r.right + dx, r.bottom + dy)
SetLocation(r, x, y) == MoveRect(r, x - r.left, y - r.top)

\* Rect::intersection: rectangles that are apart give the rectangle of
\* zeroes, ones that only touch an empty one.
Larger(a, b) == IF a > b THEN a ELSE b
Smaller(a, b) == IF a < b THEN a ELSE b

Intersection(r, s) ==
  LET both == Rect(Larger(r.left, s.left), Larger(r.top, s.top),
                   Smaller(r.right, s.right), Smaller(r.bottom, s.bottom))
  IN  IF Width(both) < 0 \/ Height(both) < 0 THEN Zero ELSE both

\* What clipping r to s took off each side of r, as the code adds it to the
\* other rectangle of a copy.
Corrected(other, clipped, r) ==
  Rect(other.left + clipped.left - r.left,
       other.top + clipped.top - r.top,
       other.right + clipped.right - r.right,
       other.bottom + clipped.bottom - r.bottom)

TranslatePoint(p, dx, dy) == <<p[1] + dx, p[2] + dy>>
Translate(region, dx, dy) == {TranslatePoint(p, dx, dy) : p \in region}
=============================================================================
