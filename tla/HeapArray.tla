----------------------------- MODULE HeapArray -----------------------------
(***************************************************************************)
(* The array of MinHeap: a sequence h of distinct elements with a function *)
(* key on them.  Position i here is position i - 1 of m_pHeap, so that the *)
(* parent of i is i \div 2 and its children are 2 * i and 2 * i + 1.  A    *)
(* loop that moves elements along a path is a recursive function of the    *)
(* position the loop is at.                                                *)
(***************************************************************************)
EXTENDS Naturals, Sequences

\* The element at i goes towards the root, past every greater parent.
FilterUp(h, i, key) ==
  LET up[j \in 1..Len(h)] ==
        IF j > 1 /\ key[h[j \div 2]] > key[h[i]]
        THEN [up[j \div 2] EXCEPT ![j] = h[j \div 2]]
        ELSE [h EXCEPT ![j] = h[i]]
  IN IF i \in 1..Len(h) THEN up[i] ELSE h

\* The child of j that FilterDown looks at.
LesserChild(h, j, key) ==
  IF 2 * j < Len(h) /\ key[h[2 * j]] > key[h[2 * j + 1]]
  THEN 2 * j + 1 ELSE 2 * j

\* The element at i goes away from the root, past every lesser child.
FilterDown(h, i, key) ==
  LET down[j \in 1..Len(h)] ==
        LET c == LesserChild(h, j, key)
        IN IF 2 * j <= Len(h) /\ key[h[c]] < key[h[i]]
           THEN [down[c] EXCEPT ![j] = h[c]]
           ELSE [h EXCEPT ![j] = h[i]]
  IN IF i \in 1..Len(h) THEN down[i] ELSE h

\* What Remove and Update do at a position.
Settled(h, i, key) == FilterDown(FilterUp(h, i, key), i, key)

Pushed(h, e, key) == FilterUp(Append(h, e), Len(h) + 1, key)

\* The first position of an element; 0 when it is not there.
PosOf(h, e) ==
  IF \E i \in DOMAIN h : h[i] = e THEN CHOOSE i \in DOMAIN h : h[i] = e ELSE 0

\* The last element takes the place of e.
Removed(h, e, key) ==
  LET i == PosOf(h, e)
      n == Len(h)
  IN IF i = 0 THEN h
     ELSE Settled(SubSeq([h EXCEPT ![i] = h[n]], 1, n - 1), i, key)

\* The key of e has changed.
Updated(h, e, key) ==
  LET i == PosOf(h, e)
  IN IF i = 0 THEN h ELSE Settled(h, i, key)

-----------------------------------------------------------------------------
\* A parent's key is never above its children's.
HeapOrdered(h, key) ==
  \A i \in 2..Len(h) : key[h[i \div 2]] <= key[h[i]]
=============================================================================
