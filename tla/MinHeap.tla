------------------------------ MODULE MinHeap ------------------------------
(***************************************************************************)
(* MinHeap under any sequence of its operations, with the elements' keys   *)
(* changed from outside: the caller changes a key and calls Update, as     *)
(* TimerMgr does.  At most one element's key is out of date at a time.     *)
(***************************************************************************)
EXTENDS HeapArray, FiniteSets

CONSTANTS
  Elements,  \* what may be in the heap
  Keys       \* values of a key

MinHeapAssumption == IsFiniteSet(Elements) /\ Keys \subseteq Nat

VARIABLES
  m_pHeap,  \* the array, up to m_nCount
  key,      \* element -> its key
  inside    \* the elements pushed and not removed, as the callers know them

vars == <<m_pHeap, key, inside>>

Init ==
  /\ m_pHeap = <<>>
  /\ key \in [Elements -> Keys]
  /\ inside = {}

\* Push of a new element.
Push(e) ==
  /\ e \notin inside
  /\ m_pHeap' = Pushed(m_pHeap, e, key)
  /\ inside' = inside \cup {e}
  /\ UNCHANGED key

\* Remove of an element, wherever it is.
Remove(e) ==
  /\ e \in inside
  /\ m_pHeap' = Removed(m_pHeap, e, key)
  /\ inside' = inside \ {e}
  /\ UNCHANGED key

\* A key changes, and Update puts the element where it belongs.  An element
\* that is not in the heap is not found.
Update(e) ==
  /\ key' \in {[key EXCEPT ![e] = k] : k \in Keys}
  /\ m_pHeap' = Updated(m_pHeap, e, key')
  /\ UNCHANGED inside

Next == \E e \in Elements : Push(e) \/ Remove(e) \/ Update(e)

Spec == Init /\ [][Next]_vars

-----------------------------------------------------------------------------
\* The array holds the elements pushed and not removed, each once: no shift
\* along a path loses one or leaves one twice.
TypeOK ==
  /\ key \in [Elements -> Keys]
  /\ {m_pHeap[i] : i \in DOMAIN m_pHeap} = inside
  /\ Len(m_pHeap) = Cardinality(inside)

\* The heap stays in order, so that Min returns a least element, whatever is
\* removed from its middle and whichever way a key changes.
MinIsLeast ==
  /\ HeapOrdered(m_pHeap, key)
  /\ m_pHeap # <<>> => \A e \in inside : key[m_pHeap[1]] <= key[e]
=============================================================================
