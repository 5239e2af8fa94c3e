-------------------------- MODULE ReadersWriter ---------------------------
(***************************************************************************)
(* What a readers-writer lock promises: any number of threads read, or one *)
(* thread writes.                                                          *)
(***************************************************************************)
CONSTANTS
  Threads,
  NULL      \* nobody

VARIABLES
  readers,  \* threads that hold the lock for reading
  writer    \* the thread that holds it for writing, or NULL

vars == <<readers, writer>>

Init == readers = {} /\ writer = NULL

Read(t) ==
  /\ writer = NULL
  /\ readers' = readers \cup {t}
  /\ writer' = writer

EndRead(t) ==
  /\ t \in readers
  /\ readers' = readers \ {t}
  /\ writer' = writer

Write(t) ==
  /\ readers = {} /\ writer = NULL
  /\ writer' = t
  /\ readers' = readers

EndWrite(t) ==
  /\ writer = t
  /\ writer' = NULL
  /\ readers' = readers

Next == \E t \in Threads : Read(t) \/ EndRead(t) \/ Write(t) \/ EndWrite(t)

Spec == Init /\ [][Next]_vars
=============================================================================
