------------------------------ MODULE RWLock ------------------------------
(***************************************************************************)
(* RWLock, a lock of the common library that spins on two integers.  A     *)
(* step is one atomic operation of the compiler, or one read of a field    *)
(* between two barriers.                                                   *)
(***************************************************************************)
EXTENDS Naturals, FiniteSets

CONSTANTS
  Threads,
  NULL      \* nobody

ASSUME RWLockAssumption == NULL \notin Threads /\ IsFiniteSet(Threads)

VARIABLES
  m_nRead,   \* threads that read, or have announced that they would
  m_nWrite,  \* 1 while a thread writes, or waits to
  pc         \* thread -> where it is

vars == <<m_nRead, m_nWrite, pc>>

Go(t, from, to) == pc[t] = from /\ pc' = [pc EXCEPT ![t] = to]

Init ==
  /\ m_nRead = 0 /\ m_nWrite = 0
  /\ pc = [t \in Threads |-> "out"]

-----------------------------------------------------------------------------
(* RLock and RUnlock.                                                      *)

CallRLock(t) == Go(t, "out", "look") /\ UNCHANGED <<m_nRead, m_nWrite>>

MayAnnounce == m_nWrite = 0

LookForWriter(t) ==
  /\ MayAnnounce
  /\ Go(t, "look", "announce")
  /\ UNCHANGED <<m_nRead, m_nWrite>>

Announce(t) ==
  /\ Go(t, "announce", "recheck")
  /\ m_nRead' = m_nRead + 1
  /\ UNCHANGED m_nWrite

\* The second look: a writer may have come in between.
MayRead == m_nWrite = 0

EnterRead(t) ==
  /\ MayRead
  /\ Go(t, "recheck", "reading")
  /\ UNCHANGED <<m_nRead, m_nWrite>>

SeeWriter(t) ==
  /\ ~MayRead
  /\ Go(t, "recheck", "withdraw")
  /\ UNCHANGED <<m_nRead, m_nWrite>>

Withdrawn == m_nRead - 1

Withdraw(t) ==
  /\ Go(t, "withdraw", "look")
  /\ m_nRead' = Withdrawn
  /\ UNCHANGED m_nWrite

RUnlock(t) ==
  /\ Go(t, "reading", "out")
  /\ m_nRead' = m_nRead - 1
  /\ UNCHANGED m_nWrite

-----------------------------------------------------------------------------
(* WLock and WUnlock.                                                      *)

CallWLock(t) == Go(t, "out", "swap") /\ UNCHANGED <<m_nRead, m_nWrite>>

\* Mutant: the old value is not looked at.
WonMutant == TRUE

\* Whether the old value lets the writer go on.
Won == m_nWrite = 0

\* The swap that finds 1 is repeated.
TestAndSet(t) ==
  /\ m_nWrite' = 1
  /\ Won /\ Go(t, "swap", "drain")
  /\ UNCHANGED m_nRead

EnterWrite(t) ==
  /\ m_nRead = 0
  /\ Go(t, "drain", "writing")
  /\ UNCHANGED <<m_nRead, m_nWrite>>

WUnlock(t) ==
  /\ Go(t, "writing", "out")
  /\ m_nWrite' = 0
  /\ UNCHANGED m_nRead

\* What a thread does by itself once it has called.
Step(t) ==
  \/ LookForWriter(t) \/ Announce(t) \/ EnterRead(t) \/ SeeWriter(t)
  \/ Withdraw(t) \/ RUnlock(t)
  \/ TestAndSet(t) \/ EnterWrite(t) \/ WUnlock(t)

Next == \E t \in Threads : CallRLock(t) \/ CallWLock(t) \/ Step(t)

Spec == Init /\ [][Next]_vars

-----------------------------------------------------------------------------
Readers == {t \in Threads : pc[t] = "reading"}
Writers == {t \in Threads : pc[t] = "writing"}

\* The threads m_nRead stands for.
Announced == {t \in Threads : pc[t] \in {"recheck", "withdraw", "reading"}}

TypeOK ==
  /\ m_nRead \in 0..Cardinality(Threads) /\ m_nWrite \in {0, 1}
  /\ pc \in [Threads -> {"out", "look", "announce", "recheck", "withdraw",
                         "reading", "swap", "drain", "writing"}]

\* m_nRead never drifts: it counts the threads that read or will withdraw.
ReadersCounted == m_nRead = Cardinality(Announced)

\* A writer is alone: nobody reads, and no second thread writes, while it
\* holds the lock.
Exclusion ==
  \A t \in Writers : Readers = {} /\ Writers = {t}

\* RWLock is a readers-writer lock.
Lock == INSTANCE ReadersWriter WITH
  readers <- Readers,
  writer  <- IF Writers = {} THEN NULL ELSE CHOOSE t \in Writers : TRUE

ImplementsLock == Lock!Spec

\* A writer that has set m_nWrite gets the lock, whatever the readers do:
\* those that come later withdraw.
WriterEnters == \A t \in Threads : (pc[t] = "drain") ~> (pc[t] = "writing")

\* Threads that want the lock do not keep each other out for ever.
SomeoneEnters ==
  (\E t \in Threads : pc[t] # "out") ~>
    (\E t \in Threads : pc[t] \in {"reading", "writing"})
=============================================================================
