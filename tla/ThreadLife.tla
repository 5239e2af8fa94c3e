----------------------------- MODULE ThreadLife -----------------------------
(***************************************************************************)
(* Thread and ThreadCollector.  A Thread is created suspended; resume runs *)
(* it and then notes that it is active, while threadProc notes the reverse *)
(* when execute has returned: two threads write m_active without a lock.   *)
(* The collector's own thread deletes, every 50 ms, the threads it was     *)
(* given that are not active; its destructor terminates the others, waits  *)
(* for them and deletes them.                                              *)
(*                                                                         *)
(* One owner creates and resumes threads and adds them, and destroys the   *)
(* collector in the end.  What is done under m_lockObj is one step, but    *)
(* for the destructor's waiting: nobody else needs the lock then.          *)
(***************************************************************************)
CONSTANTS
  Threads,  \* Thread objects
  None      \* no thread

ASSUME ThreadLifeAssumption == None \notin Threads

VARIABLES
  os,            \* thread -> "none"; the system's thread "suspended" or
                 \* "running"; "leaving" when threadProc is done with the
                 \* object; "ended"
  m_active, m_terminated,  \* threads whose flag is set
  making,        \* the thread the owner is at, or None
  stage,         \* what the owner did last with it
  m_threads,     \* the collector's list
  deleted,       \* threads deleted
  collector,     \* the collector's thread: "running" or "ended"
  destructor,    \* "no"; "terminate": it ends the collector's thread; "wait":
                 \* for the threads of the list; "done"
  waited         \* threads the destructor has waited for

owner == <<making, stage>>
ends  == <<collector, destructor, waited>>
lifeVars == <<os, m_active, m_terminated, owner, m_threads, deleted, ends>>

LifeInit ==
  /\ os = [t \in Threads |-> "none"]
  /\ m_active = {} /\ m_terminated = {}
  /\ making = None /\ stage = "added"
  /\ m_threads = {} /\ deleted = {}
  /\ collector = "running" /\ destructor = "no" /\ waited = {}

-----------------------------------------------------------------------------
(* The owner.                                                              *)

Create(t) ==
  /\ destructor = "no" /\ making = None /\ os[t] = "none"
  /\ os' = [os EXCEPT ![t] = "suspended"]
  /\ making' = t /\ stage' = "created"
  /\ UNCHANGED <<m_active, m_terminated, m_threads, deleted, ends>>

\* resume, first half: ResumeThread.
ResumeThread ==
  /\ stage = "created" /\ stage' = "resumed"
  /\ os' = [os EXCEPT ![making] = "running"]
  /\ UNCHANGED <<m_active, m_terminated, making, m_threads, deleted, ends>>

\* resume, second half: its result goes to m_active.
NoteActive ==
  /\ stage = "resumed" /\ stage' = "active"
  /\ m_active' = m_active \cup {making}
  /\ UNCHANGED <<os, m_terminated, making, m_threads, deleted, ends>>

AddThread ==
  /\ stage = "active" /\ stage' = "added" /\ making' = None
  /\ m_threads' = m_threads \cup {making}
  /\ UNCHANGED <<os, m_active, m_terminated, deleted, ends>>

-----------------------------------------------------------------------------
(* threadProc.                                                             *)

\* Mutant: the flag is cleared when execute begins.
ClearsAtMutant == "running"

\* Where the thread is when it has cleared m_active.
ClearsAt == "leaving"

\* execute returns, by itself or when it is asked to.
Leave(t) ==
  /\ os[t] = "running"
  /\ m_active' = m_active \ {t}
  /\ os' = [os EXCEPT ![t] = ClearsAt]
  /\ UNCHANGED <<m_terminated, owner, m_threads, deleted, ends>>

End(t) ==
  /\ os[t] = "leaving" /\ os' = [os EXCEPT ![t] = "ended"]
  /\ UNCHANGED <<m_active, m_terminated, owner, m_threads, deleted, ends>>

-----------------------------------------------------------------------------
(* The collector.                                                          *)

Erased(T) == m_threads \ T

DeleteDeadThreads ==
  LET dead == m_threads \ m_active
  IN m_threads' = Erased(dead) /\ deleted' = deleted \cup dead

\* execute, one turn.
Collect ==
  /\ collector = "running" /\ destructor = "no"
  /\ DeleteDeadThreads
  /\ UNCHANGED <<os, m_active, m_terminated, owner, ends>>

\* The collector sees isTerminating, the owner's wait for it is over.
CollectorEnds ==
  /\ collector = "running" /\ destructor = "terminate"
  /\ collector' = "ended"
  /\ UNCHANGED <<os, m_active, m_terminated, owner, m_threads, deleted,
                 destructor, waited>>

Destroy ==
  /\ destructor = "no" /\ making = None
  /\ destructor' = "terminate"
  /\ UNCHANGED <<os, m_active, m_terminated, owner, m_threads, deleted,
                 collector, waited>>

Asked == m_terminated \cup m_threads

\* destroyAllThreads: terminate for each.
TerminateAll ==
  /\ destructor = "terminate" /\ collector = "ended"
  /\ destructor' = "wait"
  /\ m_terminated' = Asked
  /\ UNCHANGED <<os, m_active, owner, m_threads, deleted, collector, waited>>

\* Thread::wait returns: the thread is not active, or its handle signals.
WaitIsOver(t) == t \notin m_active \/ os[t] = "ended"

WaitFor(t) ==
  /\ destructor = "wait" /\ t \in m_threads \ waited
  /\ WaitIsOver(t)
  /\ waited' = waited \cup {t}
  /\ UNCHANGED <<os, m_active, m_terminated, owner, m_threads, deleted,
                 collector, destructor>>

DeleteAll ==
  /\ destructor = "wait" /\ m_threads \subseteq waited
  /\ destructor' = "done"
  /\ DeleteDeadThreads
  /\ UNCHANGED <<os, m_active, m_terminated, owner, collector, waited>>

-----------------------------------------------------------------------------
Destructor ==
  \/ CollectorEnds \/ TerminateAll \/ DeleteAll \/ \E t \in Threads : WaitFor(t)

LifeNext ==
  \/ \E t \in Threads : Create(t) \/ Leave(t) \/ End(t)
  \/ ResumeThread \/ NoteActive \/ AddThread
  \/ Collect \/ Destroy \/ Destructor

LifeSpec == LifeInit /\ [][LifeNext]_lifeVars

-----------------------------------------------------------------------------
\* A deleted thread is on the list no more, so it is deleted once.
LifeTypeOK ==
  /\ os \in [Threads -> {"none", "suspended", "running", "leaving", "ended"}]
  /\ m_active \subseteq Threads /\ m_terminated \subseteq Threads
  /\ making \in Threads \cup {None}
  /\ stage \in {"created", "resumed", "active", "added"}
  /\ (making = None <=> stage = "added")
  /\ m_threads \subseteq Threads /\ deleted \subseteq Threads \ m_threads
  /\ collector \in {"running", "ended"}
  /\ destructor \in {"no", "terminate", "wait", "done"}
  /\ waited \subseteq Threads

\* A thread that is done with its object.
Gone == {"leaving", "ended"}

\* A Thread object is not deleted while its thread may still use it, though
\* the flag that decides is written by two threads.
RunningIsKept == \A t \in deleted : os[t] \in Gone

\* When the collector is destroyed every thread it had has ended its execute,
\* so that nothing uses the objects that go with it.
AllEnded ==
  destructor = "done" =>
    \A t \in m_threads \cup deleted : os[t] \in Gone

\* What the collector never does wrong (ThreadCollector.cpp, Thread.cpp).
CollectorSafe == LifeTypeOK /\ RunningIsKept /\ AllEnded

\* The collector's destructor returns.
DestructorReturns == destructor = "terminate" ~> destructor = "done"
=============================================================================
