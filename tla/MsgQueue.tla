----------------------------- MODULE MsgQueue -----------------------------
(***************************************************************************)
(* MsgQueue, a queue between threads with a mutex and a condition.         *)
(* FetchMsg waits on the condition while the queue is empty, for a time or *)
(* for ever; PumpMsg puts a message at either end and signals once.        *)
(*                                                                         *)
(* A step is what one thread does while it has m_Mutex.  A signal wakes    *)
(* one of the threads waiting, if there is one; a woken thread comes back  *)
(* to the mutex at any later time.  Messages are numbered as they come.    *)
(***************************************************************************)
EXTENDS Naturals, Sequences, FiniteSets

CONSTANTS
  Fetchers,    \* threads that call FetchMsg
  MaxPumped,   \* bound: messages in all
  MAX_MSG_NUM  \* 204800

ASSUME MsgQueueAssumption ==
  MaxPumped \in Nat /\ MAX_MSG_NUM \in Nat /\ IsFiniteSet(Fetchers)

VARIABLES
  m_MsgList,  \* messages queued
  pumped,     \* messages pumped so far
  waiting,    \* threads in the condition's queue
  woken,      \* threads signalled that have not got the mutex back
  fetched     \* message -> the times FetchMsg returned it

queueVars == <<m_MsgList, pumped, waiting, woken, fetched>>

QueueInit ==
  /\ m_MsgList = <<>> /\ pumped = 0
  /\ waiting = {} /\ woken = {}
  /\ fetched = [m \in 1..MaxPumped |-> 0]

\* Mutant: the signal is forgotten.
SilentMutant == FALSE

\* Whether a message signals.
Signals == TRUE

\* pthread_cond_signal.
Signal ==
  IF Signals /\ waiting # {}
  THEN \E t \in waiting : waiting' = waiting \ {t} /\ woken' = woken \cup {t}
  ELSE UNCHANGED <<waiting, woken>>

\* PumpMsg.  A queue longer than MAX_MSG_NUM is reported, and grows.
PumpMsg(front) ==
  /\ pumped < MaxPumped
  /\ pumped' = pumped + 1
  /\ m_MsgList' = IF front THEN <<pumped + 1>> \o m_MsgList
                           ELSE Append(m_MsgList, pumped + 1)
  /\ Signal
  /\ UNCHANGED fetched

Popped == Tail(m_MsgList)

Take ==
  /\ m_MsgList # <<>>
  /\ fetched' = [fetched EXCEPT ![Head(m_MsgList)] = @ + 1]
  /\ m_MsgList' = Popped
  /\ UNCHANGED pumped

\* FetchMsg with the mutex: a message, or a wait.
FetchMsg(t) ==
  /\ t \notin waiting \cup woken
  /\ \/ Take /\ UNCHANGED <<waiting, woken>>
     \/ /\ m_MsgList = <<>>
        /\ waiting' = waiting \cup {t}
        /\ UNCHANGED <<m_MsgList, pumped, woken, fetched>>

\* The loop's second test: somebody else was faster.
WaitsAgain(t) ==
  /\ m_MsgList = <<>>
  /\ waiting' = waiting \cup {t}
  /\ UNCHANGED <<m_MsgList, pumped, fetched>>

\* A woken thread has the mutex again.
Return(t) ==
  /\ t \in woken
  /\ woken' = woken \ {t}
  /\ \/ Take /\ UNCHANGED waiting
     \/ WaitsAgain(t)

\* The wait of a thread that was not signalled times out: it takes what is
\* there, or returns false.
WaitTimesOut(t) ==
  /\ t \in waiting
  /\ waiting' = waiting \ {t}
  /\ \/ Take /\ UNCHANGED woken
     \/ m_MsgList = <<>> /\ UNCHANGED <<m_MsgList, pumped, woken, fetched>>

QueueNext ==
  \/ \E front \in BOOLEAN : PumpMsg(front)
  \/ \E t \in Fetchers : FetchMsg(t) \/ Return(t) \/ WaitTimesOut(t)

QueueSpec == QueueInit /\ [][QueueNext]_queueVars

-----------------------------------------------------------------------------
QueueTypeOK ==
  /\ m_MsgList \in Seq(1..MaxPumped)
  /\ pumped \in 0..MaxPumped
  /\ waiting \subseteq Fetchers /\ woken \subseteq Fetchers \ waiting
  /\ fetched \in [1..MaxPumped -> 0..1]

\* A message pumped is on the list or was fetched, once.
EachOnce ==
  \A m \in 1..pumped :
    fetched[m] + Cardinality({i \in DOMAIN m_MsgList : m_MsgList[i] = m}) = 1

\* No message waits for want of a signal: while threads wait, at least as
\* many as there are messages are on their way to the mutex.  A thread that
\* comes in between and takes a message, and a timeout, keep it so.
EnoughWoken ==
  waiting # {} => Len(m_MsgList) <= Cardinality(woken)

\* What the queue never does wrong (MsgQueue.h).
QueueSafe == QueueTypeOK /\ EachOnce /\ EnoughWoken

\* A message is fetched in the end.
Fetched == \A m \in 1..MaxPumped : (pumped >= m) ~> (fetched[m] = 1)
=============================================================================
