----------------------------- MODULE MCCommon -----------------------------
(***************************************************************************)
(* Small instances of the common library's containers: the spin lock, the  *)
(* message queue, the timers and the heap under them.  They share no       *)
(* state; a behaviour is one of the instance that `subject' names, with    *)
(* the others as they were made.                                           *)
(***************************************************************************)
EXTENDS RWLock, MsgQueue

CONSTANTS
  Delays, Early, MaxId, MaxTimers, MaxTime,                 \* TimerMgr
  Elements, Keys                                            \* MinHeap

VARIABLES
  subject,
  clock, count, m_oTimerHeap, m_oTimerMap, m_oTimerCache,   \* TimerMgr
  m_nExpireTime, m_uTimerTime, m_bCancel, freed, step, nNowMS, poTimer,
  ran, due, marked,
  m_pHeap, key, inside                                      \* MinHeap

Timing == INSTANCE TimerMgr WITH pc <- step
Heap   == INSTANCE MinHeap

ASSUME MCCommonAssumption == Timing!TimerMgrAssumption /\ Heap!MinHeapAssumption

timingVars == <<clock, count, m_oTimerHeap, m_oTimerMap, m_oTimerCache,
                m_nExpireTime, m_uTimerTime, m_bCancel, freed, step, nNowMS,
                poTimer, ran, due, marked>>
heapVars   == <<m_pHeap, key, inside>>
commonVars == <<subject, vars, queueVars, timingVars, heapVars>>

CommonInit ==
  /\ subject \in {"lock", "queue", "timers", "heap"}
  /\ Init /\ QueueInit /\ Timing!Init /\ Heap!Init
  /\ subject # "heap" => key = [e \in Elements |-> 1]

CommonNext ==
  /\ UNCHANGED subject
  /\ \/ /\ subject = "lock" /\ Next
        /\ UNCHANGED <<queueVars, timingVars, heapVars>>
     \/ /\ subject = "queue" /\ QueueNext
        /\ UNCHANGED <<vars, timingVars, heapVars>>
     \/ /\ subject = "timers" /\ Timing!Next
        /\ UNCHANGED <<vars, queueVars, heapVars>>
     \/ /\ subject = "heap" /\ Heap!Next
        /\ UNCHANGED <<vars, queueVars, timingVars>>

\* A thread that spins on the lock is scheduled, and one that has the lock
\* releases it.  A thread that is woken gets the queue's mutex, and somebody
\* calls FetchMsg.
Fairness ==
  /\ \A t \in Threads : WF_vars(subject = "lock" /\ Step(t))
  /\ \A t \in Fetchers :
       /\ WF_queueVars(subject = "queue" /\ Return(t))
       /\ WF_queueVars(subject = "queue" /\ FetchMsg(t))

CommonSpec == CommonInit /\ [][CommonNext]_commonVars /\ Fairness

-----------------------------------------------------------------------------
\* What the containers never do wrong: the lock counts its readers, a message
\* is fetched once and its signal not wasted, a timer runs once, in order and
\* never after its removal, and the heap's root is its least element.
LibrarySafe ==
  /\ [](TypeOK /\ ReadersCounted)
  /\ []QueueSafe
  /\ [](/\ Timing!TypeOK /\ Timing!Tracked /\ Timing!InOrder
        /\ Timing!RunsOnce /\ Timing!PassComplete)
  /\ Timing!RemovedIsSilent
  /\ [](Heap!TypeOK /\ Heap!MinIsLeast)

\* Whoever waits is served: a writer behind readers, somebody of those at the
\* lock, and a message in the queue.
LibraryServes == WriterEnters /\ SomeoneEnters /\ Fetched
=============================================================================
