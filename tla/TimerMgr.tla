------------------------------ MODULE TimerMgr ------------------------------
(***************************************************************************)
(* TimerMgr: timers that fire every so many milliseconds, in a heap by the *)
(* time they expire and in a map by their id.  ExecuteTimer is called over *)
(* and over with the time: it runs the callbacks of the timers that are    *)
(* due and re-arms them.  A callback may register and remove timers, its   *)
(* own too, while ExecuteTimer is in the middle of its loop, and takes     *)
(* time.  RemoveTimer only marks a timer: ExecuteTimer frees it.           *)
(*                                                                         *)
(* A timer is the number of its object, counted from 1; ids are counted    *)
(* too and come round.  The owner's calls stand between two steps of the   *)
(* loop: all is one thread.                                                *)
(***************************************************************************)
EXTENDS Integers, HeapArray, FiniteSets, SequencesExt

CONSTANTS
  Delays,     \* the periods a timer may have
  Early,      \* 1000: how far back MarkExpire puts a timer
  MaxId,      \* 0xFFFFFFFF: the greatest timer id
  MaxTimers,  \* bound: timers registered in all
  MaxTime     \* bound: the clock's last value

TimerMgrAssumption ==
  /\ Delays \subseteq Nat \ {0} /\ Early \in Nat
  /\ MaxId \in Nat \ {0} /\ MaxTimers \in Nat /\ MaxTime \in Nat

Timers == 1..MaxTimers
Ids    == 1..MaxId

VARIABLES
  clock,          \* XTime::MSTime()
  count,          \* timers registered so far
  m_oTimerHeap,
  m_oTimerMap,    \* id -> the timer, or 0
  m_oTimerCache,  \* timers the loop has taken from the heap
  m_nExpireTime, m_uTimerTime, m_bCancel,
                  \* timer -> its fields
  freed,          \* timers deleted
  pc,             \* "idle"; "loop" in ExecuteTimer; "callback" in Execute
  nNowMS,         \* the argument of ExecuteTimer
  poTimer,        \* the timer whose callback runs, or 0
  ran,            \* callbacks run by this ExecuteTimer, in order
  due,            \* timers to run as this ExecuteTimer began
  marked          \* timers removed and not freed as it began

store  == <<m_oTimerHeap, m_oTimerMap, m_nExpireTime, m_uTimerTime, m_bCancel>>
pass   == <<m_oTimerCache, freed, pc, nNowMS, poTimer, ran, due, marked>>
vars   == <<clock, count, store, pass>>

Init ==
  /\ clock = 0 /\ count = 0
  /\ m_oTimerHeap = <<>> /\ m_oTimerMap = [i \in Ids |-> 0]
  /\ m_oTimerCache = <<>>
  /\ m_nExpireTime = [t \in Timers |-> 0]
  /\ m_uTimerTime = [t \in Timers |-> 0]
  /\ m_bCancel = [t \in Timers |-> FALSE]
  /\ freed = {} /\ pc = "idle" /\ nNowMS = 0 /\ poTimer = 0
  /\ ran = <<>> /\ due = {} /\ marked = {}

-----------------------------------------------------------------------------
(* The owner's calls: between two ExecuteTimer, or in a callback.          *)

\* GenTimerID: the id of the n-th timer.
TimerId(n) == ((n - 1) % MaxId) + 1

FirstExpiry(uMSTime) == clock + uMSTime

RegisterTimer(uMSTime) ==
  /\ pc # "loop" /\ count < MaxTimers
  /\ LET t == count + 1 IN
       /\ count' = t
       /\ m_nExpireTime' = [m_nExpireTime EXCEPT ![t] = FirstExpiry(uMSTime)]
       /\ m_uTimerTime' = [m_uTimerTime EXCEPT ![t] = uMSTime]
       /\ m_oTimerHeap' = Pushed(m_oTimerHeap, t, m_nExpireTime')
       /\ m_oTimerMap' = [m_oTimerMap EXCEPT ![TimerId(t)] = t]
  /\ UNCHANGED <<clock, m_bCancel, pass>>

\* MarkExpire.
MarkedExpiry(t) == clock - Early

Requeued(t, key) == Updated(m_oTimerHeap, t, key)

\* RemoveTimer of an id it finds; of another it says so only.
RemoveTimer(id) ==
  /\ pc # "loop" /\ m_oTimerMap[id] # 0
  /\ LET t == m_oTimerMap[id] IN
       /\ m_oTimerMap' = [m_oTimerMap EXCEPT ![id] = 0]
       /\ m_bCancel' = [m_bCancel EXCEPT ![t] = TRUE]
       /\ m_nExpireTime' = [m_nExpireTime EXCEPT ![t] = MarkedExpiry(t)]
       /\ m_oTimerHeap' = Requeued(t, m_nExpireTime')
  /\ UNCHANGED <<clock, count, m_uTimerTime, pass>>

-----------------------------------------------------------------------------
(* ExecuteTimer.  Its caller passes the time it is.                        *)

IsDue(t, time) == m_nExpireTime[t] <= time

Held == {m_oTimerHeap[i] : i \in DOMAIN m_oTimerHeap}

ExecuteTimer ==
  /\ pc = "idle" /\ pc' = "loop"
  /\ nNowMS' = clock
  /\ ran' = <<>>
  /\ due' = {t \in Held : ~m_bCancel[t] /\ m_nExpireTime[t] <= clock}
  /\ marked' = {t \in Held : m_bCancel[t]}
  /\ UNCHANGED <<clock, count, store, m_oTimerCache, freed, poTimer>>

\* The heap's first element is due.
AtHead(t) == m_oTimerHeap # <<>> /\ m_oTimerHeap[1] = t /\ IsDue(t, nNowMS)

\* The timer goes from the heap to the cache.
SetAside(t) ==
  /\ m_oTimerCache' = Append(m_oTimerCache, t)
  /\ m_oTimerHeap' = Removed(m_oTimerHeap, t, m_nExpireTime)
  /\ UNCHANGED <<clock, count, m_oTimerMap, m_nExpireTime, m_uTimerTime,
                 m_bCancel, freed, nNowMS, ran, due, marked>>

Runs(t) == ~m_bCancel[t]

\* The callback starts; the timer is still in the heap.
Execute(t) ==
  /\ pc = "loop" /\ AtHead(t) /\ Runs(t)
  /\ pc' = "callback" /\ poTimer' = t
  /\ ran' = Append(ran, t)
  /\ UNCHANGED <<clock, count, store, m_oTimerCache, freed, nNowMS, due, marked>>

CallbackReturns ==
  /\ pc = "callback" /\ pc' = "loop" /\ poTimer' = 0
  /\ SetAside(poTimer)

SkipCancelled(t) ==
  /\ pc = "loop" /\ AtHead(t) /\ ~Runs(t)
  /\ SetAside(t)
  /\ UNCHANGED <<pc, poTimer>>

\* Mutant: the cache is not cleared.
ClearedMutant == m_oTimerCache

Cleared == <<>>

\* Of the timers in cache c, the last first, those in S are pushed on heap h.
PutBack(h, c, S, expiry) ==
  LET n == Len(c)
      put[k \in 0..n] ==
        IF k = 0 THEN h
        ELSE LET t == c[n + 1 - k]
             IN IF t \in S THEN Pushed(put[k - 1], t, expiry) ELSE put[k - 1]
  IN put[n]

\* Nothing more is due: the timers set aside are freed or put back with a new
\* time.
Finish ==
  /\ pc = "loop" /\ ~\E t \in Timers : AtHead(t)
  /\ LET kept == {t \in ToSet(m_oTimerCache) : ~m_bCancel[t]}
     IN /\ m_nExpireTime' = [t \in Timers |->
             IF t \in kept THEN nNowMS + m_uTimerTime[t] ELSE m_nExpireTime[t]]
        /\ m_oTimerHeap' = PutBack(m_oTimerHeap, m_oTimerCache, kept, m_nExpireTime')
  /\ freed' = freed \cup {t \in ToSet(m_oTimerCache) : m_bCancel[t]}
  /\ m_oTimerCache' = Cleared
  /\ pc' = "idle"
  /\ UNCHANGED <<clock, count, m_oTimerMap, m_uTimerTime, m_bCancel, nNowMS,
                 poTimer, ran, due, marked>>

\* Time passes, in a callback or between two ExecuteTimer.
Tick ==
  /\ clock < MaxTime /\ pc # "loop" /\ clock' = clock + 1
  /\ UNCHANGED <<count, store, pass>>

Next ==
  \/ \E d \in Delays : RegisterTimer(d)
  \/ \E id \in Ids : RemoveTimer(id)
  \/ ExecuteTimer \/ CallbackReturns \/ Finish \/ Tick
  \/ \E t \in Timers : Execute(t) \/ SkipCancelled(t)

Spec == Init /\ [][Next]_vars

-----------------------------------------------------------------------------
TypeOK ==
  /\ clock \in 0..MaxTime /\ nNowMS \in 0..clock
  /\ count \in 0..MaxTimers
  /\ m_oTimerHeap \in Seq(1..count) /\ m_oTimerCache \in Seq(1..count)
  /\ Len(m_oTimerCache) <= count
  /\ m_oTimerMap \in [Ids -> 0..count]
  /\ m_nExpireTime \in [Timers -> Int]
  /\ m_uTimerTime \in [Timers -> Delays \cup {0}]
  /\ m_bCancel \in [Timers -> BOOLEAN]
  /\ freed \subseteq 1..count /\ due \subseteq 1..count /\ marked \subseteq 1..count
  /\ pc \in {"idle", "loop", "callback"}
  /\ poTimer \in Timers \cup {0} /\ (pc = "callback" <=> poTimer # 0)
  /\ ran \in Seq(1..count)

\* A timer that is not freed is in one place, the heap or the loop's cache,
\* and once; a freed one is in neither.  The map has the timers that are not
\* cancelled.  So whatever callbacks do, no timer leaks, none is freed twice,
\* and no pointer to a freed one is kept.
Tracked ==
  LET all == m_oTimerHeap \o m_oTimerCache IN
  /\ Len(all) = Cardinality(ToSet(all))
  /\ ToSet(all) = 1..count \ freed
  /\ {m_oTimerMap[i] : i \in Ids} \ {0} = {t \in 1..count : ~m_bCancel[t]}

\* The heap is in order whenever somebody may look at it, though callbacks
\* change the times of timers in the middle of the loop.
InOrder == HeapOrdered(m_oTimerHeap, m_nExpireTime)

\* One ExecuteTimer runs a callback once, and only of a timer that was due
\* when it began: a short period, a slow callback or a timer registered in a
\* callback do not keep it in its loop.
RunsOnce ==
  /\ ToSet(ran) \subseteq due
  /\ Len(ran) = Cardinality(ToSet(ran))

\* When ExecuteTimer returns, every timer that was due has run or was removed
\* meanwhile, and every timer removed before it began is freed.
PassComplete ==
  pc = "idle" =>
    /\ \A t \in due : t \in ToSet(ran) \/ m_bCancel[t]
    /\ marked \subseteq freed

\* Once RemoveTimer has returned, the callback is not called, not even in the
\* ExecuteTimer under way.
RemovedIsSilent ==
  [][Len(ran') > Len(ran) =>
       \E i \in Ids : m_oTimerMap[i] = ran'[Len(ran')]]_vars
=============================================================================
