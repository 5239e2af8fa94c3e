---------------------------- MODULE CommonProofs ----------------------------
(***************************************************************************)
(* Proofs about the common library's containers: the spin lock, for any    *)
(* finite number of threads; the message queue, for any finite number of   *)
(* threads and any number of messages; the heap, for any elements and      *)
(* keys; and the timers, for any number of them.                           *)
(***************************************************************************)
EXTENDS MCCommon, HeapArray, SequencesExt, FiniteSetTheorems,
        SequenceTheorems, WellFoundedInduction, TLAPS

-----------------------------------------------------------------------------
(* The lock.                                                               *)

\* A thread between its swap and its WUnlock owns m_nWrite, alone.
FlagOwned ==
  \A t \in Threads : pc[t] \in {"drain", "writing"} =>
    /\ m_nWrite = 1
    /\ \A u \in Threads : pc[u] \in {"drain", "writing"} => u = t

PCs == {"out", "look", "announce", "recheck", "withdraw", "reading", "swap",
        "drain", "writing"}

Types == m_nRead \in Nat /\ m_nWrite \in {0, 1} /\ pc \in [Threads -> PCs]

\* The inductive invariant.  Exclusion needs to know that m_nRead is 0 only
\* when nobody reads, and that whoever waits for it owns the flag.
IInv == Types /\ ReadersCounted /\ FlagOwned /\ Exclusion

LEMMA IInvInit == Init => IInv
<1>. SUFFICES ASSUME Init PROVE IInv  OBVIOUS
<1>1. Types  BY DEF Init, Types, PCs
<1>2. Announced = {}  BY DEF Init, Announced
<1>3. ReadersCounted  BY <1>2, FS_EmptySet DEF Init, ReadersCounted
<1>4. FlagOwned /\ Exclusion
  BY DEF Init, FlagOwned, Exclusion, Readers, Writers
<1>. QED  BY <1>1, <1>3, <1>4 DEF IInv

\* The set m_nRead counts is finite, and no larger than the threads.
LEMMA AnnouncedFinite ==
  /\ IsFiniteSet(Announced)
  /\ Cardinality(Announced) \in Nat
  /\ Cardinality(Announced) <= Cardinality(Threads)
  /\ Cardinality(Announced) = 0 <=> Announced = {}
<1>1. Announced \subseteq Threads  BY DEF Announced
<1>. QED  BY <1>1, FS_Subset, FS_CardinalityType, FS_EmptySet, RWLockAssumption

\* What a step of one thread does to the count.
LEMMA CountNext ==
  ASSUME IInv, NEW t \in Threads,
         CallRLock(t) \/ CallWLock(t) \/ Step(t)
  PROVE  ReadersCounted'
<1>. USE DEF IInv, Types, ReadersCounted, Announced, Go, PCs
<1>1. CASE Announce(t)
  <2>1. Announced' = Announced \cup {t} /\ t \notin Announced
    BY <1>1 DEF Announce
  <2>2. Cardinality(Announced') = Cardinality(Announced) + 1
    BY <2>1, AnnouncedFinite, FS_AddElement
  <2>. QED  BY <1>1, <2>2 DEF Announce
<1>2. CASE Withdraw(t) \/ RUnlock(t)
  <2>1. Announced' = Announced \ {t} /\ t \in Announced
    BY <1>2 DEF Withdraw, RUnlock
  <2>2. Cardinality(Announced') = Cardinality(Announced) - 1
    BY <2>1, AnnouncedFinite, FS_RemoveElement
  <2>3. m_nRead' = m_nRead - 1  BY <1>2 DEF Withdraw, RUnlock, Withdrawn
  <2>. QED  BY <2>2, <2>3
<1>3. CASE ~(Announce(t) \/ Withdraw(t) \/ RUnlock(t))
  <2>1. Announced' = Announced /\ m_nRead' = m_nRead
    BY <1>3 DEF CallRLock, CallWLock, Step, LookForWriter, EnterRead, SeeWriter,
                TestAndSet, EnterWrite, WUnlock
  <2>. QED  BY <2>1
<1>. QED  BY <1>1, <1>2, <1>3

\* What it does to the flag.
LEMMA FlagNext ==
  ASSUME IInv, NEW t \in Threads,
         CallRLock(t) \/ CallWLock(t) \/ Step(t)
  PROVE  Types' /\ FlagOwned'
<1>. USE DEF IInv, Types, FlagOwned, Go, PCs
<1>1. CASE CallRLock(t) \/ CallWLock(t)  BY <1>1 DEF CallRLock, CallWLock
<1>2. CASE LookForWriter(t) \/ Announce(t)  BY <1>2 DEF LookForWriter, Announce
<1>3. CASE EnterRead(t) \/ SeeWriter(t)  BY <1>3 DEF EnterRead, SeeWriter
<1>4. CASE Withdraw(t) \/ RUnlock(t)
  <2>1. t \in Announced /\ m_nRead' = m_nRead - 1
    BY <1>4 DEF Withdraw, RUnlock, Withdrawn, Announced
  <2>2. m_nRead > 0  BY <2>1, AnnouncedFinite DEF ReadersCounted
  <2>. QED  BY <1>4, <2>1, <2>2 DEF Withdraw, RUnlock
<1>5. CASE TestAndSet(t)  BY <1>5 DEF TestAndSet, Won
<1>6. CASE EnterWrite(t)  BY <1>6 DEF EnterWrite
<1>7. CASE WUnlock(t)  BY <1>7 DEF WUnlock
<1>. QED  BY <1>1, <1>2, <1>3, <1>4, <1>5, <1>6, <1>7 DEF Step

\* How it changes who holds the lock.
LEMMA HoldersNext ==
  ASSUME IInv, NEW t \in Threads,
         CallRLock(t) \/ CallWLock(t) \/ Step(t)
  PROVE  \/ Readers' = Readers /\ Writers' = Writers
         \/ Writers = {} /\ Writers' = {} /\ Readers' = Readers \cup {t}
         \/ t \in Readers /\ Readers' = Readers \ {t} /\ Writers' = Writers
         \/ Readers = {} /\ Readers' = {} /\ Writers = {} /\ Writers' = {t}
         \/ Writers = {t} /\ Writers' = {} /\ Readers' = Readers
<1>. USE DEF IInv, Types, Readers, Writers, Go, PCs
<1>1. CASE EnterRead(t)
  <2>1. Writers = {}  BY <1>1 DEF EnterRead, MayRead, FlagOwned
  <2>2. Writers' = {} /\ Readers' = Readers \cup {t}  BY <1>1, <2>1 DEF EnterRead
  <2>. QED  BY <2>1, <2>2
<1>2. CASE RUnlock(t)
  BY <1>2 DEF RUnlock
<1>3. CASE EnterWrite(t)
  <2>1. Announced = {}  BY <1>3, AnnouncedFinite DEF EnterWrite, ReadersCounted
  <2>2. Readers = {}  BY <2>1 DEF Announced
  <2>3. Writers = {}  BY <1>3 DEF EnterWrite, FlagOwned
  <2>4. Readers' = {} /\ Writers' = {t}  BY <1>3, <2>2, <2>3 DEF EnterWrite
  <2>. QED  BY <2>2, <2>3, <2>4
<1>4. CASE WUnlock(t)
  <2>1. Writers = {t}  BY <1>4 DEF WUnlock, Exclusion
  <2>2. Writers' = {} /\ Readers' = Readers  BY <1>4, <2>1 DEF WUnlock
  <2>. QED  BY <2>1, <2>2
<1>5. CASE ~(EnterRead(t) \/ RUnlock(t) \/ EnterWrite(t) \/ WUnlock(t))
  BY <1>5 DEF CallRLock, CallWLock, Step, LookForWriter, Announce, SeeWriter,
              Withdraw, TestAndSet
<1>. QED  BY <1>1, <1>2, <1>3, <1>4, <1>5

LEMMA IInvNext == IInv /\ [Next]_vars => IInv'
<1>. SUFFICES ASSUME IInv, [Next]_vars PROVE IInv'  OBVIOUS
<1>1. CASE UNCHANGED vars
  BY <1>1 DEF vars, IInv, Types, ReadersCounted, Announced, FlagOwned, Exclusion,
              Readers, Writers
<1>2. ASSUME NEW t \in Threads, CallRLock(t) \/ CallWLock(t) \/ Step(t)
      PROVE  IInv'
  <2>1. Exclusion'
    BY <1>2, HoldersNext DEF IInv, Exclusion
  <2>. QED  BY <1>2, <2>1, CountNext, FlagNext DEF IInv
<1>. QED  BY <1>1, <1>2 DEF Next

\* The two fields stay in range, m_nRead below the number of threads.
THEOREM TypeCorrect == Spec => []TypeOK
<1>1. IInv => TypeOK
  BY AnnouncedFinite, FS_CardinalityType, RWLockAssumption
  DEF IInv, Types, PCs, TypeOK, ReadersCounted
<1>. QED  BY <1>1, IInvInit, IInvNext, PTL DEF Spec

\* m_nRead counts the readers, however often they came and withdrew.
THEOREM CountCorrect == Spec => []ReadersCounted
<1>1. IInv => ReadersCounted  BY DEF IInv
<1>. QED  BY <1>1, IInvInit, IInvNext, PTL DEF Spec

\* A writer is alone.
THEOREM MutualExclusion == Spec => []Exclusion
<1>1. IInv => Exclusion  BY DEF IInv
<1>. QED  BY <1>1, IInvInit, IInvNext, PTL DEF Spec

-----------------------------------------------------------------------------
(* The refinement.                                                         *)

\* Every step takes or releases the lock as ReadersWriter allows, or changes
\* nothing there.
LEMMA StepRefines == IInv /\ [Next]_vars => [Lock!Next]_(Lock!vars)
<1>. DEFINE writer == IF Writers = {} THEN NULL ELSE CHOOSE t \in Writers : TRUE
<1>. SUFFICES ASSUME IInv, [Next]_vars PROVE [Lock!Next]_(Lock!vars)  OBVIOUS
<1>1. CASE UNCHANGED vars
  BY <1>1 DEF vars, Readers, Writers, Lock!vars
<1>2. ASSUME NEW t \in Threads, CallRLock(t) \/ CallWLock(t) \/ Step(t)
      PROVE  [Lock!Next]_(Lock!vars)
  <2>1. CASE Readers' = Readers /\ Writers' = Writers
    BY <2>1 DEF Lock!vars
  <2>2. CASE Writers = {} /\ Writers' = {} /\ Readers' = Readers \cup {t}
    <3>1. Lock!Read(t)  BY <2>2 DEF Lock!Read
    <3>. QED  BY <3>1 DEF Lock!Next
  <2>3. CASE t \in Readers /\ Readers' = Readers \ {t} /\ Writers' = Writers
    <3>1. Lock!EndRead(t)  BY <2>3 DEF Lock!EndRead
    <3>. QED  BY <3>1 DEF Lock!Next
  <2>4. CASE Readers = {} /\ Readers' = {} /\ Writers = {} /\ Writers' = {t}
    <3>1. Lock!Write(t)  BY <2>4 DEF Lock!Write
    <3>. QED  BY <3>1 DEF Lock!Next
  <2>5. CASE Writers = {t} /\ Writers' = {} /\ Readers' = Readers
    <3>1. Lock!EndWrite(t)  BY <2>5 DEF Lock!EndWrite
    <3>. QED  BY <3>1 DEF Lock!Next
  <2>. QED  BY <1>2, <2>1, <2>2, <2>3, <2>4, <2>5, HoldersNext
<1>. QED  BY <1>1, <1>2 DEF Next

\* RWLock implements a readers-writer lock, for any finite number of threads.
THEOREM Refinement == Spec => ImplementsLock
<1>1. Init => Lock!Init  BY DEF Init, Lock!Init, Readers, Writers
<1>. QED
  BY <1>1, IInvInit, IInvNext, StepRefines, PTL DEF Spec, ImplementsLock, Lock!Spec

-----------------------------------------------------------------------------
(* The message queue.  No message is on the list twice, and those on it    *)
(* are the ones pumped and not fetched: that makes the count of EachOnce a *)
(* matter of sets.                                                         *)

OnList(m) == \E i \in DOMAIN m_MsgList : m_MsgList[i] = m

QueueInv ==
  /\ m_MsgList \in Seq(1..MaxPumped) /\ pumped \in 0..MaxPumped
  /\ waiting \subseteq Fetchers /\ woken \subseteq Fetchers \ waiting
  /\ fetched \in [1..MaxPumped -> 0..1]
  /\ \A i, j \in DOMAIN m_MsgList : m_MsgList[i] = m_MsgList[j] => i = j
  /\ \A m \in 1..MaxPumped : OnList(m) <=> m <= pumped /\ fetched[m] = 0
  /\ \A m \in 1..MaxPumped : m > pumped => fetched[m] = 0

\* A message at either end of the list.
LEMMA PumpedList ==
  ASSUME QueueInv, NEW front \in BOOLEAN, PumpMsg(front)
  PROVE  /\ m_MsgList' \in Seq(1..MaxPumped)
         /\ Len(m_MsgList') = Len(m_MsgList) + 1
         /\ \A i, j \in DOMAIN m_MsgList' : m_MsgList'[i] = m_MsgList'[j] => i = j
         /\ \A m : OnList(m)' <=> OnList(m) \/ m = pumped + 1
<1> DEFINE new == pumped + 1
<1>1. new \in 1..MaxPumped /\ ~OnList(new)
  <2>1. new \in 1..MaxPumped
    BY MsgQueueAssumption DEF QueueInv, PumpMsg
  <2>. QED  BY <2>1 DEF QueueInv
<1>2. m_MsgList \in Seq(1..MaxPumped)
  BY DEF QueueInv
<1>3. CASE front
  <2>1. m_MsgList' = <<new>> \o m_MsgList
    BY <1>3 DEF PumpMsg
  <2>2. /\ m_MsgList' \in Seq(1..MaxPumped)
        /\ Len(m_MsgList') = Len(m_MsgList) + 1
        /\ m_MsgList'[1] = new
        /\ \A i \in 1 .. Len(m_MsgList) : m_MsgList'[i + 1] = m_MsgList[i]
    BY <1>1, <1>2, <2>1
  <2>3. \A i \in DOMAIN m_MsgList' : i = 1 \/ (i - 1 \in DOMAIN m_MsgList /\ m_MsgList'[i] = m_MsgList[i - 1])
    BY <1>2, <2>2
  <2>4. ASSUME NEW m PROVE OnList(m)' <=> OnList(m) \/ m = new
    <3>1. ASSUME OnList(m)' PROVE OnList(m) \/ m = new
      BY <2>2, <2>3, <3>1 DEF OnList
    <3>2. ASSUME OnList(m) PROVE OnList(m)'
      <4>1. PICK i \in DOMAIN m_MsgList : m_MsgList[i] = m
        BY <3>2 DEF OnList
      <4>2. i + 1 \in DOMAIN m_MsgList' /\ m_MsgList'[i + 1] = m
        BY <1>2, <2>2, <4>1
      <4>. QED  BY <4>2 DEF OnList
    <3>3. ASSUME m = new PROVE OnList(m)'
      <4>1. 1 \in DOMAIN m_MsgList'
        BY <1>2, <2>2
      <4>. QED  BY <2>2, <3>3, <4>1 DEF OnList
    <3>. QED  BY <3>1, <3>2, <3>3
  <2>5. \A i, j \in DOMAIN m_MsgList' : m_MsgList'[i] = m_MsgList'[j] => i = j
    <3> SUFFICES ASSUME NEW i \in DOMAIN m_MsgList', NEW j \in DOMAIN m_MsgList',
                        m_MsgList'[i] = m_MsgList'[j]
                 PROVE  i = j
      OBVIOUS
    <3>1. i \in Int /\ j \in Int
      BY <2>2
    <3>2. ASSUME NEW k \in DOMAIN m_MsgList PROVE m_MsgList[k] # new
      BY <1>1 DEF OnList
    <3>3. CASE i = 1 \/ j = 1
      BY <2>2, <2>3, <3>2, <3>3
    <3>4. CASE i # 1 /\ j # 1
      <4>1. i - 1 = j - 1
        BY <2>3, <3>4 DEF QueueInv
      <4>. QED  BY <3>1, <4>1
    <3>. QED  BY <3>3, <3>4
  <2>. QED  BY <2>2, <2>4, <2>5
<1>4. CASE ~front
  <2>1. m_MsgList' = Append(m_MsgList, new)
    BY <1>4 DEF PumpMsg
  <2>2. /\ m_MsgList' \in Seq(1..MaxPumped)
        /\ Len(m_MsgList') = Len(m_MsgList) + 1
        /\ m_MsgList'[Len(m_MsgList) + 1] = new
        /\ \A i \in 1 .. Len(m_MsgList) : m_MsgList'[i] = m_MsgList[i]
    BY <1>1, <1>2, <2>1
  <2>3. \A i \in DOMAIN m_MsgList' : i = Len(m_MsgList) + 1 \/ (i \in DOMAIN m_MsgList /\ m_MsgList'[i] = m_MsgList[i])
    BY <1>2, <2>2
  <2>4. \A m : OnList(m)' <=> OnList(m) \/ m = new
    BY <1>2, <2>2, <2>3 DEF OnList
  <2>5. \A i, j \in DOMAIN m_MsgList' : m_MsgList'[i] = m_MsgList'[j] => i = j
    BY <1>1, <1>2, <2>2, <2>3 DEF OnList, QueueInv
  <2>. QED  BY <2>2, <2>4, <2>5
<1>. QED  BY <1>3, <1>4

LEMMA PumpKeeps ==
  ASSUME QueueInv, NEW front \in BOOLEAN, PumpMsg(front)
  PROVE  QueueInv'
<1>1. pumped' = pumped + 1 /\ pumped' \in 0..MaxPumped /\ fetched' = fetched
  BY MsgQueueAssumption DEF PumpMsg, QueueInv
<1>2. waiting' \subseteq Fetchers /\ woken' \subseteq Fetchers \ waiting'
  BY DEF PumpMsg, Signal, QueueInv
<1>3. \A m \in 1..MaxPumped : OnList(m)' <=> m <= pumped' /\ fetched'[m] = 0
  <2> SUFFICES ASSUME NEW m \in 1..MaxPumped
               PROVE  OnList(m)' <=> m <= pumped' /\ fetched'[m] = 0
    OBVIOUS
  <2>1. OnList(m)' <=> OnList(m) \/ m = pumped + 1
    BY PumpedList
  <2>2. OnList(m) <=> m <= pumped /\ fetched[m] = 0
    BY DEF QueueInv
  <2>3. m > pumped => fetched[m] = 0
    BY DEF QueueInv
  <2>4. pumped \in Nat /\ m \in Nat
    BY DEF QueueInv
  <2>. QED  BY <1>1, <2>1, <2>2, <2>3, <2>4
<1>4. \A m \in 1..MaxPumped : m > pumped' => fetched'[m] = 0
  BY <1>1 DEF QueueInv
<1>. QED  BY <1>1, <1>2, <1>3, <1>4, PumpedList DEF QueueInv

\* The first message of the list goes.
LEMMA TakenList ==
  ASSUME QueueInv, Take
  PROVE  /\ m_MsgList' \in Seq(1..MaxPumped)
         /\ Len(m_MsgList') = Len(m_MsgList) - 1
         /\ Len(m_MsgList) > 0
         /\ fetched' \in [1..MaxPumped -> 0..1]
         /\ \A i, j \in DOMAIN m_MsgList' : m_MsgList'[i] = m_MsgList'[j] => i = j
         /\ \A m \in 1..MaxPumped : OnList(m)' <=> m <= pumped /\ fetched'[m] = 0
         /\ \A m \in 1..MaxPumped : m > pumped => fetched'[m] = 0
<1> DEFINE h == Head(m_MsgList)
<1>1. m_MsgList \in Seq(1..MaxPumped) /\ m_MsgList # <<>> /\ m_MsgList' = Tail(m_MsgList)
  BY DEF QueueInv, Take, Popped
<1>2. /\ m_MsgList' \in Seq(1..MaxPumped)
      /\ Len(m_MsgList') = Len(m_MsgList) - 1 /\ Len(m_MsgList) > 0
      /\ h = m_MsgList[1] /\ h \in 1..MaxPumped
      /\ \A i \in 1 .. Len(m_MsgList) - 1 : m_MsgList'[i] = m_MsgList[i + 1]
  <2> DEFINE S == 1..MaxPumped
  <2>1. m_MsgList \in Seq(S) /\ m_MsgList # <<>> /\ m_MsgList' = Tail(m_MsgList)
    BY <1>1
  <2> HIDE DEF S
  <2>2. Len(m_MsgList) \in Nat /\ Len(m_MsgList) > 0
    BY <2>1
  <2>3. m_MsgList' \in Seq(S) /\ Len(m_MsgList') = Len(m_MsgList) - 1
    BY <2>1
  <2>4. h = m_MsgList[1] /\ h \in S
    BY <2>1, <2>2
  <2>5. \A i \in 1 .. Len(m_MsgList) - 1 : m_MsgList'[i] = m_MsgList[i + 1]
    BY <2>1, <2>2, <2>3
  <2>. QED  BY <2>2, <2>3, <2>4, <2>5 DEF S
<1>3. OnList(h)
  BY <1>1, <1>2 DEF OnList
<1>4. fetched[h] = 0 /\ h <= pumped
  BY <1>2, <1>3 DEF QueueInv
<1>5. fetched' = [fetched EXCEPT ![h] = 1]
  BY <1>4 DEF Take
<1>6. fetched' \in [1..MaxPumped -> 0..1]
  <2>1. 1 \in 0..1
    OBVIOUS
  <2>2. fetched \in [1..MaxPumped -> 0..1]
    BY DEF QueueInv
  <2>. QED  BY <1>5, <2>1, <2>2, Zenon
<1>7. \A i, j \in DOMAIN m_MsgList' : m_MsgList'[i] = m_MsgList'[j] => i = j
  <2> SUFFICES ASSUME NEW i \in DOMAIN m_MsgList', NEW j \in DOMAIN m_MsgList',
                      m_MsgList'[i] = m_MsgList'[j]
               PROVE  i = j
    OBVIOUS
  <2>1. /\ i \in Int /\ j \in Int
        /\ i + 1 \in DOMAIN m_MsgList /\ j + 1 \in DOMAIN m_MsgList
        /\ m_MsgList[i + 1] = m_MsgList[j + 1]
    BY <1>1, <1>2
  <2>2. i + 1 = j + 1
    BY <2>1 DEF QueueInv
  <2>. QED  BY <2>1, <2>2
<1>8. ASSUME NEW m PROVE OnList(m)' <=> OnList(m) /\ m # h
  <2>1. ASSUME OnList(m)' PROVE OnList(m) /\ m # h
    <3>1. PICK i \in DOMAIN m_MsgList' : m_MsgList'[i] = m
      BY <2>1 DEF OnList
    <3>2. /\ i \in Int /\ i >= 1 /\ 1 \in DOMAIN m_MsgList
          /\ i + 1 \in DOMAIN m_MsgList /\ m_MsgList[i + 1] = m
      BY <1>1, <1>2, <3>1
    <3>3. m # m_MsgList[1]
      BY <3>2 DEF QueueInv
    <3>. QED  BY <1>2, <3>2, <3>3 DEF OnList
  <2>2. ASSUME OnList(m), m # h PROVE OnList(m)'
    <3>1. PICK i \in DOMAIN m_MsgList : m_MsgList[i] = m
      BY <2>2 DEF OnList
    <3>2. /\ i \in Int /\ i # 1 /\ i - 1 \in DOMAIN m_MsgList'
          /\ m_MsgList'[i - 1] = m
      BY <1>1, <1>2, <2>2, <3>1
    <3>. QED  BY <3>2 DEF OnList
  <2>. QED  BY <2>1, <2>2
<1>9. \A m \in 1..MaxPumped : OnList(m)' <=> m <= pumped /\ fetched'[m] = 0
  <2> SUFFICES ASSUME NEW m \in 1..MaxPumped
               PROVE  OnList(m)' <=> m <= pumped /\ fetched'[m] = 0
    OBVIOUS
  <2>1. OnList(m)' <=> OnList(m) /\ m # h
    BY <1>8
  <2>2. OnList(m) <=> m <= pumped /\ fetched[m] = 0
    BY DEF QueueInv
  <2>3. m # h => fetched'[m] = fetched[m]
    BY <1>5 DEF QueueInv
  <2>4. m = h => fetched'[m] = 1
    BY <1>5 DEF QueueInv
  <2>. QED  BY <2>1, <2>2, <2>3, <2>4
<1>10. \A m \in 1..MaxPumped : m > pumped => fetched'[m] = 0
  <2> SUFFICES ASSUME NEW m \in 1..MaxPumped, m > pumped PROVE fetched'[m] = 0
    OBVIOUS
  <2>1. m # h
    BY <1>2, <1>4 DEF QueueInv
  <2>. QED  BY <1>5, <2>1 DEF QueueInv
<1>. QED  BY <1>2, <1>6, <1>7, <1>9, <1>10

LEMMA TakeKeeps ==
  ASSUME QueueInv, Take,
         waiting' \subseteq Fetchers, woken' \subseteq Fetchers \ waiting'
  PROVE  QueueInv'
<1>1. pumped' = pumped
  BY DEF Take
<1>. QED  BY <1>1, TakenList DEF QueueInv

\* A step that leaves the messages alone.
LEMMA WaitKeeps ==
  ASSUME QueueInv, UNCHANGED <<m_MsgList, pumped, fetched>>,
         waiting' \subseteq Fetchers, woken' \subseteq Fetchers \ waiting'
  PROVE  QueueInv'
BY DEF QueueInv, OnList

LEMMA QueueInvStep == QueueInv /\ [QueueNext]_queueVars => QueueInv'
<1> SUFFICES ASSUME QueueInv, [QueueNext]_queueVars PROVE QueueInv'
  OBVIOUS
<1>0. waiting \subseteq Fetchers /\ woken \subseteq Fetchers \ waiting
  BY DEF QueueInv
<1>1. ASSUME NEW t \in Fetchers, FetchMsg(t) PROVE QueueInv'
  <2>1. waiting' \subseteq Fetchers /\ woken' \subseteq Fetchers \ waiting'
    BY <1>0, <1>1 DEF FetchMsg
  <2>. QED  BY <1>1, <2>1, TakeKeeps, WaitKeeps DEF FetchMsg
<1>2. ASSUME NEW t \in Fetchers, Return(t) PROVE QueueInv'
  <2>1. waiting' \subseteq Fetchers /\ woken' \subseteq Fetchers \ waiting'
    BY <1>0, <1>2 DEF Return, WaitsAgain
  <2>. QED  BY <1>2, <2>1, TakeKeeps, WaitKeeps DEF Return, WaitsAgain
<1>3. ASSUME NEW t \in Fetchers, WaitTimesOut(t) PROVE QueueInv'
  <2>1. waiting' \subseteq Fetchers /\ woken' \subseteq Fetchers \ waiting'
    BY <1>0, <1>3 DEF WaitTimesOut
  <2>. QED  BY <1>3, <2>1, TakeKeeps, WaitKeeps DEF WaitTimesOut
<1>4. CASE UNCHANGED queueVars
  BY <1>0, <1>4, WaitKeeps DEF queueVars
<1>. QED  BY <1>1, <1>2, <1>3, <1>4, PumpKeeps DEF QueueNext

LEMMA QueueInvariance == QueueSpec => []QueueInv
<1>1. QueueInit => QueueInv
  BY MsgQueueAssumption DEF QueueInit, QueueInv, OnList
<1>. QED  BY <1>1, QueueInvStep, PTL DEF QueueSpec

\* The queue's variables keep their types: nothing is fetched twice.
THEOREM QueueTypeCorrect == QueueSpec => []QueueTypeOK
<1>1. QueueInv => QueueTypeOK
  BY DEF QueueInv, QueueTypeOK
<1>. QED  BY <1>1, QueueInvariance, PTL

\* Every message pumped is on the list once, or was fetched once, whichever end
\* it came in at and however the threads' waits end (MsgQueue.h:73-130).
THEOREM FetchedOnce == QueueSpec => []EachOnce
<1>1. QueueInv => EachOnce
  <2> SUFFICES ASSUME QueueInv, NEW m \in 1..pumped
               PROVE  fetched[m] + Cardinality({i \in DOMAIN m_MsgList : m_MsgList[i] = m}) = 1
    BY DEF EachOnce
  <2> DEFINE places == {i \in DOMAIN m_MsgList : m_MsgList[i] = m}
  <2>1. m \in 1..MaxPumped /\ m <= pumped
    BY MsgQueueAssumption DEF QueueInv
  <2>2. fetched[m] \in 0..1 /\ (OnList(m) <=> fetched[m] = 0)
    BY <2>1 DEF QueueInv
  <2>3. CASE OnList(m)
    <3>1. PICK k \in DOMAIN m_MsgList : m_MsgList[k] = m
      BY <2>3 DEF OnList
    <3>2. places = {k}
      BY <3>1 DEF QueueInv
    <3>3. Cardinality(places) = 1
      BY <3>2, FS_Singleton
    <3>. QED  BY <2>2, <2>3, <3>3
  <2>4. CASE ~OnList(m)
    <3>1. places = {}
      BY <2>4 DEF OnList
    <3>2. Cardinality(places) = 0
      BY <3>1, FS_EmptySet
    <3>. QED  BY <2>2, <2>4, <3>2
  <2>. QED  BY <2>3, <2>4
<1>. QED  BY <1>1, QueueInvariance, PTL

\* No message waits for want of a signal: while threads wait, at least as many
\* are on their way to the mutex as there are messages, although a thread that
\* was never asleep may take a message a signal was meant for, and a wait may
\* time out beside it (MsgQueue.h:73-130).
THEOREM SignalsSuffice == QueueSpec => []EnoughWoken
<1>1. QueueInit => EnoughWoken
  BY DEF QueueInit, EnoughWoken
<1>2. QueueInv /\ EnoughWoken /\ [QueueNext]_queueVars => EnoughWoken'
  <2> SUFFICES ASSUME QueueInv, EnoughWoken, [QueueNext]_queueVars, waiting' # {}
               PROVE  Len(m_MsgList') <= Cardinality(woken')
    BY DEF EnoughWoken
  <2>1. IsFiniteSet(woken) /\ Cardinality(woken) \in Nat /\ Len(m_MsgList) \in Nat
    <3>1. IsFiniteSet(woken)
      BY FS_Subset, MsgQueueAssumption DEF QueueInv
    <3>. QED  BY <3>1, FS_CardinalityType DEF QueueInv
  <2>2. ASSUME NEW front \in BOOLEAN, PumpMsg(front)
        PROVE  Len(m_MsgList') <= Cardinality(woken')
    <3>1. waiting # {}
      BY <2>2 DEF PumpMsg, Signal
    <3>2. PICK t \in waiting : woken' = woken \cup {t}
      BY <2>2, <3>1 DEF PumpMsg, Signal, Signals
    <3>3. t \notin woken
      BY DEF QueueInv
    <3>4. Cardinality(woken') = Cardinality(woken) + 1
      BY <2>1, <3>2, <3>3, FS_AddElement
    <3>5. Len(m_MsgList') = Len(m_MsgList) + 1
      BY <2>2, PumpedList
    <3>. QED  BY <2>1, <3>1, <3>4, <3>5 DEF EnoughWoken
  <2>3. ASSUME NEW t \in Fetchers, FetchMsg(t)
        PROVE  Len(m_MsgList') <= Cardinality(woken')
    <3>1. CASE Take /\ UNCHANGED <<waiting, woken>>
      BY <2>1, <3>1, TakenList DEF EnoughWoken
    <3>2. CASE m_MsgList = <<>> /\ UNCHANGED <<m_MsgList, woken>>
      BY <2>1, <3>2
    <3>. QED  BY <2>3, <3>1, <3>2 DEF FetchMsg
  <2>4. ASSUME NEW t \in Fetchers, Return(t)
        PROVE  Len(m_MsgList') <= Cardinality(woken')
    <3>1. woken' = woken \ {t} /\ t \in woken
      BY <2>4 DEF Return
    <3>2. Cardinality(woken') = Cardinality(woken) - 1 /\ Cardinality(woken') \in Nat
      BY <2>1, <3>1, FS_RemoveElement, FS_CardinalityType
    <3>3. CASE Take /\ UNCHANGED waiting
      BY <2>1, <3>2, <3>3, TakenList DEF EnoughWoken
    <3>4. CASE WaitsAgain(t)
      BY <3>2, <3>4 DEF WaitsAgain
    <3>. QED  BY <2>4, <3>3, <3>4 DEF Return
  <2>5. ASSUME NEW t \in Fetchers, WaitTimesOut(t)
        PROVE  Len(m_MsgList') <= Cardinality(woken')
    <3>1. waiting # {} /\ woken' = woken
      BY <2>5 DEF WaitTimesOut
    <3>2. CASE Take
      BY <2>1, <3>1, <3>2, TakenList DEF EnoughWoken
    <3>3. CASE m_MsgList = <<>> /\ UNCHANGED m_MsgList
      BY <2>1, <3>1, <3>3
    <3>. QED  BY <2>5, <3>2, <3>3 DEF WaitTimesOut
  <2>6. CASE UNCHANGED queueVars
    BY <2>6 DEF queueVars, EnoughWoken
  <2>. QED  BY <2>2, <2>3, <2>4, <2>5, <2>6 DEF QueueNext
<1>. QED  BY <1>1, <1>2, QueueInvariance, PTL DEF QueueSpec

\* All that the common run asks of the message queue's safety (MsgQueue.h).
THEOREM QueueIsSafe == QueueSpec => []QueueSafe
<1>1. QueueTypeOK /\ EachOnce /\ EnoughWoken => QueueSafe  BY DEF QueueSafe
<1>. QED  BY <1>1, QueueTypeCorrect, FetchedOnce, SignalsSuffice, PTL

-----------------------------------------------------------------------------
(* Numbers and sequences.                                                  *)

LEMMA LeastNumber ==
  ASSUME NEW S, S \subseteq Nat, S # {}
  PROVE  \E m \in S : \A t \in S : m <= t
<1>1. PICK m \in S : \A t \in S : ~(<<t, m>> \in OpToRel(<, Nat))
  BY NatLessThanWellFounded, WFMin
<1>2. ASSUME NEW t \in S, t < m PROVE FALSE
  <2>1. <<t, m>> \in Nat \X Nat  OBVIOUS
  <2>2. <<t, m>>[1] < <<t, m>>[2]  BY <1>2
  <2>. QED  BY <1>1, <2>1, <2>2 DEF OpToRel
<1>. QED  BY <1>2

Distinct(l) == \A i, j \in DOMAIN l : i # j => l[i] # l[j]

-----------------------------------------------------------------------------
(* The array of the heap.                                                  *)

\* Induction, with the property given as the set of numbers that have it.
LEMMA AllNumbers ==
  ASSUME NEW S, 0 \in S, \A n \in Nat : n \in S => n + 1 \in S
  PROVE  Nat \subseteq S
<1>. SUFFICES ASSUME Nat \ S # {} PROVE FALSE  OBVIOUS
<1>1. PICK m \in Nat \ S : \A t \in Nat \ S : m <= t
  <2>1. Nat \ S \subseteq Nat  OBVIOUS
  <2>. QED  BY <2>1, LeastNumber
<1>2. m # 0 /\ m - 1 \in Nat /\ ~(m <= m - 1) /\ (m - 1) + 1 = m  BY <1>1
<1>3. m - 1 \in S  BY <1>1, <1>2
<1>. QED  BY <1>1, <1>2, <1>3

\* A parent's place.
LEMMA Parent ==
  ASSUME NEW j \in Nat, j > 1
  PROVE  j \div 2 \in Nat /\ 1 <= j \div 2 /\ j \div 2 < j /\ (j = 2 * (j \div 2) \/ j = 2 * (j \div 2) + 1)
OBVIOUS

LEMMA Through == \A a, b, c \in Int : a <= b /\ b <= c => a <= c
OBVIOUS

-----------------------------------------------------------------------------
(* The element goes up.                                                    *)

UpAt(h, i, rank, up, j) ==
  IF j > 1 /\ rank[h[j \div 2]] > rank[h[i]]
  THEN [up[j \div 2] EXCEPT ![j] = h[j \div 2]]
  ELSE [h EXCEPT ![j] = h[i]]

UpTo(h, i, rank, up, L) == up = [j \in 1 .. L |-> UpAt(h, i, rank, up, j)]

LEMMA UpIsThere ==
  ASSUME NEW h, NEW i, NEW rank, NEW L \in Nat
  PROVE  \E up : UpTo(h, i, rank, up, L)
<1>. DEFINE S == {n \in Nat : \E up : up = [j \in 1 .. n |-> UpAt(h, i, rank, up, j)]}
<1>1. 0 \in S
  <2>. DEFINE f == [j \in 1 .. 0 |-> h]
  <2>1. f = [j \in 1 .. 0 |-> UpAt(h, i, rank, f, j)]  OBVIOUS
  <2>. QED  BY <2>1
<1>2. ASSUME NEW n \in Nat, n \in S PROVE n + 1 \in S
  <2>1. PICK f : f = [j \in 1 .. n |-> UpAt(h, i, rank, f, j)]  BY <1>2
  <2>. DEFINE g == [j \in 1 .. n + 1 |-> UpAt(h, i, rank, f, j)]
  <2>2. \A j \in 1 .. n : g[j] = f[j]
    <3>1. \A j \in 1 .. n : j \in 1 .. n + 1  OBVIOUS
    <3>2. \A j \in 1 .. n : f[j] = UpAt(h, i, rank, f, j)  BY <2>1
    <3>. QED  BY <3>1, <3>2
  <2>3. ASSUME NEW j \in 1 .. n + 1 PROVE UpAt(h, i, rank, f, j) = UpAt(h, i, rank, g, j)
    <3>1. j > 1 => j \div 2 \in 1 .. n  BY Parent
    <3>2. j > 1 => f[j \div 2] = g[j \div 2]  BY <2>2, <3>1
    <3>. HIDE DEF g
    <3>. QED  BY <3>2 DEF UpAt
  <2>4. g = [j \in 1 .. n + 1 |-> UpAt(h, i, rank, g, j)]
    <3>1. g = [j \in 1 .. n + 1 |-> UpAt(h, i, rank, f, j)]  OBVIOUS
    <3>. HIDE DEF g
    <3>. QED  BY <2>3, <3>1
  <2>5. n + 1 \in Nat  OBVIOUS
  <2>. QED  BY <2>4, <2>5
<1>. HIDE DEF S
<1>3. Nat \subseteq S  BY <1>1, <1>2, AllNumbers
<1>. QED  BY <1>3 DEF S, UpTo

LEMMA FilterUpIs ==
  ASSUME NEW h, NEW i, NEW rank, Len(h) \in Nat
  PROVE  /\ i \notin 1 .. Len(h) => FilterUp(h, i, rank) = h
         /\ i \in 1 .. Len(h) =>
              \E up : UpTo(h, i, rank, up, Len(h)) /\ FilterUp(h, i, rank) = up[i]
<1>. DEFINE up == CHOOSE up : UpTo(h, i, rank, up, Len(h))
<1>1. \E f : UpTo(h, i, rank, f, Len(h))  BY UpIsThere
<1>2. UpTo(h, i, rank, up, Len(h))  BY <1>1
<1>3. FilterUp(h, i, rank) = IF i \in 1 .. Len(h) THEN up[i] ELSE h
  BY DEF FilterUp, UpAt, UpTo
<1>. HIDE DEF up
<1>. QED  BY <1>2, <1>3

\* Array g is array h with element x taken through the places 1 .. j: what was
\* at j is overwritten, the others are there.
Rose(h, j, x, g, X) ==
  /\ g \in Seq(X) /\ Len(g) = Len(h)
  /\ \A p \in j + 1 .. Len(h) : g[p] = h[p]
  /\ \A p \in 1 .. j : g[p] = x \/ \E q \in 1 .. j - 1 : g[p] = h[q]
  /\ \E p \in 1 .. j : g[p] = x
  /\ \A q \in 1 .. j - 1 : \E p \in 1 .. j : g[p] = h[q]
  /\ \A p, q \in 1 .. j : p # q => g[p] # g[q]

\* The order above place j, and no rank above has grown.
RoseInOrder(h, i, j, g, rank) ==
  /\ \A k \in 2 .. j : rank[g[k \div 2]] <= rank[g[k]]
  /\ \A p \in 1 .. j : p # i => rank[g[p]] <= rank[h[p]]

LEMMA RiseStops ==
  ASSUME NEW X, NEW h \in Seq(X), NEW i \in 1 .. Len(h), NEW j \in 1 .. i, Distinct(h)
  PROVE  Rose(h, j, h[i], [h EXCEPT ![j] = h[i]], X)
<1>. DEFINE g == [h EXCEPT ![j] = h[i]]
<1>1. g \in Seq(X) /\ Len(g) = Len(h) /\ g[j] = h[i] /\ \A p \in 1 .. Len(h) : p # j => g[p] = h[p]
  OBVIOUS
<1>. HIDE DEF g
<1>2. \A p, q \in 1 .. Len(h) : p # q => h[p] # h[q]  BY DEF Distinct
<1>3. \A p \in 1 .. j - 1 : p \in 1 .. j /\ p \in 1 .. Len(h) /\ p # j /\ p # i  OBVIOUS
<1>. QED  BY <1>1, <1>2, <1>3 DEF Rose

LEMMA RiseGoesOn ==
  ASSUME NEW X, NEW h \in Seq(X), NEW i \in 1 .. Len(h), NEW j \in 2 .. i, Distinct(h),
         NEW f, Rose(h, j \div 2, h[i], f, X)
  PROVE  Rose(h, j, h[i], [f EXCEPT ![j] = h[j \div 2]], X)
<1>. DEFINE g == [f EXCEPT ![j] = h[j \div 2]]
<1>. Len(h) \in Nat /\ i \in Nat /\ j \in Nat /\ i <= Len(h) /\ j <= i  OBVIOUS
<1>1. PICK q \in 1 .. j - 1 : q = j \div 2  BY Parent
<1>. q \in Nat /\ 1 <= q /\ q < j  OBVIOUS
<1>2. /\ f \in Seq(X) /\ Len(f) = Len(h)
      /\ \A p \in q + 1 .. Len(h) : f[p] = h[p]
      /\ \A p \in 1 .. q : f[p] = h[i] \/ \E r \in 1 .. q - 1 : f[p] = h[r]
      /\ \E p \in 1 .. q : f[p] = h[i]
      /\ \A r \in 1 .. q - 1 : \E p \in 1 .. q : f[p] = h[r]
      /\ \A p, r \in 1 .. q : p # r => f[p] # f[r]
  BY <1>1 DEF Rose
<1>3. g \in Seq(X) /\ Len(g) = Len(h) /\ g[j] = h[q] /\ \A p \in 1 .. Len(h) : p # j => g[p] = f[p]
  BY <1>1, <1>2
<1>. HIDE DEF g
<1>4. \A p, r \in 1 .. Len(h) : p # r => h[p] # h[r]  BY DEF Distinct
<1>5. \A p \in 1 .. q : p \in 1 .. j /\ p \in 1 .. Len(h) /\ p # j /\ g[p] = f[p]  BY <1>3
<1>6. \A p \in q + 1 .. j - 1 : p \in 1 .. j /\ p \in 1 .. Len(h) /\ p # j /\ g[p] = h[p] /\ p # i /\ p # q
  BY <1>2, <1>3
<1>7. \A p \in j + 1 .. Len(h) : g[p] = h[p]
  <2>1. \A p \in j + 1 .. Len(h) : p \in q + 1 .. Len(h) /\ p \in 1 .. Len(h) /\ p # j  OBVIOUS
  <2>. QED  BY <1>2, <1>3, <2>1
<1>8. \A p \in 1 .. j : p = j \/ p \in 1 .. q \/ p \in q + 1 .. j - 1  OBVIOUS
<1>9. \A p \in 1 .. j : g[p] = h[i] \/ \E r \in 1 .. j - 1 : g[p] = h[r]
  <2>. TAKE p \in 1 .. j
  <2>1. CASE p = j  BY <1>3, <2>1
  <2>2. CASE p \in 1 .. q
    <3>1. \A r \in 1 .. q - 1 : r \in 1 .. j - 1  OBVIOUS
    <3>2. f[p] = h[i] \/ \E r \in 1 .. q - 1 : f[p] = h[r]  BY <1>2, <2>2
    <3>. QED  BY <1>5, <2>2, <3>1, <3>2
  <2>3. CASE p \in q + 1 .. j - 1
    <3>1. p \in 1 .. j - 1  BY <2>3
    <3>. QED  BY <1>6, <2>3, <3>1
  <2>. QED  BY <1>8, <2>1, <2>2, <2>3
<1>10. \E p \in 1 .. j : g[p] = h[i]  BY <1>2, <1>5
<1>11. \A r \in 1 .. j - 1 : \E p \in 1 .. j : g[p] = h[r]
  <2>. TAKE r \in 1 .. j - 1
  <2>1. CASE r = q  BY <1>3, <2>1
  <2>2. CASE r \in 1 .. q - 1  BY <1>2, <1>5, <2>2
  <2>3. CASE r \in q + 1 .. j - 1  BY <1>6, <2>3
  <2>4. r = q \/ r \in 1 .. q - 1 \/ r \in q + 1 .. j - 1  OBVIOUS
  <2>. QED  BY <2>1, <2>2, <2>3, <2>4
<1>12. \A p \in 1 .. q : \A r \in q .. j - 1 : g[p] # h[r]
  <2>. SUFFICES ASSUME NEW p \in 1 .. q, NEW r \in q .. j - 1 PROVE g[p] # h[r]  OBVIOUS
  <2>0. g[p] = f[p]  BY <1>5
  <2>3. f[p] = h[i] \/ \E s \in 1 .. q - 1 : f[p] = h[s]  BY Zenon, <1>2
  <2>1. g[p] = h[i] \/ \E s \in 1 .. q - 1 : g[p] = h[s]  BY Zenon, <2>0, <2>3
  <2>2. r \in 1 .. Len(h) /\ r # i /\ \A s \in 1 .. q - 1 : s \in 1 .. Len(h) /\ s # r  OBVIOUS
  <2>. QED  BY <1>4, <2>1, <2>2
<1>13. \A p, r \in 1 .. j : p < r => g[p] # g[r]
  <2>. SUFFICES ASSUME NEW p \in 1 .. j, NEW r \in 1 .. j, p < r PROVE g[p] # g[r]  OBVIOUS
  <2>1. CASE p \in 1 .. q /\ r \in 1 .. q  BY <1>2, <1>5, <2>1
  <2>2. CASE p \in 1 .. q /\ r \in q + 1 .. j - 1
    <3>1. r \in q .. j - 1  BY <2>2
    <3>. QED  BY <1>6, <1>12, <2>2, <3>1
  <2>3. CASE p \in 1 .. q /\ r = j
    <3>1. q \in q .. j - 1  OBVIOUS
    <3>. QED  BY <1>3, <1>12, <2>3, <3>1
  <2>4. CASE p \in q + 1 .. j - 1 /\ r \in q + 1 .. j - 1
    <3>1. p \in 1 .. Len(h) /\ r \in 1 .. Len(h) /\ p # r  OBVIOUS
    <3>. QED  BY <1>4, <1>6, <2>4, <3>1
  <2>5. CASE p \in q + 1 .. j - 1 /\ r = j
    <3>1. p \in 1 .. Len(h) /\ q \in 1 .. Len(h) /\ p # q  BY <2>5
    <3>. QED  BY <1>3, <1>4, <1>6, <2>5, <3>1
  <2>6. p \in 1 .. q \/ p \in q + 1 .. j - 1  OBVIOUS
  <2>7. r = j \/ r \in q + 1 .. j - 1 \/ (p \in 1 .. q /\ r \in 1 .. q)  BY <2>6
  <2>. QED  BY <2>1, <2>2, <2>3, <2>4, <2>5, <2>6, <2>7
<1>14. \A p, r \in 1 .. j : p # r => g[p] # g[r]
  <2>. SUFFICES ASSUME NEW p \in 1 .. j, NEW r \in 1 .. j, p # r PROVE g[p] # g[r]  OBVIOUS
  <2>1. p < r \/ r < p  OBVIOUS
  <2>. QED  BY <1>13, <2>1
<1>. QED  BY <1>3, <1>7, <1>9, <1>10, <1>11, <1>14 DEF Rose, g

\* The whole way up, for an element whose place alone may be out of order.
LEMMA RiseOrderStops ==
  ASSUME NEW X, NEW rank \in [X -> Int], NEW h \in Seq(X), NEW i \in 1 .. Len(h), NEW j \in 1 .. i,
         \A k \in 2 .. j - 1 : rank[h[k \div 2]] <= rank[h[k]],
         j = i \/ rank[h[i]] < rank[h[j]],
         j = 1 \/ rank[h[j \div 2]] <= rank[h[i]]
  PROVE  RoseInOrder(h, i, j, [h EXCEPT ![j] = h[i]], rank)
<1>. DEFINE g == [h EXCEPT ![j] = h[i]]
<1>1. Len(h) \in Nat /\ g[j] = h[i] /\ \A p \in 1 .. Len(h) : p # j => g[p] = h[p]
  OBVIOUS
<1>. HIDE DEF g
<1>2. \A p \in 1 .. Len(h) : rank[h[p]] \in Int  OBVIOUS
<1>3. \A k \in 2 .. j : rank[g[k \div 2]] <= rank[g[k]]
  <2>. TAKE k \in 2 .. j
  <2>1. PICK q \in 1 .. k - 1 : q = k \div 2  BY Parent
  <2>0. q \in 1 .. Len(h) /\ q # j  OBVIOUS
  <2>2. q \in 1 .. Len(h) /\ q # j /\ g[q] = h[q]  BY <1>1, <2>0
  <2>3. CASE k = j  BY <1>1, <2>1, <2>2, <2>3
  <2>4. CASE k # j
    <3>1. k \in 2 .. j - 1 /\ k \in 1 .. Len(h)  BY <2>4
    <3>2. rank[h[k \div 2]] <= rank[h[k]] /\ g[k] = h[k]  BY <1>1, <2>4, <3>1
    <3>. QED  BY <2>1, <2>2, <3>2
  <2>. QED  BY <2>3, <2>4
<1>4. \A p \in 1 .. j : p # i => rank[g[p]] <= rank[h[p]]
  <2>. SUFFICES ASSUME NEW p \in 1 .. j, p # i PROVE rank[g[p]] <= rank[h[p]]  OBVIOUS
  <2>1. p \in 1 .. Len(h)  OBVIOUS
  <2>2. CASE p = j  BY <1>1, <1>2, <2>2
  <2>3. CASE p # j
    <3>1. g[p] = h[p]  BY <1>1, <2>1, <2>3
    <3>. QED  BY <1>2, <2>1, <3>1
  <2>. QED  BY <2>2, <2>3
<1>. QED  BY <1>3, <1>4 DEF RoseInOrder, g

LEMMA RiseOrderGoesOn ==
  ASSUME NEW X, NEW rank \in [X -> Int], NEW h \in Seq(X), NEW i \in 1 .. Len(h), NEW j \in 2 .. i,
         \A k \in 2 .. j - 1 : rank[h[k \div 2]] <= rank[h[k]],
         j # i => rank[h[j \div 2]] <= rank[h[j]],
         NEW f, Rose(h, j \div 2, h[i], f, X), RoseInOrder(h, i, j \div 2, f, rank)
  PROVE  RoseInOrder(h, i, j, [f EXCEPT ![j] = h[j \div 2]], rank)
<1>. DEFINE g == [f EXCEPT ![j] = h[j \div 2]]
<1>. Len(h) \in Nat /\ i \in Nat /\ j \in Nat /\ i <= Len(h) /\ j <= i  OBVIOUS
<1>1. PICK q \in 1 .. j - 1 : q = j \div 2  BY Parent
<1>. q \in Nat /\ 1 <= q /\ q < j  OBVIOUS
<1>2. /\ f \in Seq(X) /\ Len(f) = Len(h)
      /\ \A p \in q + 1 .. Len(h) : f[p] = h[p]
      /\ \A k \in 2 .. q : rank[f[k \div 2]] <= rank[f[k]]
      /\ \A p \in 1 .. q : p # i => rank[f[p]] <= rank[h[p]]
  BY <1>1 DEF Rose, RoseInOrder
<1>3. Len(h) \in Nat /\ g[j] = h[q] /\ \A p \in 1 .. Len(h) : p # j => g[p] = f[p]
  BY <1>1, <1>2
<1>. HIDE DEF g
<1>4. \A p \in 1 .. Len(h) : rank[h[p]] \in Int /\ rank[f[p]] \in Int
  <2>1. \A p \in 1 .. Len(h) : h[p] \in X /\ f[p] \in X  BY <1>2
  <2>. QED  BY <2>1
<1>5. \A p \in 1 .. j - 1 : p \in 1 .. Len(h) /\ rank[f[p]] <= rank[h[p]]
  <2>. TAKE p \in 1 .. j - 1
  <2>1. p \in 1 .. Len(h) /\ p # i  OBVIOUS
  <2>2. CASE p \in 1 .. q  BY <1>2, <2>1, <2>2
  <2>3. CASE p \in q + 1 .. Len(h)
    <3>1. f[p] = h[p]  BY <1>2, <2>3
    <3>. QED  BY <1>4, <2>1, <3>1
  <2>4. p \in 1 .. q \/ p \in q + 1 .. Len(h)  OBVIOUS
  <2>. QED  BY <2>1, <2>2, <2>3, <2>4
<1>6. \A k \in 2 .. j : rank[g[k \div 2]] <= rank[g[k]]
  <2>. TAKE k \in 2 .. j
  <2>1. PICK r \in 1 .. k - 1 : r = k \div 2  BY Parent
  <2>2. r \in 1 .. j - 1 /\ r \in 1 .. Len(h) /\ r # j  OBVIOUS
  <2>8. g[r] = f[r]  BY <1>3, <2>2
  <2>3. CASE k = j
    <3>1. r = q /\ g[k] = h[q]  BY <1>1, <1>3, <2>1, <2>3
    <3>. QED  BY <1>5, <2>1, <2>2, <2>8, <3>1
  <2>4. CASE k # j /\ k <= q
    <3>1. k \in 2 .. q /\ k \in 1 .. Len(h)  BY <2>4
    <3>2. g[k] = f[k]  BY <1>3, <2>4, <3>1
    <3>. QED  BY <1>2, <2>1, <2>2, <2>8, <3>1, <3>2
  <2>5. CASE k # j /\ q < k
    <3>1. k \in 2 .. j - 1 /\ k \in 1 .. Len(h) /\ k \in q + 1 .. Len(h)  BY <2>5
    <3>2. g[k] = h[k]  BY <1>2, <1>3, <2>5, <3>1
    <3>3. rank[h[r]] <= rank[h[k]]  BY <2>1, <3>1
    <3>4. rank[f[r]] <= rank[h[r]]  BY <1>5, <2>2
    <3>. QED  BY <1>4, <2>1, <2>2, <2>8, <3>1, <3>2, <3>3, <3>4
  <2>. QED  BY <2>3, <2>4, <2>5
<1>7. \A p \in 1 .. j : p # i => rank[g[p]] <= rank[h[p]]
  <2>. SUFFICES ASSUME NEW p \in 1 .. j, p # i PROVE rank[g[p]] <= rank[h[p]]  OBVIOUS
  <2>1. CASE p = j  BY <1>1, <1>3, <2>1
  <2>2. CASE p # j
    <3>1. p \in 1 .. j - 1  BY <2>2
    <3>. QED  BY <1>3, <1>5, <2>2, <3>1
  <2>. QED  BY <2>1, <2>2
<1>. QED  BY <1>6, <1>7 DEF RoseInOrder, g

LEMMA RiseIs ==
  ASSUME NEW X, NEW rank \in [X -> Int], NEW h \in Seq(X), NEW i \in 1 .. Len(h), Distinct(h),
         \A k \in 2 .. i - 1 : rank[h[k \div 2]] <= rank[h[k]],
         NEW up, up = [j \in 1 .. Len(h) |-> UpAt(h, i, rank, up, j)]
  PROVE  Rose(h, i, h[i], up[i], X) /\ RoseInOrder(h, i, i, up[i], rank)
<1>. DEFINE Good(j) == (j = i \/ rank[h[i]] < rank[h[j]]) =>
                         Rose(h, j, h[i], up[j], X) /\ RoseInOrder(h, i, j, up[j], rank)
            S == {n \in Nat : \A j \in 1 .. i : j <= n => Good(j)}
<1>1. 0 \in S  OBVIOUS
<1>2. \A p \in 1 .. Len(h) : rank[h[p]] \in Int  OBVIOUS
<1>3. ASSUME NEW n \in Nat, n \in S PROVE n + 1 \in S
  <2>. SUFFICES ASSUME NEW j \in 1 .. i, j <= n + 1, j = i \/ rank[h[i]] < rank[h[j]]
                PROVE  Rose(h, j, h[i], up[j], X) /\ RoseInOrder(h, i, j, up[j], rank)
    <3>1. \A j \in 1 .. i : j <= n + 1 => Good(j)  OBVIOUS
    <3>2. n + 1 \in Nat  OBVIOUS
    <3>. HIDE DEF Good
    <3>. QED  BY <3>1, <3>2
  <2>1. up[j] = UpAt(h, i, rank, up, j) /\ j \in 1 .. Len(h)
    <3>1. j \in 1 .. Len(h)  OBVIOUS
    <3>. HIDE DEF S
    <3>. QED  BY <3>1
  <2>2. \A k \in 2 .. j - 1 : rank[h[k \div 2]] <= rank[h[k]]
    <3>1. \A k \in 2 .. j - 1 : k \in 2 .. i - 1  OBVIOUS
    <3>. QED  BY <3>1
  <2>3. CASE j > 1 /\ rank[h[j \div 2]] > rank[h[i]]
    <3>1. PICK q \in 1 .. j - 1 : q = j \div 2  BY <2>3, Parent
    <3>2. q \in 1 .. i /\ q <= n /\ q \in 1 .. Len(h) /\ j \in 2 .. i  BY <2>3
    <3>3. Good(q)  BY <1>3, <3>2
    <3>4. rank[h[i]] < rank[h[q]]  BY <1>2, <2>3, <3>1, <3>2
    <3>5. Rose(h, q, h[i], up[q], X) /\ RoseInOrder(h, i, q, up[q], rank)  BY <3>3, <3>4
    <3>6. up[j] = [up[q] EXCEPT ![j] = h[q]]  BY <2>1, <2>3, <3>1 DEF UpAt
    <3>7. j # i => rank[h[j \div 2]] <= rank[h[j]]
      <4>1. j # i => j \in 2 .. i - 1  BY <3>2
      <4>. QED  BY <4>1
    <3>. HIDE DEF S
    <3>8. Rose(h, j, h[i], up[j], X)  BY <3>1, <3>2, <3>5, <3>6, RiseGoesOn
    <3>9. RoseInOrder(h, i, j, up[j], rank)
      <4>1. Rose(h, j \div 2, h[i], up[q], X) /\ RoseInOrder(h, i, j \div 2, up[q], rank)  BY <3>1, <3>5
      <4>2. RoseInOrder(h, i, j, [up[q] EXCEPT ![j] = h[j \div 2]], rank)
        BY <2>2, <3>2, <3>7, <4>1, RiseOrderGoesOn
      <4>. QED  BY <3>1, <3>6, <4>2
    <3>. QED  BY <3>8, <3>9
  <2>4. CASE ~(j > 1 /\ rank[h[j \div 2]] > rank[h[i]])
    <3>1. up[j] = [h EXCEPT ![j] = h[i]]  BY <2>1, <2>4 DEF UpAt
    <3>2. j = 1 \/ rank[h[j \div 2]] <= rank[h[i]]
      <4>1. CASE j > 1
        <5>1. PICK q \in 1 .. j - 1 : q = j \div 2  BY <4>1, Parent
        <5>2. q \in 1 .. Len(h)  BY <2>1
        <5>. QED  BY <1>2, <2>4, <4>1, <5>1, <5>2
      <4>. QED  BY <4>1
    <3>. HIDE DEF S
    <3>3. Rose(h, j, h[i], up[j], X)  BY <3>1, RiseStops
    <3>4. RoseInOrder(h, i, j, up[j], rank)
      <4>1. RoseInOrder(h, i, j, [h EXCEPT ![j] = h[i]], rank)  BY <2>2, <3>2, RiseOrderStops
      <4>. QED  BY <3>1, <4>1
    <3>. QED  BY <3>3, <3>4
  <2>. QED  BY <2>3, <2>4
<1>. HIDE DEF S
<1>4. Nat \subseteq S  BY <1>1, <1>3, AllNumbers
<1>5. i \in S  BY <1>4
<1>6. Good(i)
  <2>. HIDE DEF Good
  <2>1. i \in 1 .. i  OBVIOUS
  <2>. QED  BY <1>5, <2>1 DEF S
<1>. QED  BY <1>6

-----------------------------------------------------------------------------
(* The element goes down.                                                  *)

DownAt(h, i, rank, down, j) ==
  IF 2 * j <= Len(h) /\ rank[h[LesserChild(h, j, rank)]] < rank[h[i]]
  THEN [down[LesserChild(h, j, rank)] EXCEPT ![j] = h[LesserChild(h, j, rank)]]
  ELSE [h EXCEPT ![j] = h[i]]

LEMMA LesserChildIs ==
  ASSUME NEW h, NEW rank, Len(h) \in Nat, NEW j \in Nat \ {0}, 2 * j <= Len(h)
  PROVE  /\ LesserChild(h, j, rank) \in j + 1 .. Len(h)
         /\ LesserChild(h, j, rank) \in {2 * j, 2 * j + 1}
BY DEF LesserChild

\* The function is there: it is found from the last place to the first.
DownTo(h, i, rank, down) == down = [j \in 1 .. Len(h) |-> DownAt(h, i, rank, down, j)]

LEMMA DownIsThere ==
  ASSUME NEW h, NEW i, NEW rank, Len(h) \in Nat
  PROVE  \E down : DownTo(h, i, rank, down)
<1>. DEFINE L == Len(h)
            S == {n \in Nat : \E f : /\ DOMAIN f = L + 1 - n .. L
                                     /\ \A j \in L + 1 - n .. L : j > 0 => f[j] = DownAt(h, i, rank, f, j)}
<1>1. 0 \in S
  <2>. DEFINE f == [j \in L + 1 - 0 .. L |-> h]
  <2>1. DOMAIN f = L + 1 - 0 .. L /\ \A j \in L + 1 - 0 .. L : j > 0 => f[j] = DownAt(h, i, rank, f, j)
    OBVIOUS
  <2>. QED  BY <2>1
<1>2. ASSUME NEW n \in Nat, n \in S PROVE n + 1 \in S
  <2>1. PICK f : /\ DOMAIN f = L + 1 - n .. L
                 /\ \A j \in L + 1 - n .. L : j > 0 => f[j] = DownAt(h, i, rank, f, j)
    BY <1>2
  <2>. DEFINE g == [j \in L + 1 - (n + 1) .. L |-> IF j = L - n THEN DownAt(h, i, rank, f, j) ELSE f[j]]
  <2>2. \A j \in L + 1 - (n + 1) .. L : j = L - n \/ j \in L + 1 - n .. L  OBVIOUS
  <2>3. \A j \in L + 1 - n .. L : j # L - n /\ j \in L + 1 - (n + 1) .. L /\ g[j] = f[j]  OBVIOUS
  <2>4. g[L - n] = DownAt(h, i, rank, f, L - n)
    <3>1. L - n \in L + 1 - (n + 1) .. L  OBVIOUS
    <3>. QED  BY <3>1
  <2>5. DOMAIN g = L + 1 - (n + 1) .. L  OBVIOUS
  <2>. HIDE DEF g
  <2>6. ASSUME NEW j \in L + 1 - (n + 1) .. L, j > 0
        PROVE  DownAt(h, i, rank, f, j) = DownAt(h, i, rank, g, j)
    <3>. DEFINE c == LesserChild(h, j, rank)
    <3>1. 2 * j <= L => c \in j + 1 .. L
      <4>1. j \in Nat \ {0}  BY <2>6
      <4>. QED  BY <4>1, LesserChildIs
    <3>2. 2 * j <= L => c \in L + 1 - n .. L
      <4>1. \A k \in j + 1 .. L : k \in L + 1 - n .. L  OBVIOUS
      <4>. QED  BY <3>1, <4>1
    <3>3. 2 * j <= L => f[c] = g[c]  BY <2>3, <3>2
    <3>. QED  BY <3>3 DEF DownAt
  <2>7. \A j \in L + 1 - (n + 1) .. L : j > 0 => g[j] = DownAt(h, i, rank, g, j)
    <3>. SUFFICES ASSUME NEW j \in L + 1 - (n + 1) .. L, j > 0 PROVE g[j] = DownAt(h, i, rank, g, j)
      OBVIOUS
    <3>1. CASE j = L - n  BY <2>4, <2>6, <3>1
    <3>2. CASE j \in L + 1 - n .. L
      <4>1. g[j] = f[j] /\ f[j] = DownAt(h, i, rank, f, j)  BY <2>1, <2>3, <3>2
      <4>. QED  BY <2>6, <4>1
    <3>. QED  BY <2>2, <3>1, <3>2
  <2>8. n + 1 \in Nat  OBVIOUS
  <2>. QED  BY <2>5, <2>7, <2>8
<1>. HIDE DEF S
<1>3. Nat \subseteq S  BY <1>1, <1>2, AllNumbers
<1>4. L \in S  BY <1>3
<1>5. PICK f : /\ DOMAIN f = L + 1 - L .. L
               /\ \A j \in L + 1 - L .. L : j > 0 => f[j] = DownAt(h, i, rank, f, j)
  BY <1>4 DEF S
<1>6. L + 1 - L = 1 /\ \A j \in 1 .. L : j > 0  OBVIOUS
<1>. DEFINE g == [j \in 1 .. L |-> f[j]]
<1>7. \A j \in 1 .. L : g[j] = DownAt(h, i, rank, f, j)  BY <1>5, <1>6
<1>8. ASSUME NEW j \in 1 .. L PROVE DownAt(h, i, rank, f, j) = DownAt(h, i, rank, g, j)
  <2>. DEFINE c == LesserChild(h, j, rank)
  <2>1. 2 * j <= L => c \in j + 1 .. L  BY LesserChildIs
  <2>2. \A k \in j + 1 .. L : k \in 1 .. L  OBVIOUS
  <2>3. 2 * j <= L => f[c] = g[c]  BY <2>1, <2>2
  <2>. HIDE DEF g
  <2>. QED  BY <2>3 DEF DownAt
<1>9. g = [j \in 1 .. L |-> DownAt(h, i, rank, g, j)]
  <2>1. g = [j \in 1 .. L |-> g[j]]  OBVIOUS
  <2>2. \A j \in 1 .. L : g[j] = DownAt(h, i, rank, g, j)  BY <1>7, <1>8
  <2>. HIDE DEF g
  <2>. QED  BY <2>1, <2>2
<1>. QED  BY <1>9 DEF DownTo

LEMMA FilterDownIs ==
  ASSUME NEW h, NEW i, NEW rank, Len(h) \in Nat
  PROVE  /\ i \notin 1 .. Len(h) => FilterDown(h, i, rank) = h
         /\ i \in 1 .. Len(h) =>
              \E down : DownTo(h, i, rank, down) /\ FilterDown(h, i, rank) = down[i]
<1>. DEFINE down == CHOOSE down : DownTo(h, i, rank, down)
<1>1. \E f : DownTo(h, i, rank, f)  BY DownIsThere
<1>2. DownTo(h, i, rank, down)  BY <1>1
<1>3. FilterDown(h, i, rank) = IF i \in 1 .. Len(h) THEN down[i] ELSE h
  BY DEF FilterDown, DownAt, DownTo
<1>. HIDE DEF down
<1>. QED  BY <1>2, <1>3

\* Array g is array h with element x taken through the places from j on.
Sank(h, j, x, g, X) ==
  /\ g \in Seq(X) /\ Len(g) = Len(h)
  /\ \A p \in 1 .. j - 1 : g[p] = h[p]
  /\ \A p \in j .. Len(h) : g[p] = x \/ \E q \in j + 1 .. Len(h) : g[p] = h[q]
  /\ \E p \in j .. Len(h) : g[p] = x
  /\ \A q \in j + 1 .. Len(h) : \E p \in j .. Len(h) : g[p] = h[q]
  /\ \A p, q \in j .. Len(h) : p # q => g[p] # g[q]

\* The order below place j, and no rank below has become less.
SankInOrder(h, i, j, g, rank) ==
  /\ \A k \in 2 .. Len(h) : j <= k \div 2 => rank[g[k \div 2]] <= rank[g[k]]
  /\ \A p \in j .. Len(h) : p # i => rank[h[p]] <= rank[g[p]]

LEMMA SinkStops ==
  ASSUME NEW X, NEW h \in Seq(X), NEW i \in 1 .. Len(h), NEW j \in i .. Len(h), Distinct(h)
  PROVE  Sank(h, j, h[i], [h EXCEPT ![j] = h[i]], X)
<1>. DEFINE g == [h EXCEPT ![j] = h[i]]
<1>. Len(h) \in Nat /\ j \in 1 .. Len(h)  OBVIOUS
<1>1. g \in Seq(X) /\ Len(g) = Len(h) /\ g[j] = h[i] /\ \A p \in 1 .. Len(h) : p # j => g[p] = h[p]
  OBVIOUS
<1>. HIDE DEF g
<1>2. \A p, q \in 1 .. Len(h) : p # q => h[p] # h[q]  BY DEF Distinct
<1>3. \A p \in j + 1 .. Len(h) : p \in j .. Len(h) /\ p \in 1 .. Len(h) /\ p # j /\ p # i /\ g[p] = h[p]
  BY <1>1
<1>4. \A p \in j .. Len(h) : p = j \/ p \in j + 1 .. Len(h)  OBVIOUS
<1>5. \A p \in 1 .. j - 1 : g[p] = h[p]
  <2>1. \A p \in 1 .. j - 1 : p \in 1 .. Len(h) /\ p # j  OBVIOUS
  <2>. QED  BY <1>1, <2>1
<1>6. j \in j .. Len(h)  OBVIOUS
<1>7. \A p, q \in j .. Len(h) : p # q => g[p] # g[q]  BY <1>1, <1>2, <1>3, <1>4
<1>. QED  BY <1>1, <1>3, <1>4, <1>5, <1>6, <1>7 DEF Sank, g

LEMMA SinkGoesOn ==
  ASSUME NEW X, NEW h \in Seq(X), NEW i \in 1 .. Len(h), NEW j \in i .. Len(h), Distinct(h),
         NEW c \in j + 1 .. Len(h), NEW f, Sank(h, c, h[i], f, X)
  PROVE  Sank(h, j, h[i], [f EXCEPT ![j] = h[c]], X)
<1>. DEFINE g == [f EXCEPT ![j] = h[c]]
<1>. Len(h) \in Nat /\ i \in Nat /\ j \in Nat /\ c \in Nat /\ 1 <= i /\ i <= j /\ j < c /\ c <= Len(h)  OBVIOUS
<1>2. /\ f \in Seq(X) /\ Len(f) = Len(h)
      /\ \A p \in 1 .. c - 1 : f[p] = h[p]
      /\ \A p \in c .. Len(h) : f[p] = h[i] \/ \E r \in c + 1 .. Len(h) : f[p] = h[r]
      /\ \E p \in c .. Len(h) : f[p] = h[i]
      /\ \A r \in c + 1 .. Len(h) : \E p \in c .. Len(h) : f[p] = h[r]
      /\ \A p, r \in c .. Len(h) : p # r => f[p] # f[r]
  BY DEF Sank
<1>3. g \in Seq(X) /\ Len(g) = Len(h) /\ g[j] = h[c] /\ \A p \in 1 .. Len(h) : p # j => g[p] = f[p]
  BY <1>2
<1>. HIDE DEF g
<1>4. \A p, r \in 1 .. Len(h) : p # r => h[p] # h[r]  BY DEF Distinct
<1>5. \A p \in c .. Len(h) : p \in j .. Len(h) /\ p \in 1 .. Len(h) /\ p # j /\ g[p] = f[p]  BY <1>3
<1>6. \A p \in j + 1 .. c - 1 : p \in j .. Len(h) /\ p \in 1 .. Len(h) /\ p # j /\ g[p] = h[p] /\ p # i /\ p # c
  <2>1. \A p \in j + 1 .. c - 1 : p \in 1 .. c - 1 /\ p \in 1 .. Len(h) /\ p # j /\ p # i /\ p # c /\ p \in j .. Len(h)
    OBVIOUS
  <2>. QED  BY <1>2, <1>3, <2>1
<1>7. \A p \in 1 .. j - 1 : g[p] = h[p]
  <2>1. \A p \in 1 .. j - 1 : p \in 1 .. c - 1 /\ p \in 1 .. Len(h) /\ p # j  OBVIOUS
  <2>. QED  BY <1>2, <1>3, <2>1
<1>8. \A p \in j .. Len(h) : p = j \/ p \in c .. Len(h) \/ p \in j + 1 .. c - 1  OBVIOUS
<1>9. \A p \in j .. Len(h) : g[p] = h[i] \/ \E r \in j + 1 .. Len(h) : g[p] = h[r]
  <2>. TAKE p \in j .. Len(h)
  <2>1. CASE p = j  BY <1>3, <2>1
  <2>2. CASE p \in c .. Len(h)
    <3>1. \A r \in c + 1 .. Len(h) : r \in j + 1 .. Len(h)  OBVIOUS
    <3>2. f[p] = h[i] \/ \E r \in c + 1 .. Len(h) : f[p] = h[r]  BY <1>2, <2>2
    <3>. QED  BY <1>5, <2>2, <3>1, <3>2
  <2>3. CASE p \in j + 1 .. c - 1
    <3>1. p \in j + 1 .. Len(h)  BY <2>3
    <3>. QED  BY <1>6, <2>3, <3>1
  <2>. QED  BY <1>8, <2>1, <2>2, <2>3
<1>10. \E p \in j .. Len(h) : g[p] = h[i]  BY <1>2, <1>5
<1>11. \A r \in j + 1 .. Len(h) : \E p \in j .. Len(h) : g[p] = h[r]
  <2>. TAKE r \in j + 1 .. Len(h)
  <2>1. CASE r = c
    <3>1. j \in j .. Len(h)  OBVIOUS
    <3>. QED  BY <1>3, <2>1, <3>1
  <2>2. CASE r \in c + 1 .. Len(h)  BY <1>2, <1>5, <2>2
  <2>3. CASE r \in j + 1 .. c - 1  BY <1>6, <2>3
  <2>4. r = c \/ r \in c + 1 .. Len(h) \/ r \in j + 1 .. c - 1  OBVIOUS
  <2>. QED  BY <2>1, <2>2, <2>3, <2>4
<1>12. \A p \in c .. Len(h) : \A r \in j + 1 .. c : g[p] # h[r]
  <2>. SUFFICES ASSUME NEW p \in c .. Len(h), NEW r \in j + 1 .. c PROVE g[p] # h[r]  OBVIOUS
  <2>1. g[p] = h[i] \/ \E s \in c + 1 .. Len(h) : g[p] = h[s]  BY <1>2, <1>5
  <2>2. r \in 1 .. Len(h) /\ r # i /\ \A s \in c + 1 .. Len(h) : s \in 1 .. Len(h) /\ s # r  OBVIOUS
  <2>. QED  BY <1>4, <2>1, <2>2
<1>13. \A p, r \in j .. Len(h) : p < r => g[p] # g[r]
  <2>. SUFFICES ASSUME NEW p \in j .. Len(h), NEW r \in j .. Len(h), p < r PROVE g[p] # g[r]  OBVIOUS
  <2>1. CASE p \in c .. Len(h) /\ r \in c .. Len(h)  BY <1>2, <1>5, <2>1
  <2>2. CASE r \in c .. Len(h) /\ p \in j + 1 .. c - 1
    <3>1. p \in j + 1 .. c  BY <2>2
    <3>. QED  BY <1>6, <1>12, <2>2, <3>1
  <2>3. CASE r \in c .. Len(h) /\ p = j
    <3>1. c \in j + 1 .. c  OBVIOUS
    <3>. QED  BY <1>3, <1>12, <2>3, <3>1
  <2>4. CASE p \in j + 1 .. c - 1 /\ r \in j + 1 .. c - 1
    <3>1. p \in 1 .. Len(h) /\ r \in 1 .. Len(h) /\ p # r  OBVIOUS
    <3>. QED  BY <1>4, <1>6, <2>4, <3>1
  <2>5. CASE r \in j + 1 .. c - 1 /\ p = j
    <3>1. r \in 1 .. Len(h) /\ c \in 1 .. Len(h) /\ r # c  BY <2>5
    <3>. QED  BY <1>3, <1>4, <1>6, <2>5, <3>1
  <2>6. r \in c .. Len(h) \/ r \in j + 1 .. c - 1  OBVIOUS
  <2>7. p = j \/ p \in j + 1 .. c - 1 \/ (p \in c .. Len(h) /\ r \in c .. Len(h))  BY <2>6
  <2>. QED  BY <2>1, <2>2, <2>3, <2>4, <2>5, <2>6, <2>7
<1>14. \A p, r \in j .. Len(h) : p # r => g[p] # g[r]
  <2>. SUFFICES ASSUME NEW p \in j .. Len(h), NEW r \in j .. Len(h), p # r PROVE g[p] # g[r]  OBVIOUS
  <2>1. p < r \/ r < p  OBVIOUS
  <2>. QED  BY <1>13, <2>1
<1>. QED  BY <1>3, <1>7, <1>9, <1>10, <1>11, <1>14 DEF Sank, g

LEMMA SinkOrderStops ==
  ASSUME NEW X, NEW rank \in [X -> Int], NEW h \in Seq(X), NEW i \in 1 .. Len(h), NEW j \in i .. Len(h),
         \A k \in 2 .. Len(h) : k \div 2 > i => rank[h[k \div 2]] <= rank[h[k]],
         j = i \/ rank[h[j]] < rank[h[i]],
         \A k \in 2 .. Len(h) : k \div 2 = j => rank[h[i]] <= rank[h[k]]
  PROVE  SankInOrder(h, i, j, [h EXCEPT ![j] = h[i]], rank)
<1>. DEFINE g == [h EXCEPT ![j] = h[i]]
<1>. Len(h) \in Nat /\ i \in Nat /\ j \in 1 .. Len(h) /\ i <= j  OBVIOUS
<1>1. g[j] = h[i] /\ \A p \in 1 .. Len(h) : p # j => g[p] = h[p]
  OBVIOUS
<1>. HIDE DEF g
<1>2. \A p \in 1 .. Len(h) : rank[h[p]] \in Int  OBVIOUS
<1>3. ASSUME NEW k \in 2 .. Len(h), j <= k \div 2 PROVE rank[g[k \div 2]] <= rank[g[k]]
  <2>1. PICK q \in 1 .. k - 1 : q = k \div 2  BY Parent
  <2>2. q \in 1 .. Len(h) /\ k \in 1 .. Len(h) /\ j <= q /\ k # j  BY <1>3, <2>1
  <2>3. g[k] = h[k]  BY <1>1, <2>2
  <2>4. CASE q = j  BY <1>1, <2>1, <2>3, <2>4
  <2>5. CASE q # j
    <3>1. q > i /\ g[q] = h[q]  BY <1>1, <2>2, <2>5
    <3>. QED  BY <2>1, <2>3, <3>1
  <2>. QED  BY <2>4, <2>5
<1>4. \A p \in j .. Len(h) : p # i => rank[h[p]] <= rank[g[p]]
  <2>. SUFFICES ASSUME NEW p \in j .. Len(h), p # i PROVE rank[h[p]] <= rank[g[p]]  OBVIOUS
  <2>1. p \in 1 .. Len(h)  OBVIOUS
  <2>2. CASE p = j  BY <1>1, <1>2, <2>2
  <2>3. CASE p # j
    <3>1. g[p] = h[p]  BY <1>1, <2>1, <2>3
    <3>. QED  BY <1>2, <2>1, <3>1
  <2>. QED  BY <2>2, <2>3
<1>. QED  BY <1>3, <1>4 DEF SankInOrder, g

LEMMA SinkOrderGoesOn ==
  ASSUME NEW X, NEW rank \in [X -> Int], NEW h \in Seq(X), NEW i \in 1 .. Len(h), NEW j \in i .. Len(h),
         \A k \in 2 .. Len(h) : k \div 2 > i => rank[h[k \div 2]] <= rank[h[k]],
         NEW c \in j + 1 .. Len(h), c \in {2 * j, 2 * j + 1}, j # i => rank[h[j]] <= rank[h[c]],
         \A k \in 2 .. Len(h) : k \div 2 = j => rank[h[c]] <= rank[h[k]],
         NEW f, Sank(h, c, h[i], f, X), SankInOrder(h, i, c, f, rank)
  PROVE  SankInOrder(h, i, j, [f EXCEPT ![j] = h[c]], rank)
<1>. DEFINE g == [f EXCEPT ![j] = h[c]]
<1>. Len(h) \in Nat /\ i \in Nat /\ j \in 1 .. Len(h) /\ c \in 1 .. Len(h) /\ 1 <= i /\ i <= j /\ j < c  OBVIOUS
<1>2. /\ f \in Seq(X) /\ Len(f) = Len(h)
      /\ \A p \in 1 .. c - 1 : f[p] = h[p]
      /\ \A k \in 2 .. Len(h) : c <= k \div 2 => rank[f[k \div 2]] <= rank[f[k]]
      /\ \A p \in c .. Len(h) : p # i => rank[h[p]] <= rank[f[p]]
  BY DEF Sank, SankInOrder
<1>3. g[j] = h[c] /\ \A p \in 1 .. Len(h) : p # j => g[p] = f[p]
  BY <1>2
<1>. HIDE DEF g
<1>4. \A p \in 1 .. Len(h) : rank[h[p]] \in Int /\ rank[f[p]] \in Int
  <2>1. \A p \in 1 .. Len(h) : h[p] \in X /\ f[p] \in X  BY <1>2
  <2>. QED  BY <2>1
<1>5. \A p \in j + 1 .. Len(h) : p \in 1 .. Len(h) /\ p # j /\ g[p] = f[p] /\ rank[h[p]] <= rank[f[p]]
  <2>. TAKE p \in j + 1 .. Len(h)
  <2>1. p \in 1 .. Len(h) /\ p # i /\ p # j  OBVIOUS
  <2>2. CASE p \in 1 .. c - 1
    <3>1. f[p] = h[p]  BY <1>2, <2>2
    <3>. QED  BY <1>3, <1>4, <2>1, <3>1
  <2>3. CASE p \in c .. Len(h)  BY <1>2, <1>3, <2>1, <2>3
  <2>4. p \in 1 .. c - 1 \/ p \in c .. Len(h)  OBVIOUS
  <2>. QED  BY <2>2, <2>3, <2>4
<1>6. ASSUME NEW k \in 2 .. Len(h), j <= k \div 2 PROVE rank[g[k \div 2]] <= rank[g[k]]
  <2>1. PICK q \in 1 .. k - 1 : q = k \div 2 /\ (k = 2 * q \/ k = 2 * q + 1)  BY Parent
  <2>2. q \in 1 .. Len(h) /\ k \in 1 .. Len(h) /\ j <= q /\ k \in j + 1 .. Len(h)  BY <1>6, <2>1
  <2>3. g[k] = f[k] /\ rank[h[k]] <= rank[f[k]]  BY <1>5, <2>2
  <2>4. CASE q = j
    <3>1. rank[h[c]] <= rank[h[k]]  BY <2>1, <2>4
    <3>2. g[q] = h[c] /\ rank[h[c]] \in Int /\ rank[h[k]] \in Int /\ rank[f[k]] \in Int
      BY <1>3, <1>4, <2>2, <2>4
    <3>3. rank[h[c]] <= rank[f[k]]  BY <2>3, <3>1, <3>2, Through
    <3>4. rank[g[q]] <= rank[g[k]]  BY Zenon, <2>3, <3>2, <3>3
    <3>. QED  BY <2>1, <3>4
  <2>5. CASE q # j /\ q < c
    <3>1. q \in 1 .. c - 1 /\ q > i  BY <2>2, <2>5
    <3>2. g[q] = h[q]  BY <1>2, <1>3, <2>2, <2>5, <3>1
    <3>3. rank[h[q]] <= rank[h[k]]  BY <2>1, <3>1
    <3>4. rank[h[q]] \in Int /\ rank[h[k]] \in Int /\ rank[f[k]] \in Int  BY <1>4, <2>2
    <3>5. rank[h[q]] <= rank[f[k]]  BY <2>3, <3>3, <3>4, Through
    <3>6. rank[g[q]] <= rank[g[k]]  BY Zenon, <2>3, <3>2, <3>5
    <3>. QED  BY <2>1, <3>6
  <2>6. CASE c <= q
    <3>1. q \in j + 1 .. Len(h)  BY <2>2, <2>6
    <3>2. g[q] = f[q]  BY <1>5, <3>1
    <3>3. rank[f[q]] <= rank[f[k]]  BY <1>2, <2>1, <2>6
    <3>. QED  BY <2>1, <2>3, <3>2, <3>3
  <2>7. q = j \/ (q # j /\ q < c) \/ c <= q  OBVIOUS
  <2>. QED  BY <2>4, <2>5, <2>6, <2>7
<1>7. \A p \in j .. Len(h) : p # i => rank[h[p]] <= rank[g[p]]
  <2>. SUFFICES ASSUME NEW p \in j .. Len(h), p # i PROVE rank[h[p]] <= rank[g[p]]  OBVIOUS
  <2>1. CASE p = j  BY <1>3, <2>1
  <2>2. CASE p # j
    <3>1. p \in j + 1 .. Len(h)  BY <2>2
    <3>. QED  BY <1>5, <3>1
  <2>. QED  BY <2>1, <2>2
<1>. QED  BY <1>6, <1>7 DEF SankInOrder, g

LEMMA LesserChildLess ==
  ASSUME NEW X, NEW rank \in [X -> Int], NEW h \in Seq(X), NEW j \in 1 .. Len(h), 2 * j <= Len(h)
  PROVE  \A k \in 2 .. Len(h) : k \div 2 = j => rank[h[LesserChild(h, j, rank)]] <= rank[h[k]]
<1>. SUFFICES ASSUME NEW k \in 2 .. Len(h), k \div 2 = j
              PROVE  rank[h[LesserChild(h, j, rank)]] <= rank[h[k]]
  OBVIOUS
<1>. Len(h) \in Nat  OBVIOUS
<1>1. k = 2 * j \/ k = 2 * j + 1  BY Parent
<1>2. \A p \in 1 .. Len(h) : rank[h[p]] \in Int  OBVIOUS
<1>3. 2 * j \in 1 .. Len(h) /\ k \in 1 .. Len(h)  OBVIOUS
<1>4. 2 * j < Len(h) => 2 * j + 1 \in 1 .. Len(h)  OBVIOUS
<1>5. CASE 2 * j < Len(h)
  <2>1. rank[h[2 * j]] \in Int /\ rank[h[2 * j + 1]] \in Int  BY <1>2, <1>3, <1>4, <1>5
  <2>2. LesserChild(h, j, rank) = IF rank[h[2 * j]] > rank[h[2 * j + 1]] THEN 2 * j + 1 ELSE 2 * j
    BY <1>5 DEF LesserChild
  <2>3. CASE k = 2 * j  BY <2>1, <2>2, <2>3
  <2>4. CASE k = 2 * j + 1  BY <2>1, <2>2, <2>4
  <2>. QED  BY <1>1, <2>3, <2>4
<1>6. CASE ~(2 * j < Len(h))
  <2>1. k = 2 * j  BY <1>1, <1>3, <1>6
  <2>. QED  BY <1>2, <1>3, <1>6, <2>1 DEF LesserChild
<1>. QED  BY <1>5, <1>6

LEMMA SinkIs ==
  ASSUME NEW X, NEW rank \in [X -> Int], NEW h \in Seq(X), NEW i \in 1 .. Len(h), Distinct(h),
         \A k \in 2 .. Len(h) : k \div 2 > i => rank[h[k \div 2]] <= rank[h[k]],
         NEW down, down = [j \in 1 .. Len(h) |-> DownAt(h, i, rank, down, j)]
  PROVE  Sank(h, i, h[i], down[i], X) /\ SankInOrder(h, i, i, down[i], rank)
<1>. DEFINE Good(j) == (j = i \/ rank[h[j]] < rank[h[i]]) =>
                         Sank(h, j, h[i], down[j], X) /\ SankInOrder(h, i, j, down[j], rank)
            S == {n \in Nat : \A j \in i .. Len(h) : Len(h) - j < n => Good(j)}
<1>. Len(h) \in Nat  OBVIOUS
<1>1. 0 \in S
  <2>1. \A j \in i .. Len(h) : ~(Len(h) - j < 0)  OBVIOUS
  <2>. QED  BY <2>1
<1>2. \A p \in 1 .. Len(h) : rank[h[p]] \in Int  OBVIOUS
<1>3. ASSUME NEW n \in Nat, n \in S PROVE n + 1 \in S
  <2>. SUFFICES ASSUME NEW j \in i .. Len(h), Len(h) - j < n + 1, j = i \/ rank[h[j]] < rank[h[i]]
                PROVE  Sank(h, j, h[i], down[j], X) /\ SankInOrder(h, i, j, down[j], rank)
    <3>1. \A j \in i .. Len(h) : Len(h) - j < n + 1 => Good(j)  OBVIOUS
    <3>2. n + 1 \in Nat  OBVIOUS
    <3>. HIDE DEF Good
    <3>. QED  BY <3>1, <3>2
  <2>. DEFINE c == LesserChild(h, j, rank)
  <2>1. down[j] = DownAt(h, i, rank, down, j) /\ j \in 1 .. Len(h) /\ i <= j
    <3>1. j \in 1 .. Len(h) /\ i <= j  OBVIOUS
    <3>. HIDE DEF S
    <3>. QED  BY <3>1
  <2>2. 2 * j <= Len(h) => c \in j + 1 .. Len(h) /\ c \in {2 * j, 2 * j + 1}
    <3>1. j \in Nat \ {0}  BY <2>1
    <3>. QED  BY <3>1, LesserChildIs
  <2>3. 2 * j <= Len(h) => \A k \in 2 .. Len(h) : k \div 2 = j => rank[h[c]] <= rank[h[k]]
    BY <2>1, LesserChildLess
  <2>4. CASE 2 * j <= Len(h) /\ rank[h[c]] < rank[h[i]]
    <3>. HIDE DEF c
    <3>8. c \in j + 1 .. Len(h)  BY <2>2, <2>4
    <3>9. i \in Nat /\ 1 <= i /\ j \in Nat  OBVIOUS
    <3>0. i \in Nat /\ 1 <= i /\ i <= j /\ j \in Nat /\ c \in j + 1 .. Len(h)  BY <2>1, <3>8, <3>9
    <3>1. c \in i .. Len(h) /\ c \in 1 .. Len(h) /\ Len(h) - c < n  BY <3>0
    <3>2. Good(c)  BY <1>3, <3>1
    <3>3. Sank(h, c, h[i], down[c], X) /\ SankInOrder(h, i, c, down[c], rank)  BY <2>4, <3>2
    <3>4. down[j] = [down[c] EXCEPT ![j] = h[c]]  BY <2>1, <2>4 DEF DownAt, c
    <3>5. j # i => rank[h[j]] <= rank[h[c]]
      <4>1. c = 2 * j \/ c = 2 * j + 1  BY <2>2, <2>4
      <4>2. c \in 2 .. Len(h) /\ c \div 2 = j  BY <3>0, <4>1
      <4>3. j # i => c \div 2 > i  BY <3>0, <4>2
      <4>4. j # i => rank[h[c \div 2]] <= rank[h[c]]  BY <4>2, <4>3
      <4>. QED  BY <4>2, <4>4
    <3>. HIDE DEF S
    <3>6. Sank(h, j, h[i], down[j], X)
      <4>1. Sank(h, j, h[i], [down[c] EXCEPT ![j] = h[c]], X)  BY <3>0, <3>3, SinkGoesOn
      <4>. QED  BY <3>4, <4>1
    <3>7. SankInOrder(h, i, j, down[j], rank)
      <4>1. SankInOrder(h, i, j, [down[c] EXCEPT ![j] = h[c]], rank)
        BY <2>2, <2>3, <2>4, <3>3, <3>5, SinkOrderGoesOn
      <4>. QED  BY <3>4, <4>1
    <3>. QED  BY <3>6, <3>7
  <2>5. CASE ~(2 * j <= Len(h) /\ rank[h[c]] < rank[h[i]])
    <3>1. down[j] = [h EXCEPT ![j] = h[i]]  BY <2>1, <2>5 DEF DownAt
    <3>2. \A k \in 2 .. Len(h) : k \div 2 = j => rank[h[i]] <= rank[h[k]]
      <4>. SUFFICES ASSUME NEW k \in 2 .. Len(h), k \div 2 = j PROVE rank[h[i]] <= rank[h[k]]  OBVIOUS
      <4>. HIDE DEF c
      <4>1. 2 * j <= Len(h)  BY <2>1, Parent
      <4>0. c \in j + 1 .. Len(h)  BY <2>2, <4>1
      <4>2. c \in 1 .. Len(h) /\ k \in 1 .. Len(h)
        <5>1. j \in Nat /\ j >= 1  BY <2>1
        <5>. QED  BY <4>0, <5>1
      <4>3. rank[h[c]] <= rank[h[k]]  BY <2>3, <4>1
      <4>4. i \in 1 .. Len(h) /\ rank[h[i]] \in Int /\ rank[h[c]] \in Int /\ rank[h[k]] \in Int
        BY <1>2, <4>2
      <4>5. ~(rank[h[c]] < rank[h[i]])  BY <2>5, <4>1
      <4>. QED  BY <4>3, <4>4, <4>5
    <3>. HIDE DEF S
    <3>3. Sank(h, j, h[i], down[j], X)  BY <3>1, SinkStops
    <3>4. SankInOrder(h, i, j, down[j], rank)
      <4>1. SankInOrder(h, i, j, [h EXCEPT ![j] = h[i]], rank)  BY <3>2, SinkOrderStops
      <4>. QED  BY <3>1, <4>1
    <3>. QED  BY <3>3, <3>4
  <2>. QED  BY <2>4, <2>5
<1>. HIDE DEF S
<1>4. Nat \subseteq S  BY <1>1, <1>3, AllNumbers
<1>5. Len(h) - i + 1 \in S  BY <1>4
<1>6. Good(i)
  <2>. HIDE DEF Good
  <2>1. i \in i .. Len(h) /\ Len(h) - i < Len(h) - i + 1  OBVIOUS
  <2>. QED  BY <1>5, <2>1 DEF S
<1>. QED  BY <1>6

-----------------------------------------------------------------------------
(* The heap's operations.                                                  *)

\* Array g has the elements of array h, in another order.
Rearranged(h, g, X) ==
  g \in Seq(X) /\ Len(g) = Len(h) /\ Distinct(g) /\ ToSet(g) = ToSet(h)

\* The order, except that the element at i may have to go up or down.
OrderedBut(h, i, rank) ==
  \A k \in 2 .. Len(h) :
    /\ k # i /\ k \div 2 # i => rank[h[k \div 2]] <= rank[h[k]]
    /\ k \div 2 = i /\ i > 1 => rank[h[i \div 2]] <= rank[h[k]]

LEMMA ParentThere ==
  ASSUME NEW n \in Nat, NEW k \in 2 .. n
  PROVE  k \div 2 \in 1 .. n /\ k \in 1 .. n /\ k \div 2 < k
<1>1. k \in Nat /\ k > 1 /\ k <= n  OBVIOUS
<1>2. k \div 2 \in Nat /\ 1 <= k \div 2 /\ k \div 2 < k  BY <1>1, Parent
<1>. QED  BY <1>1, <1>2

LEMMA OrderedAnywhere ==
  ASSUME NEW X, NEW rank \in [X -> Int], NEW h \in Seq(X), HeapOrdered(h, rank), NEW i \in 1 .. Len(h)
  PROVE  OrderedBut(h, i, rank) /\ (i > 1 => rank[h[i \div 2]] <= rank[h[i]])
<1>. Len(h) \in Nat  OBVIOUS
<1>1. \A p \in 1 .. Len(h) : rank[h[p]] \in Int  OBVIOUS
<1>2. \A k \in 2 .. Len(h) : rank[h[k \div 2]] <= rank[h[k]]  BY DEF HeapOrdered
<1>3. i > 1 => i \in 2 .. Len(h)  OBVIOUS
<1>4. ASSUME NEW k \in 2 .. Len(h), k \div 2 = i, i > 1 PROVE rank[h[i \div 2]] <= rank[h[k]]
  <2>1. rank[h[i \div 2]] <= rank[h[i]] /\ rank[h[i]] <= rank[h[k]]  BY <1>2, <1>3, <1>4
  <2>2. i \div 2 \in 1 .. Len(h) /\ k \in 1 .. Len(h)  BY <1>3, <1>4, ParentThere
  <2>. QED  BY <1>1, <2>1, <2>2
<1>. QED  BY <1>2, <1>3, <1>4 DEF OrderedBut

LEMMA RoseRearranged ==
  ASSUME NEW X, NEW h \in Seq(X), NEW i \in 1 .. Len(h), Distinct(h), NEW g, Rose(h, i, h[i], g, X)
  PROVE  Rearranged(h, g, X)
<1>. Len(h) \in Nat  OBVIOUS
<1>1. /\ g \in Seq(X) /\ Len(g) = Len(h)
      /\ \A p \in i + 1 .. Len(h) : g[p] = h[p]
      /\ \A p \in 1 .. i : g[p] = h[i] \/ \E q \in 1 .. i - 1 : g[p] = h[q]
      /\ \E p \in 1 .. i : g[p] = h[i]
      /\ \A q \in 1 .. i - 1 : \E p \in 1 .. i : g[p] = h[q]
      /\ \A p, q \in 1 .. i : p # q => g[p] # g[q]
  BY DEF Rose
<1>2. DOMAIN g = 1 .. Len(h) /\ DOMAIN h = 1 .. Len(h)  BY <1>1
<1>3. \A p \in 1 .. Len(h) : p \in i + 1 .. Len(h) \/ p = i \/ p \in 1 .. i - 1  OBVIOUS
<1>4. \A p \in 1 .. i : p \in 1 .. Len(h)  OBVIOUS
<1>5. \A p \in 1 .. i - 1 : p \in 1 .. i  OBVIOUS
<1>6. i \in 1 .. i  OBVIOUS
<1>7. \A p \in 1 .. i : \E q \in 1 .. i : g[p] = h[q]  BY <1>1, <1>5, <1>6
<1>8. \A q \in 1 .. i : \E p \in 1 .. i : g[p] = h[q]
  <2>1. \A q \in 1 .. i : q = i \/ q \in 1 .. i - 1  OBVIOUS
  <2>. QED  BY <1>1, <2>1
<1>9. \A p \in 1 .. Len(h) : \E q \in 1 .. Len(h) : g[p] = h[q]  BY <1>1, <1>3, <1>4, <1>5, <1>6, <1>7
<1>10. \A q \in 1 .. Len(h) : \E p \in 1 .. Len(h) : g[p] = h[q]  BY <1>1, <1>3, <1>4, <1>5, <1>6, <1>8
<1>11. ToSet(g) = ToSet(h)
  <2>1. ASSUME NEW x \in ToSet(g) PROVE x \in ToSet(h)
    <3>1. PICK p \in 1 .. Len(h) : x = g[p]  BY <1>2 DEF ToSet
    <3>. QED  BY <1>2, <1>9, <3>1 DEF ToSet
  <2>2. ASSUME NEW x \in ToSet(h) PROVE x \in ToSet(g)
    <3>1. PICK q \in 1 .. Len(h) : x = h[q]  BY <1>2 DEF ToSet
    <3>. QED  BY <1>2, <1>10, <3>1 DEF ToSet
  <2>. QED  BY <2>1, <2>2
<1>12. \A p, q \in 1 .. Len(h) : p # q => h[p] # h[q]  BY <1>2 DEF Distinct
<1>13. \A p \in 1 .. i, q \in i + 1 .. Len(h) : g[p] # g[q]
  <2>. SUFFICES ASSUME NEW p \in 1 .. i, NEW q \in i + 1 .. Len(h) PROVE g[p] # g[q]  OBVIOUS
  <2>1. PICK r \in 1 .. i : g[p] = h[r]  BY <1>7
  <2>2. r \in 1 .. Len(h) /\ q \in 1 .. Len(h) /\ r # q  OBVIOUS
  <2>. QED  BY <1>1, <1>12, <2>1, <2>2
<1>14. \A p, q \in i + 1 .. Len(h) : p # q => g[p] # g[q]
  <2>1. \A p \in i + 1 .. Len(h) : p \in 1 .. Len(h)  OBVIOUS
  <2>. QED  BY <1>1, <1>12, <2>1
<1>15. \A p \in 1 .. Len(h) : p \in 1 .. i \/ p \in i + 1 .. Len(h)  OBVIOUS
<1>16. Distinct(g)  BY <1>1, <1>2, <1>13, <1>14, <1>15 DEF Distinct
<1>. QED  BY <1>1, <1>11, <1>16 DEF Rearranged

LEMMA SankRearranged ==
  ASSUME NEW X, NEW h \in Seq(X), NEW i \in 1 .. Len(h), Distinct(h), NEW g, Sank(h, i, h[i], g, X)
  PROVE  Rearranged(h, g, X)
<1>. Len(h) \in Nat  OBVIOUS
<1>1. /\ g \in Seq(X) /\ Len(g) = Len(h)
      /\ \A p \in 1 .. i - 1 : g[p] = h[p]
      /\ \A p \in i .. Len(h) : g[p] = h[i] \/ \E q \in i + 1 .. Len(h) : g[p] = h[q]
      /\ \E p \in i .. Len(h) : g[p] = h[i]
      /\ \A q \in i + 1 .. Len(h) : \E p \in i .. Len(h) : g[p] = h[q]
      /\ \A p, q \in i .. Len(h) : p # q => g[p] # g[q]
  BY DEF Sank
<1>2. DOMAIN g = 1 .. Len(h) /\ DOMAIN h = 1 .. Len(h)  BY <1>1
<1>3. \A p \in 1 .. Len(h) : p \in 1 .. i - 1 \/ p \in i .. Len(h)  OBVIOUS
<1>4. \A p \in i .. Len(h) : p \in 1 .. Len(h)  OBVIOUS
<1>5. \A p \in i + 1 .. Len(h) : p \in i .. Len(h)  OBVIOUS
<1>6. i \in i .. Len(h)  OBVIOUS
<1>7. \A p \in i .. Len(h) : \E q \in i .. Len(h) : g[p] = h[q]  BY <1>1, <1>5, <1>6
<1>8. \A q \in i .. Len(h) : \E p \in i .. Len(h) : g[p] = h[q]
  <2>1. \A q \in i .. Len(h) : q = i \/ q \in i + 1 .. Len(h)  OBVIOUS
  <2>. QED  BY <1>1, <2>1
<1>9. \A p \in 1 .. Len(h) : \E q \in 1 .. Len(h) : g[p] = h[q]  BY <1>1, <1>3, <1>4, <1>7
<1>10. \A q \in 1 .. Len(h) : \E p \in 1 .. Len(h) : g[p] = h[q]  BY <1>1, <1>3, <1>4, <1>8
<1>11. ToSet(g) = ToSet(h)
  <2>1. ASSUME NEW x \in ToSet(g) PROVE x \in ToSet(h)
    <3>1. PICK p \in 1 .. Len(h) : x = g[p]  BY <1>2 DEF ToSet
    <3>. QED  BY <1>2, <1>9, <3>1 DEF ToSet
  <2>2. ASSUME NEW x \in ToSet(h) PROVE x \in ToSet(g)
    <3>1. PICK q \in 1 .. Len(h) : x = h[q]  BY <1>2 DEF ToSet
    <3>. QED  BY <1>2, <1>10, <3>1 DEF ToSet
  <2>. QED  BY <2>1, <2>2
<1>12. \A p, q \in 1 .. Len(h) : p # q => h[p] # h[q]  BY <1>2 DEF Distinct
<1>13. \A p \in i .. Len(h), q \in 1 .. i - 1 : g[p] # g[q]
  <2>. SUFFICES ASSUME NEW p \in i .. Len(h), NEW q \in 1 .. i - 1 PROVE g[p] # g[q]  OBVIOUS
  <2>1. PICK r \in i .. Len(h) : g[p] = h[r]  BY <1>7
  <2>2. r \in 1 .. Len(h) /\ q \in 1 .. Len(h) /\ r # q  OBVIOUS
  <2>. QED  BY <1>1, <1>12, <2>1, <2>2
<1>14. \A p, q \in 1 .. i - 1 : p # q => g[p] # g[q]
  <2>1. \A p \in 1 .. i - 1 : p \in 1 .. Len(h)  OBVIOUS
  <2>. QED  BY <1>1, <1>12, <2>1
<1>16. Distinct(g)  BY <1>1, <1>2, <1>3, <1>13, <1>14 DEF Distinct
<1>. QED  BY <1>1, <1>11, <1>16 DEF Rearranged

\* FilterUp leaves no order to be made but below the element's place.
LEMMA FilterUpOrders ==
  ASSUME NEW X, NEW rank \in [X -> Int], NEW h \in Seq(X), NEW i \in 1 .. Len(h), Distinct(h),
         OrderedBut(h, i, rank)
  PROVE  /\ Rearranged(h, FilterUp(h, i, rank), X) /\ OrderedBut(FilterUp(h, i, rank), i, rank)
         /\ i > 1 => rank[FilterUp(h, i, rank)[i \div 2]] <= rank[FilterUp(h, i, rank)[i]]
<1>. Len(h) \in Nat  OBVIOUS
<1>0. PICK up : UpTo(h, i, rank, up, Len(h)) /\ FilterUp(h, i, rank) = up[i]
  BY FilterUpIs
<1>1. up = [j \in 1 .. Len(h) |-> UpAt(h, i, rank, up, j)] /\ FilterUp(h, i, rank) = up[i]
  BY <1>0 DEF UpTo
<1>2. PICK g : g = FilterUp(h, i, rank)  OBVIOUS
<1>3. \A k \in 2 .. i - 1 : rank[h[k \div 2]] <= rank[h[k]]
  <2>. SUFFICES ASSUME NEW k \in 2 .. i - 1 PROVE rank[h[k \div 2]] <= rank[h[k]]  OBVIOUS
  <2>1. k \in 2 .. Len(h) /\ k # i /\ k < i  OBVIOUS
  <2>2. k \div 2 # i  BY <2>1, ParentThere
  <2>. QED  BY <2>1, <2>2 DEF OrderedBut
<1>4. Rose(h, i, h[i], g, X) /\ RoseInOrder(h, i, i, g, rank)  BY <1>1, <1>2, <1>3, RiseIs
<1>5. Rearranged(h, g, X)  BY <1>4, RoseRearranged
<1>6. g = UpAt(h, i, rank, up, i)  BY <1>1, <1>2
<1>7. \A p \in 1 .. Len(h) : rank[h[p]] \in Int /\ rank[g[p]] \in Int
  <2>1. g \in Seq(X) /\ Len(g) = Len(h)  BY <1>4 DEF Rose
  <2>2. \A p \in 1 .. Len(h) : h[p] \in X /\ g[p] \in X  BY <2>1
  <2>. QED  BY <2>2
<1>8. CASE i > 1 /\ rank[h[i \div 2]] > rank[h[i]]
  <2>1. i \in 2 .. Len(h) /\ i \div 2 \in 1 .. Len(h) /\ i \div 2 # i /\ i \div 2 < i
    <3>1. i \in 2 .. Len(h)  BY <1>8
    <3>. QED  BY <3>1, ParentThere
  <2>2. g[i] = h[i \div 2]
    <3>1. g = [up[i \div 2] EXCEPT ![i] = h[i \div 2]]  BY <1>6, <1>8 DEF UpAt
    <3>2. Len(g) = Len(h) /\ g \in Seq(X)  BY <1>4 DEF Rose
    <3>3. i \in DOMAIN g  BY <3>2
    <3>. QED  BY <3>1, <3>3
  <2>3. ASSUME NEW k \in 2 .. Len(h) PROVE rank[g[k \div 2]] <= rank[g[k]]
    <3>1. PICK q \in 1 .. Len(h) : q = k \div 2 /\ q < k  BY ParentThere
    <3>2. k \in 1 .. Len(h)  OBVIOUS
    <3>3. CASE k <= i
      <4>1. k \in 2 .. i  BY <3>3
      <4>. QED  BY <1>4, <4>1 DEF RoseInOrder
    <3>4. CASE i < k
      <4>1. g[k] = h[k]
        <5>1. k \in i + 1 .. Len(h)  BY <3>4
        <5>. QED  BY <1>4, <5>1 DEF Rose
      <4>2. CASE q = i  BY <1>8, <2>2, <3>1, <4>1, <4>2 DEF OrderedBut
      <4>3. CASE q # i
        <5>1. rank[h[q]] <= rank[h[k]]  BY <3>1, <3>4, <4>3 DEF OrderedBut
        <5>2. rank[g[q]] <= rank[h[q]]
          <6>1. CASE q < i
            <7>1. q \in 1 .. i  BY <6>1
            <7>. QED  BY <1>4, <4>3, <7>1 DEF RoseInOrder
          <6>2. CASE ~(q < i)
            <7>1. q \in i + 1 .. Len(h)  BY <4>3, <6>2
            <7>2. g[q] = h[q]  BY <1>4, <7>1 DEF Rose
            <7>. QED  BY <1>7, <7>2
          <6>. QED  BY <6>1, <6>2
        <5>. QED  BY <1>7, <3>1, <3>2, <4>1, <5>1, <5>2
      <4>. QED  BY <4>2, <4>3
    <3>. QED  BY <3>3, <3>4
  <2>4. g \in Seq(X) /\ Len(g) = Len(h)  BY <1>4 DEF Rose
  <2>5. HeapOrdered(g, rank)  BY <2>3, <2>4 DEF HeapOrdered
  <2>6. OrderedBut(g, i, rank) /\ (i > 1 => rank[g[i \div 2]] <= rank[g[i]])
    <3>1. i \in 1 .. Len(g)  BY <2>4
    <3>. QED  BY <2>4, <2>5, <3>1, OrderedAnywhere
  <2>. QED  BY <1>2, <1>5, <2>6
<1>9. CASE ~(i > 1 /\ rank[h[i \div 2]] > rank[h[i]])
  <2>1. g = [h EXCEPT ![i] = h[i]]  BY <1>6, <1>9 DEF UpAt
  <2>2. g = h  BY <2>1
  <2>3. i > 1 => rank[h[i \div 2]] <= rank[h[i]]
    <3>1. i > 1 => i \in 2 .. Len(h)  OBVIOUS
    <3>2. i > 1 => i \div 2 \in 1 .. Len(h)  BY <3>1, ParentThere
    <3>. QED  BY <1>7, <1>9, <3>2
  <2>. QED  BY <1>2, <1>5, <2>2, <2>3
<1>. QED  BY <1>8, <1>9

\* FilterDown makes the order below a place, and leaves it above.
LEMMA FilterDownOrders ==
  ASSUME NEW X, NEW rank \in [X -> Int], NEW h \in Seq(X), NEW i \in 1 .. Len(h), Distinct(h),
         OrderedBut(h, i, rank), i > 1 => rank[h[i \div 2]] <= rank[h[i]]
  PROVE  Rearranged(h, FilterDown(h, i, rank), X) /\ HeapOrdered(FilterDown(h, i, rank), rank)
<1>. Len(h) \in Nat  OBVIOUS
<1>0. PICK down : DownTo(h, i, rank, down) /\ FilterDown(h, i, rank) = down[i]
  BY FilterDownIs
<1>1. down = [j \in 1 .. Len(h) |-> DownAt(h, i, rank, down, j)] /\ FilterDown(h, i, rank) = down[i]
  BY <1>0 DEF DownTo
<1>2. PICK g : g = FilterDown(h, i, rank)  OBVIOUS
<1>3. \A k \in 2 .. Len(h) : k \div 2 > i => rank[h[k \div 2]] <= rank[h[k]]
  <2>. SUFFICES ASSUME NEW k \in 2 .. Len(h), k \div 2 > i PROVE rank[h[k \div 2]] <= rank[h[k]]  OBVIOUS
  <2>1. k \div 2 # i /\ k # i  BY ParentThere
  <2>. QED  BY <2>1 DEF OrderedBut
<1>4. Sank(h, i, h[i], g, X) /\ SankInOrder(h, i, i, g, rank)  BY <1>1, <1>2, <1>3, SinkIs
<1>5. Rearranged(h, g, X)  BY <1>4, SankRearranged
<1>6. g \in Seq(X) /\ Len(g) = Len(h)  BY <1>4 DEF Sank
<1>7. \A p \in 1 .. Len(h) : rank[h[p]] \in Int /\ rank[g[p]] \in Int
  <2>1. \A p \in 1 .. Len(h) : h[p] \in X /\ g[p] \in X  BY <1>6
  <2>. QED  BY <2>1
<1>8. g[i] = h[i] \/ \E k \in 2 .. Len(h) : k \div 2 = i /\ g[i] = h[k]
  <2>. DEFINE c == LesserChild(h, i, rank)
  <2>1. g = DownAt(h, i, rank, down, i)  BY <1>1, <1>2
  <2>2. i \in DOMAIN g /\ i \in Nat \ {0}  BY <1>6
  <2>3. CASE 2 * i <= Len(h) /\ rank[h[c]] < rank[h[i]]
    <3>1. c \in {2 * i, 2 * i + 1} /\ c \in i + 1 .. Len(h)  BY <2>2, <2>3, LesserChildIs
    <3>2. g = [down[c] EXCEPT ![i] = h[c]]  BY <2>1, <2>3 DEF DownAt
    <3>. HIDE DEF c
    <3>3. g[i] = h[c]  BY <2>2, <3>2
    <3>4. c \in 2 .. Len(h) /\ c \div 2 = i
      <4>1. c = 2 * i \/ c = 2 * i + 1  BY <3>1
      <4>2. c > 1 /\ c <= Len(h) /\ c \in Nat  BY <2>2, <3>1
      <4>3. c \div 2 = i
        <5>1. PICK q \in Nat : q = c \div 2 /\ (c = 2 * q \/ c = 2 * q + 1)  BY <4>2, Parent
        <5>2. q = i  BY <2>2, <4>1, <5>1
        <5>. QED  BY <5>1, <5>2
      <4>. QED  BY <4>2, <4>3
    <3>. QED  BY <3>3, <3>4
  <2>4. CASE ~(2 * i <= Len(h) /\ rank[h[c]] < rank[h[i]])
    <3>1. g = [h EXCEPT ![i] = h[i]]  BY <2>1, <2>4 DEF DownAt
    <3>. QED  BY <3>1
  <2>. QED  BY <2>3, <2>4
<1>9. ASSUME NEW k \in 2 .. Len(h) PROVE rank[g[k \div 2]] <= rank[g[k]]
  <2>1. PICK q \in 1 .. Len(h) : q = k \div 2 /\ q < k  BY ParentThere
  <2>2. k \in 1 .. Len(h)  OBVIOUS
  <2>3. CASE i <= q  BY <1>4, <2>1, <2>3 DEF SankInOrder
  <2>4. CASE q < i
    <3>1. g[q] = h[q]
      <4>1. q \in 1 .. i - 1  BY <2>4
      <4>. QED  BY <1>4, <4>1 DEF Sank
    <3>2. CASE k = i
      <4>1. i > 1 /\ q = i \div 2  BY <2>1, <3>2
      <4>2. g[i] = h[i] => rank[g[q]] <= rank[g[k]]  BY <3>1, <3>2, <4>1
      <4>3. (\E r \in 2 .. Len(h) : r \div 2 = i /\ g[i] = h[r]) => rank[g[q]] <= rank[g[k]]
        BY <3>1, <3>2, <4>1 DEF OrderedBut
      <4>. QED  BY <1>8, <2>1, <4>2, <4>3
    <3>3. CASE k # i
      <4>1. rank[h[q]] <= rank[h[k]]  BY <2>1, <2>4, <3>3 DEF OrderedBut
      <4>2. rank[h[k]] <= rank[g[k]]
        <5>1. CASE k < i
          <6>1. k \in 1 .. i - 1  BY <5>1
          <6>2. g[k] = h[k]  BY <1>4, <6>1 DEF Sank
          <6>. QED  BY <1>7, <2>2, <6>2
        <5>2. CASE ~(k < i)
          <6>1. k \in i .. Len(h)  BY <5>2
          <6>. QED  BY <1>4, <3>3, <6>1 DEF SankInOrder
        <5>. QED  BY <5>1, <5>2
      <4>. QED  BY <1>7, <2>1, <2>2, <3>1, <4>1, <4>2
    <3>. QED  BY <3>2, <3>3
  <2>. QED  BY <2>3, <2>4
<1>10. HeapOrdered(g, rank)  BY <1>6, <1>9 DEF HeapOrdered
<1>. QED  BY <1>2, <1>5, <1>10

LEMMA SettledIs ==
  ASSUME NEW X, NEW rank \in [X -> Int], NEW h \in Seq(X), NEW i \in 1 .. Len(h), Distinct(h),
         OrderedBut(h, i, rank)
  PROVE  Rearranged(h, Settled(h, i, rank), X) /\ HeapOrdered(Settled(h, i, rank), rank)
<1>1. PICK u : u = FilterUp(h, i, rank)  OBVIOUS
<1>2. Rearranged(h, u, X) /\ OrderedBut(u, i, rank) /\ (i > 1 => rank[u[i \div 2]] <= rank[u[i]])
  BY <1>1, FilterUpOrders
<1>3. u \in Seq(X) /\ i \in 1 .. Len(u) /\ Distinct(u)  BY <1>2 DEF Rearranged
<1>4. Rearranged(u, FilterDown(u, i, rank), X) /\ HeapOrdered(FilterDown(u, i, rank), rank)
  BY <1>2, <1>3, FilterDownOrders
<1>5. Rearranged(h, FilterDown(u, i, rank), X)  BY <1>2, <1>4 DEF Rearranged
<1>. QED  BY <1>1, <1>4, <1>5 DEF Settled

\* Push adds its element.
LEMMA PushedIs ==
  ASSUME NEW X, NEW rank \in [X -> Int], NEW h \in Seq(X), Distinct(h), HeapOrdered(h, rank),
         NEW e \in X, e \notin ToSet(h)
  PROVE  /\ Pushed(h, e, rank) \in Seq(X) /\ Distinct(Pushed(h, e, rank))
         /\ Len(Pushed(h, e, rank)) = Len(h) + 1
         /\ ToSet(Pushed(h, e, rank)) = ToSet(h) \cup {e}
         /\ HeapOrdered(Pushed(h, e, rank), rank)
<1>. DEFINE a == Append(h, e)
            n == Len(h) + 1
<1>. Len(h) \in Nat  OBVIOUS
<1>1. a \in Seq(X) /\ Len(a) = n /\ a[n] = e /\ \A p \in 1 .. Len(h) : a[p] = h[p]  OBVIOUS
<1>2. \A p \in 1 .. n : p = n \/ p \in 1 .. Len(h)  OBVIOUS
<1>3. n \in 1 .. n /\ \A p \in 1 .. Len(h) : p \in 1 .. n /\ p # n  OBVIOUS
<1>. HIDE DEF a
<1>4. DOMAIN a = 1 .. n /\ DOMAIN h = 1 .. Len(h)  BY <1>1
<1>5. ToSet(a) = ToSet(h) \cup {e}
  BY <1>1, <1>2, <1>3, <1>4 DEF ToSet
<1>6. Distinct(a)
  <2>1. \A p \in 1 .. Len(h) : h[p] # e  BY <1>4 DEF ToSet
  <2>. QED  BY <1>1, <1>2, <1>4, <2>1 DEF Distinct
<1>7. OrderedBut(a, n, rank)
  <2>. SUFFICES ASSUME NEW k \in 2 .. n
                PROVE  /\ k # n /\ k \div 2 # n => rank[a[k \div 2]] <= rank[a[k]]
                       /\ k \div 2 # n
    BY <1>1 DEF OrderedBut
  <2>1. k \div 2 < k /\ k \div 2 \in 1 .. n  BY ParentThere
  <2>2. ASSUME k # n PROVE rank[a[k \div 2]] <= rank[a[k]]
    <3>1. k \in 2 .. Len(h)  BY <2>2
    <3>2. k \div 2 \in 1 .. Len(h) /\ k \in 1 .. Len(h)  BY <3>1, ParentThere
    <3>3. rank[h[k \div 2]] <= rank[h[k]]  BY <3>1 DEF HeapOrdered
    <3>. QED  BY <1>1, <3>2, <3>3
  <2>3. k \div 2 # n  BY <2>1
  <2>. QED  BY <2>2, <2>3
<1>8. PICK g : g = FilterUp(a, n, rank)  OBVIOUS
<1>9. Rearranged(a, g, X) /\ OrderedBut(g, n, rank) /\ (n > 1 => rank[g[n \div 2]] <= rank[g[n]])
  <2>1. n \in 1 .. Len(a)  BY <1>1, <1>3
  <2>. QED  BY <1>1, <1>6, <1>7, <1>8, <2>1, FilterUpOrders
<1>10. HeapOrdered(g, rank)
  <2>. SUFFICES ASSUME NEW k \in 2 .. n PROVE rank[g[k \div 2]] <= rank[g[k]]
    BY <1>1, <1>9 DEF HeapOrdered, Rearranged
  <2>1. k \div 2 < k /\ k \div 2 \in 1 .. n  BY ParentThere
  <2>2. k \div 2 # n  BY <2>1
  <2>3. Len(g) = n  BY <1>1, <1>9 DEF Rearranged
  <2>4. CASE k = n  BY <1>9, <2>4
  <2>5. CASE k # n  BY <1>9, <2>2, <2>3, <2>5 DEF OrderedBut
  <2>. QED  BY <2>4, <2>5
<1>. QED  BY <1>1, <1>5, <1>8, <1>9, <1>10 DEF Pushed, Rearranged, a

LEMMA PosOfIs ==
  ASSUME NEW X, NEW h \in Seq(X), NEW e, e \in ToSet(h)
  PROVE  PosOf(h, e) \in 1 .. Len(h) /\ PosOf(h, e) # 0 /\ h[PosOf(h, e)] = e
<1>1. DOMAIN h = 1 .. Len(h)  OBVIOUS
<1>2. \E i \in DOMAIN h : h[i] = e  BY <1>1 DEF ToSet
<1>. QED  BY <1>1, <1>2 DEF PosOf

\* Remove takes its element.
LEMMA RemovedIs ==
  ASSUME NEW X, NEW rank \in [X -> Int], NEW h \in Seq(X), Distinct(h), HeapOrdered(h, rank),
         NEW e \in ToSet(h)
  PROVE  /\ Removed(h, e, rank) \in Seq(X) /\ Distinct(Removed(h, e, rank))
         /\ Len(Removed(h, e, rank)) = Len(h) - 1
         /\ ToSet(Removed(h, e, rank)) = ToSet(h) \ {e}
         /\ HeapOrdered(Removed(h, e, rank), rank)
<1>. Len(h) \in Nat  OBVIOUS
<1>1. PICK i \in 1 .. Len(h) : i = PosOf(h, e) /\ i # 0 /\ h[i] = e  BY PosOfIs
<1>. DEFINE n == Len(h)
            b == [h EXCEPT ![i] = h[n]]
            a == SubSeq(b, 1, n - 1)
<1>. n \in Nat /\ n >= 1 /\ n - 1 \in Nat /\ n \in 1 .. n  OBVIOUS
<1>2. b \in Seq(X) /\ Len(b) = n /\ \A p \in 1 .. n : b[p] = IF p = i THEN h[n] ELSE h[p]
  <2>1. h[n] \in X  OBVIOUS
  <2>. QED  BY <2>1
<1>. HIDE DEF b
<1>3. a \in Seq(X) /\ Len(a) = n - 1 /\ \A p \in 1 .. n - 1 : a[p] = b[p]
  BY <1>2
<1>. HIDE DEF a
<1>4. \A p \in 1 .. n - 1 : p \in 1 .. n /\ p # n /\ a[p] = IF p = i THEN h[n] ELSE h[p]
  <2>1. \A p \in 1 .. n - 1 : p \in 1 .. n /\ p # n  OBVIOUS
  <2>. HIDE DEF n
  <2>. QED  BY <1>2, <1>3, <2>1
<1>5. DOMAIN a = 1 .. n - 1 /\ DOMAIN h = 1 .. n  BY <1>3
<1>6. \A p, q \in 1 .. n : p # q => h[p] # h[q]  BY <1>5 DEF Distinct
<1>7. Distinct(a)  BY <1>4, <1>5, <1>6 DEF Distinct
<1>8. ToSet(a) = ToSet(h) \ {e}
  <2>1. \A p \in 1 .. n - 1 : \E q \in 1 .. n : q # i /\ a[p] = h[q]  BY <1>4
  <2>2. \A q \in 1 .. n : q # i => \E p \in 1 .. n - 1 : a[p] = h[q]
    <3>. SUFFICES ASSUME NEW q \in 1 .. n, q # i PROVE \E p \in 1 .. n - 1 : a[p] = h[q]  OBVIOUS
    <3>1. CASE q = n
      <4>1. i \in 1 .. n - 1  BY <3>1
      <4>. QED  BY <1>4, <3>1, <4>1
    <3>2. CASE q # n
      <4>1. q \in 1 .. n - 1  BY <3>2
      <4>. QED  BY <1>4, <4>1
    <3>. QED  BY <3>1, <3>2
  <2>3. ToSet(a) = {a[p] : p \in 1 .. n - 1} /\ ToSet(h) = {h[p] : p \in 1 .. n}  BY <1>5 DEF ToSet
  <2>4. \A q \in 1 .. n : q # i => h[q] # e  BY <1>1, <1>6
  <2>. HIDE DEF n
  <2>5. ASSUME NEW x \in ToSet(a) PROVE x \in ToSet(h) \ {e}  BY <2>1, <2>3, <2>4
  <2>6. ASSUME NEW x \in ToSet(h) \ {e} PROVE x \in ToSet(a)
    <3>1. PICK q \in 1 .. n : x = h[q]  BY <2>3
    <3>2. q # i  BY <1>1, <3>1
    <3>. QED  BY <2>2, <2>3, <3>1, <3>2
  <2>. QED  BY <2>5, <2>6
<1>9. OrderedBut(a, i, rank)
  <2>. SUFFICES ASSUME NEW k \in 2 .. n - 1
                PROVE  /\ k # i /\ k \div 2 # i => rank[a[k \div 2]] <= rank[a[k]]
                       /\ k \div 2 = i /\ i > 1 => rank[a[i \div 2]] <= rank[a[k]]
    BY <1>3 DEF OrderedBut
  <2>1. k \div 2 \in 1 .. n - 1 /\ k \in 1 .. n - 1 /\ k \div 2 < k  BY ParentThere
  <2>2. k \in 2 .. n  OBVIOUS
  <2>3. OrderedBut(h, i, rank)  BY OrderedAnywhere
  <2>4. k # i /\ k \div 2 # i => rank[a[k \div 2]] <= rank[a[k]]  BY <1>4, <2>1, <2>2, <2>3 DEF OrderedBut
  <2>5. ASSUME k \div 2 = i, i > 1 PROVE rank[a[i \div 2]] <= rank[a[k]]
    <3>1. i \in 2 .. n - 1  BY <2>1, <2>5
    <3>2. i \div 2 \in 1 .. n - 1 /\ i \div 2 < i  BY <3>1, ParentThere
    <3>3. a[i \div 2] = h[i \div 2] /\ a[k] = h[k]
      <4>1. i \div 2 # i /\ k # i  BY <2>1, <2>5, <3>2
      <4>. QED  BY <1>4, <2>1, <3>2, <4>1
    <3>. QED  BY <2>2, <2>3, <2>5, <3>3 DEF OrderedBut
  <2>. QED  BY <2>4, <2>5
<1>10. Removed(h, e, rank) = Settled(a, i, rank)
  BY <1>1 DEF Removed, a, b
<1>11. CASE i \in 1 .. n - 1
  <2>1. Rearranged(a, Settled(a, i, rank), X) /\ HeapOrdered(Settled(a, i, rank), rank)
    BY <1>3, <1>7, <1>9, <1>11, SettledIs
  <2>. QED  BY <1>3, <1>8, <1>10, <2>1 DEF Rearranged
<1>12. CASE i \notin 1 .. n - 1
  <2>1. Len(a) \in Nat /\ i \notin 1 .. Len(a)  BY <1>3, <1>12
  <2>2. Settled(a, i, rank) = a  BY <2>1, FilterUpIs, FilterDownIs DEF Settled
  <2>3. i = n  BY <1>12
  <2>4. HeapOrdered(a, rank)
    <3>. SUFFICES ASSUME NEW k \in 2 .. n - 1 PROVE rank[a[k \div 2]] <= rank[a[k]]
      BY <1>3 DEF HeapOrdered
    <3>1. k \div 2 \in 1 .. n - 1 /\ k \in 1 .. n - 1 /\ k \in 2 .. n  BY ParentThere
    <3>2. a[k \div 2] = h[k \div 2] /\ a[k] = h[k]  BY <1>4, <2>3, <3>1
    <3>. QED  BY <3>1, <3>2 DEF HeapOrdered
  <2>. QED  BY <1>3, <1>7, <1>8, <1>10, <2>2, <2>4
<1>. QED  BY <1>11, <1>12

\* Update makes the order after one rank has changed.
LEMMA UpdatedIs ==
  ASSUME NEW X, NEW rank \in [X -> Int], NEW old \in [X -> Int], NEW h \in Seq(X), Distinct(h),
         HeapOrdered(h, old), NEW e \in X, \A x \in X : x # e => rank[x] = old[x]
  PROVE  Rearranged(h, Updated(h, e, rank), X) /\ HeapOrdered(Updated(h, e, rank), rank)
<1>. Len(h) \in Nat /\ DOMAIN h = 1 .. Len(h)  OBVIOUS
<1>1. \A p \in 1 .. Len(h) : h[p] \in X  OBVIOUS
<1>2. CASE e \in ToSet(h)
  <2>1. PICK i \in 1 .. Len(h) : i = PosOf(h, e) /\ i # 0 /\ h[i] = e  BY <1>2, PosOfIs
  <2>2. \A p \in 1 .. Len(h) : p # i => h[p] # e  BY <2>1 DEF Distinct
  <2>3. \A p \in 1 .. Len(h) : p # i => rank[h[p]] = old[h[p]]  BY <1>1, <2>2
  <2>4. OrderedBut(h, i, old)  BY OrderedAnywhere
  <2>5. OrderedBut(h, i, rank)
    <3>. SUFFICES ASSUME NEW k \in 2 .. Len(h)
                  PROVE  /\ k # i /\ k \div 2 # i => rank[h[k \div 2]] <= rank[h[k]]
                         /\ k \div 2 = i /\ i > 1 => rank[h[i \div 2]] <= rank[h[k]]
      BY DEF OrderedBut
    <3>1. k \div 2 \in 1 .. Len(h) /\ k \in 1 .. Len(h) /\ k \div 2 < k  BY ParentThere
    <3>2. k # i /\ k \div 2 # i => rank[h[k \div 2]] <= rank[h[k]]  BY <2>3, <2>4, <3>1 DEF OrderedBut
    <3>3. ASSUME k \div 2 = i, i > 1 PROVE rank[h[i \div 2]] <= rank[h[k]]
      <4>1. i \in 2 .. Len(h)  BY <3>3
      <4>2. i \div 2 \in 1 .. Len(h) /\ i \div 2 < i  BY <4>1, ParentThere
      <4>3. i \div 2 # i /\ k # i  BY <3>1, <3>3, <4>2
      <4>4. old[h[i \div 2]] <= old[h[k]]  BY <2>4, <3>3 DEF OrderedBut
      <4>. QED  BY <2>3, <3>1, <4>2, <4>3, <4>4
    <3>. QED  BY <3>2, <3>3
  <2>6. Rearranged(h, Settled(h, i, rank), X) /\ HeapOrdered(Settled(h, i, rank), rank)  BY <2>5, SettledIs
  <2>. QED  BY <2>1, <2>6 DEF Updated
<1>3. CASE e \notin ToSet(h)
  <2>1. \A p \in 1 .. Len(h) : h[p] # e  BY <1>3 DEF ToSet
  <2>2. PosOf(h, e) = 0  BY <2>1 DEF PosOf
  <2>3. HeapOrdered(h, rank)
    <3>. SUFFICES ASSUME NEW k \in 2 .. Len(h) PROVE rank[h[k \div 2]] <= rank[h[k]]  BY DEF HeapOrdered
    <3>1. k \div 2 \in 1 .. Len(h) /\ k \in 1 .. Len(h)  BY ParentThere
    <3>. QED  BY <1>1, <2>1, <3>1 DEF HeapOrdered
  <2>. QED  BY <2>2, <2>3 DEF Updated, Rearranged
<1>. QED  BY <1>2, <1>3

\* The root has a least rank.
LEMMA RootIsLeast ==
  ASSUME NEW X, NEW rank \in [X -> Int], NEW h \in Seq(X), HeapOrdered(h, rank)
  PROVE  \A i \in 1 .. Len(h) : rank[h[1]] <= rank[h[i]]
<1>. Len(h) \in Nat  OBVIOUS
<1>. DEFINE S == {n \in Nat : \A i \in 1 .. Len(h) : i <= n => rank[h[1]] <= rank[h[i]]}
<1>0. \A i \in 1 .. Len(h) : rank[h[i]] \in Int  OBVIOUS
<1>1. 0 \in S  OBVIOUS
<1>2. ASSUME NEW n \in Nat, n \in S PROVE n + 1 \in S
  <2>. SUFFICES ASSUME NEW i \in 1 .. Len(h), i <= n + 1 PROVE rank[h[1]] <= rank[h[i]]  OBVIOUS
  <2>. 1 \in 1 .. Len(h)  OBVIOUS
  <2>1. CASE i = 1  BY <1>0, <2>1
  <2>2. CASE i > 1
    <3>1. i \in 2 .. Len(h)  BY <2>2
    <3>2. PICK q \in 1 .. Len(h) : q = i \div 2 /\ q < i  BY <3>1, ParentThere
    <3>3. q <= n  BY <3>2
    <3>4. rank[h[1]] <= rank[h[q]]  BY <1>2, <3>3
    <3>5. rank[h[q]] <= rank[h[i]]  BY <3>1, <3>2 DEF HeapOrdered
    <3>. QED  BY <1>0, <3>4, <3>5
  <2>. QED  BY <2>1, <2>2
<1>. HIDE DEF S
<1>3. Nat \subseteq S  BY <1>1, <1>2, AllNumbers
<1>4. Len(h) \in S  BY <1>3
<1>. QED  BY <1>4 DEF S

LEMMA TimersHeap ==
  ASSUME NEW h, NEW e, NEW rank
  PROVE  /\ Timing!Pushed(h, e, rank) = Pushed(h, e, rank)
         /\ Timing!Removed(h, e, rank) = Removed(h, e, rank)
         /\ Timing!Updated(h, e, rank) = Updated(h, e, rank)
         /\ Timing!HeapOrdered(h, rank) = HeapOrdered(h, rank)
         /\ Timing!ToSet(h) = ToSet(h)
<1>1. \A g, i : Timing!FilterUp(g, i, rank) = FilterUp(g, i, rank)
  BY DEF Timing!FilterUp, FilterUp
<1>2. \A g, i : Timing!FilterDown(g, i, rank) = FilterDown(g, i, rank)
  BY DEF Timing!FilterDown, FilterDown, Timing!LesserChild, LesserChild
<1>3. \A g, i : Timing!Settled(g, i, rank) = Settled(g, i, rank)
  BY <1>1, <1>2 DEF Timing!Settled, Settled
<1>4. \A x : Timing!PosOf(h, x) = PosOf(h, x)
  BY DEF Timing!PosOf, PosOf
<1>5. Timing!Pushed(h, e, rank) = Pushed(h, e, rank)
  BY <1>1 DEF Timing!Pushed, Pushed
<1>6. Timing!Removed(h, e, rank) = Removed(h, e, rank)
  <2>0. PICK i : i = PosOf(h, e) /\ i = Timing!PosOf(h, e)  BY <1>4
  <2>. DEFINE a == SubSeq([h EXCEPT ![i] = h[Len(h)]], 1, Len(h) - 1)
  <2>1. Timing!Removed(h, e, rank) = IF i = 0 THEN h ELSE Timing!Settled(a, i, rank)
    BY Zenon, <2>0 DEF Timing!Removed
  <2>2. Removed(h, e, rank) = IF i = 0 THEN h ELSE Settled(a, i, rank)
    BY Zenon, <2>0 DEF Removed
  <2>. HIDE DEF a
  <2>. QED  BY <1>3, <2>1, <2>2
<1>7. Timing!Updated(h, e, rank) = Updated(h, e, rank)
  BY <1>3, <1>4 DEF Timing!Updated, Updated
<1>8. Timing!HeapOrdered(h, rank) = HeapOrdered(h, rank)
  BY DEF Timing!HeapOrdered, HeapOrdered
<1>9. Timing!ToSet(h) = ToSet(h)
  BY DEF Timing!ToSet, ToSet
<1>. QED  BY <1>5, <1>6, <1>7, <1>8, <1>9

LEMMA HeapsHeap ==
  ASSUME NEW h, NEW e, NEW rank
  PROVE  /\ Heap!Pushed(h, e, rank) = Pushed(h, e, rank)
         /\ Heap!Removed(h, e, rank) = Removed(h, e, rank)
         /\ Heap!Updated(h, e, rank) = Updated(h, e, rank)
         /\ Heap!HeapOrdered(h, rank) = HeapOrdered(h, rank)
<1>1. \A g, i : Heap!FilterUp(g, i, rank) = FilterUp(g, i, rank)
  BY DEF Heap!FilterUp, FilterUp
<1>2. \A g, i : Heap!FilterDown(g, i, rank) = FilterDown(g, i, rank)
  BY DEF Heap!FilterDown, FilterDown, Heap!LesserChild, LesserChild
<1>3. \A g, i : Heap!Settled(g, i, rank) = Settled(g, i, rank)
  BY <1>1, <1>2 DEF Heap!Settled, Settled
<1>4. \A x : Heap!PosOf(h, x) = PosOf(h, x)
  BY DEF Heap!PosOf, PosOf
<1>5. Heap!Pushed(h, e, rank) = Pushed(h, e, rank)
  BY <1>1 DEF Heap!Pushed, Pushed
<1>6. Heap!Removed(h, e, rank) = Removed(h, e, rank)
  <2>0. PICK i : i = PosOf(h, e) /\ i = Heap!PosOf(h, e)  BY <1>4
  <2>. DEFINE a == SubSeq([h EXCEPT ![i] = h[Len(h)]], 1, Len(h) - 1)
  <2>1. Heap!Removed(h, e, rank) = IF i = 0 THEN h ELSE Heap!Settled(a, i, rank)
    BY Zenon, <2>0 DEF Heap!Removed
  <2>2. Removed(h, e, rank) = IF i = 0 THEN h ELSE Settled(a, i, rank)
    BY Zenon, <2>0 DEF Removed
  <2>. HIDE DEF a
  <2>. QED  BY <1>3, <2>1, <2>2
<1>7. Heap!Updated(h, e, rank) = Updated(h, e, rank)
  BY <1>3, <1>4 DEF Heap!Updated, Updated
<1>8. Heap!HeapOrdered(h, rank) = HeapOrdered(h, rank)
  BY DEF Heap!HeapOrdered, HeapOrdered
<1>. QED  BY <1>5, <1>6, <1>7, <1>8

-----------------------------------------------------------------------------
(* The heap.                                                               *)

HeapInv ==
  /\ key \in [Elements -> Keys] /\ m_pHeap \in Seq(Elements)
  /\ Distinct(m_pHeap) /\ ToSet(m_pHeap) = inside
  /\ HeapOrdered(m_pHeap, key)

\* As many places as elements.
LEMMA DistinctLength ==
  ASSUME NEW X, NEW h \in Seq(X), Distinct(h)
  PROVE  Cardinality(ToSet(h)) = Len(h)
<1>. Len(h) \in Nat /\ DOMAIN h = 1 .. Len(h)  OBVIOUS
<1>1. h \in Bijection(1 .. Len(h), ToSet(h))
  <2>1. h \in [1 .. Len(h) -> ToSet(h)]
    <3>1. h = [i \in 1 .. Len(h) |-> h[i]]  OBVIOUS
    <3>2. \A i \in 1 .. Len(h) : h[i] \in ToSet(h)  BY DEF ToSet
    <3>. QED  BY <3>1, <3>2
  <2>2. \A x \in ToSet(h) : \E i \in 1 .. Len(h) : h[i] = x  BY DEF ToSet
  <2>3. \A a, b \in 1 .. Len(h) : h[a] = h[b] => a = b  BY DEF Distinct
  <2>. QED  BY <2>1, <2>2, <2>3 DEF Bijection, Injection, Surjection, IsInjective
<1>2. IsFiniteSet(1 .. Len(h)) /\ Cardinality(1 .. Len(h)) = Len(h)
  BY FS_Interval
<1>3. ExistsBijection(1 .. Len(h), ToSet(h))  BY <1>1 DEF ExistsBijection
<1>. QED  BY <1>2, <1>3, FS_Bijection

LEMMA KeysAreNumbers ==
  ASSUME NEW f \in [Elements -> Keys]
  PROVE  f \in [Elements -> Int]
<1>1. Keys \subseteq Nat  BY MCCommonAssumption DEF Heap!MinHeapAssumption
<1>2. Keys \subseteq Int  BY <1>1
<1>3. \A e \in Elements : f[e] \in Int  BY <1>2
<1>. QED  BY <1>3

LEMMA HeapKeysAreNumbers ==
  ASSUME key \in [Elements -> Keys]
  PROVE  key \in [Elements -> Int]
BY KeysAreNumbers

LEMMA HeapInvInit == Heap!Init => HeapInv
<1>. SUFFICES ASSUME Heap!Init PROVE HeapInv  OBVIOUS
<1>1. m_pHeap = <<>> /\ key \in [Elements -> Keys] /\ inside = {}  BY DEF Heap!Init
<1>2. ToSet(m_pHeap) = {}  BY <1>1 DEF ToSet
<1>. QED  BY <1>1, <1>2 DEF HeapInv, Distinct, HeapOrdered

LEMMA HeapInvNext == HeapInv /\ [Heap!Next]_heapVars => HeapInv'
<1>. SUFFICES ASSUME HeapInv, [Heap!Next]_heapVars PROVE HeapInv'  OBVIOUS
<1>. USE DEF HeapInv
<1>. key \in [Elements -> Int]  BY HeapKeysAreNumbers
<1>1. CASE UNCHANGED heapVars
  BY <1>1 DEF heapVars, Distinct, HeapOrdered, ToSet
<1>2. ASSUME NEW e \in Elements, Heap!Push(e) PROVE HeapInv'
  <2>1. /\ e \notin inside /\ m_pHeap' = Pushed(m_pHeap, e, key)
        /\ inside' = inside \cup {e} /\ key' = key
    BY <1>2, HeapsHeap DEF Heap!Push
  <2>2. e \notin ToSet(m_pHeap)  BY <2>1
  <2>. HIDE DEF HeapInv
  <2>. QED  BY <2>1, <2>2, PushedIs DEF HeapInv
<1>3. ASSUME NEW e \in Elements, Heap!Remove(e) PROVE HeapInv'
  <2>1. /\ e \in inside /\ m_pHeap' = Removed(m_pHeap, e, key)
        /\ inside' = inside \ {e} /\ key' = key
    BY <1>3, HeapsHeap DEF Heap!Remove
  <2>2. e \in ToSet(m_pHeap)  BY <2>1
  <2>. QED  BY <2>1, <2>2, RemovedIs
<1>4. ASSUME NEW e \in Elements, Heap!Update(e) PROVE HeapInv'
  <2>1. /\ key' \in {[key EXCEPT ![e] = k] : k \in Keys}
        /\ m_pHeap' = Updated(m_pHeap, e, key') /\ inside' = inside
    BY <1>4, HeapsHeap DEF Heap!Update
  <2>2. key' \in [Elements -> Keys] /\ \A x \in Elements : x # e => key'[x] = key[x]
    BY <2>1
  <2>3. PICK k : k = key'  OBVIOUS
  <2>4. k \in [Elements -> Int]
    BY <2>2, <2>3, KeysAreNumbers
  <2>5. Rearranged(m_pHeap, Updated(m_pHeap, e, k), Elements) /\ HeapOrdered(Updated(m_pHeap, e, k), k)
    BY <2>2, <2>3, <2>4, UpdatedIs
  <2>. QED  BY <2>1, <2>2, <2>3, <2>5 DEF Rearranged
<1>. QED  BY <1>1, <1>2, <1>3, <1>4 DEF Heap!Next

\* The invariant says what the run checks.
LEMMA HeapInvSafe == HeapInv => Heap!TypeOK /\ Heap!MinIsLeast
<1>. SUFFICES ASSUME HeapInv PROVE Heap!TypeOK /\ Heap!MinIsLeast  OBVIOUS
<1>. USE DEF HeapInv
<1>. key \in [Elements -> Int]  BY HeapKeysAreNumbers
<1>1. Heap!TypeOK  BY DistinctLength DEF Heap!TypeOK, ToSet, Heap!Cardinality, Cardinality
<1>2. ASSUME m_pHeap # <<>>, NEW e \in inside PROVE key[m_pHeap[1]] <= key[e]
  <2>1. PICK i \in 1 .. Len(m_pHeap) : m_pHeap[i] = e  BY DEF ToSet
  <2>. QED  BY <2>1, RootIsLeast
<1>. QED  BY <1>1, <1>2, HeapsHeap DEF Heap!MinIsLeast

-----------------------------------------------------------------------------
(* The timers.                                                             *)

\* A sequence over the set of its elements.
LEMMA SeqOver ==
  ASSUME NEW X, NEW h \in Seq(X), NEW Y, ToSet(h) \subseteq Y
  PROVE  h \in Seq(Y)
<1>. Len(h) \in Nat /\ DOMAIN h = 1 .. Len(h)  OBVIOUS
<1>1. h = [i \in 1 .. Len(h) |-> h[i]]  OBVIOUS
<1>2. \A i \in 1 .. Len(h) : h[i] \in Y  BY DEF ToSet
<1>. QED  BY <1>1, <1>2

LEMMA AppendedIs ==
  ASSUME NEW X, NEW h \in Seq(X), NEW e \in X
  PROVE  /\ Append(h, e) \in Seq(X) /\ ToSet(Append(h, e)) = ToSet(h) \cup {e}
         /\ Distinct(h) /\ e \notin ToSet(h) => Distinct(Append(h, e))
<1>. DEFINE a == Append(h, e)
            n == Len(h) + 1
<1>. Len(h) \in Nat  OBVIOUS
<1>1. a \in Seq(X) /\ Len(a) = n /\ a[n] = e /\ \A p \in 1 .. Len(h) : a[p] = h[p]  OBVIOUS
<1>2. \A p \in 1 .. n : p = n \/ p \in 1 .. Len(h)  OBVIOUS
<1>3. n \in 1 .. n /\ \A p \in 1 .. Len(h) : p \in 1 .. n /\ p # n  OBVIOUS
<1>. HIDE DEF a
<1>4. DOMAIN a = 1 .. n /\ DOMAIN h = 1 .. Len(h)  BY <1>1
<1>5. ToSet(a) = ToSet(h) \cup {e}
  BY <1>1, <1>2, <1>3, <1>4 DEF ToSet
<1>6. ASSUME Distinct(h), e \notin ToSet(h) PROVE Distinct(a)
  <2>1. \A p \in 1 .. Len(h) : h[p] # e  BY <1>4, <1>6 DEF ToSet
  <2>. QED  BY <1>1, <1>2, <1>4, <1>6, <2>1 DEF Distinct
<1>. QED  BY <1>1, <1>5, <1>6 DEF a

\* Two sequences that have nothing in common, one after the other.
LEMMA JoinedIs ==
  ASSUME NEW X, NEW h \in Seq(X), NEW c \in Seq(X)
  PROVE  /\ h \o c \in Seq(X) /\ ToSet(h \o c) = ToSet(h) \cup ToSet(c)
         /\ Distinct(h) /\ Distinct(c) /\ ToSet(h) \cap ToSet(c) = {} => Distinct(h \o c)
<1>. DEFINE a == h \o c
            m == Len(h)
            n == Len(h) + Len(c)
<1>. Len(h) \in Nat /\ Len(c) \in Nat  OBVIOUS
<1>1. /\ a \in Seq(X) /\ Len(a) = n
      /\ \A p \in 1 .. n : a[p] = IF p <= m THEN h[p] ELSE c[p - m]
  OBVIOUS
<1>. HIDE DEF a
<1>2. DOMAIN a = 1 .. n /\ DOMAIN h = 1 .. m /\ DOMAIN c = 1 .. Len(c)  BY <1>1
<1>3. \A p \in 1 .. n : (p \in 1 .. m /\ a[p] = h[p]) \/ (p - m \in 1 .. Len(c) /\ ~(p <= m) /\ a[p] = c[p - m])
  BY <1>1
<1>4. \A p \in 1 .. m : p \in 1 .. n /\ a[p] = h[p]  BY <1>1
<1>5. \A p \in 1 .. Len(c) : p + m \in 1 .. n /\ a[p + m] = c[p]
  <2>1. \A p \in 1 .. Len(c) : p + m \in 1 .. n /\ ~(p + m <= m) /\ (p + m) - m = p  OBVIOUS
  <2>. QED  BY <1>1, <2>1
<1>6. ToSet(a) = ToSet(h) \cup ToSet(c)
  <2>1. ASSUME NEW x \in ToSet(a) PROVE x \in ToSet(h) \cup ToSet(c)  BY <1>2, <1>3 DEF ToSet
  <2>2. ASSUME NEW x \in ToSet(h) PROVE x \in ToSet(a)  BY <1>2, <1>4 DEF ToSet
  <2>3. ASSUME NEW x \in ToSet(c) PROVE x \in ToSet(a)  BY <1>2, <1>5 DEF ToSet
  <2>. QED  BY <2>1, <2>2, <2>3
<1>7. ASSUME Distinct(h), Distinct(c), ToSet(h) \cap ToSet(c) = {} PROVE Distinct(a)
  <2>. SUFFICES ASSUME NEW p \in 1 .. n, NEW q \in 1 .. n, p # q PROVE a[p] # a[q]
    BY <1>2 DEF Distinct
  <2>1. CASE p \in 1 .. m /\ q \in 1 .. m  BY <1>2, <1>4, <1>7, <2>1 DEF Distinct
  <2>2. CASE p - m \in 1 .. Len(c) /\ q - m \in 1 .. Len(c)
    <3>1. p - m # q - m /\ ~(p <= m) /\ ~(q <= m)  BY <2>2
    <3>2. a[p] = c[p - m] /\ a[q] = c[q - m]  BY <1>1, <3>1
    <3>. QED  BY <1>2, <1>7, <2>2, <3>1, <3>2 DEF Distinct
  <2>3. \A i \in 1 .. m : \A j \in 1 .. Len(c) : h[i] # c[j]  BY <1>2, <1>7 DEF ToSet
  <2>. QED  BY <1>3, <2>1, <2>2, <2>3
<1>. QED  BY <1>1, <1>6, <1>7 DEF a

\* A sequence of distinct elements of X, in the heap's order.
HeapOver(h, X, rank) == h \in Seq(X) /\ Distinct(h) /\ HeapOrdered(h, rank)

LEMMA PushedHeap ==
  ASSUME NEW X, NEW rank \in [X -> Int], NEW h, HeapOver(h, X, rank), NEW e \in X, e \notin ToSet(h)
  PROVE  HeapOver(Pushed(h, e, rank), X, rank) /\ ToSet(Pushed(h, e, rank)) = ToSet(h) \cup {e}
BY PushedIs DEF HeapOver

LEMMA RemovedHeap ==
  ASSUME NEW X, NEW rank \in [X -> Int], NEW h, HeapOver(h, X, rank), NEW e \in ToSet(h)
  PROVE  HeapOver(Removed(h, e, rank), X, rank) /\ ToSet(Removed(h, e, rank)) = ToSet(h) \ {e}
BY RemovedIs DEF HeapOver

LEMMA UpdatedHeap ==
  ASSUME NEW X, NEW rank \in [X -> Int], NEW old \in [X -> Int], NEW h, HeapOver(h, X, old),
         NEW e \in X, \A x \in X : x # e => rank[x] = old[x]
  PROVE  HeapOver(Updated(h, e, rank), X, rank) /\ ToSet(Updated(h, e, rank)) = ToSet(h)
<1>1. h \in Seq(X) /\ Distinct(h) /\ HeapOrdered(h, old)  BY DEF HeapOver
<1>2. Rearranged(h, Updated(h, e, rank), X) /\ HeapOrdered(Updated(h, e, rank), rank)
  BY <1>1, UpdatedIs
<1>. QED  BY <1>2 DEF HeapOver, Rearranged

PutAt(h, c, S, expiry, put, k) ==
  IF k = 0 THEN h
  ELSE IF c[Len(c) + 1 - k] \in S
       THEN Pushed(put[k - 1], c[Len(c) + 1 - k], expiry) ELSE put[k - 1]

PutTo(h, c, S, expiry, put, L) == put = [k \in 0 .. L |-> PutAt(h, c, S, expiry, put, k)]

LEMMA PutIsThere ==
  ASSUME NEW h, NEW c, NEW S, NEW expiry, NEW L \in Nat
  PROVE  \E put : PutTo(h, c, S, expiry, put, L)
<1>. DEFINE T == {n \in Nat : \E put : put = [k \in 0 .. n |-> PutAt(h, c, S, expiry, put, k)]}
<1>1. 0 \in T
  <2>. DEFINE f == [k \in 0 .. 0 |-> h]
  <2>1. \A k \in 0 .. 0 : PutAt(h, c, S, expiry, f, k) = h  BY DEF PutAt
  <2>2. f = [k \in 0 .. 0 |-> PutAt(h, c, S, expiry, f, k)]  BY <2>1
  <2>. QED  BY <2>2
<1>2. ASSUME NEW n \in Nat, n \in T PROVE n + 1 \in T
  <2>1. PICK f : f = [k \in 0 .. n |-> PutAt(h, c, S, expiry, f, k)]  BY <1>2
  <2>. DEFINE g == [k \in 0 .. n + 1 |-> PutAt(h, c, S, expiry, f, k)]
  <2>2. \A k \in 0 .. n : g[k] = f[k]
    <3>1. \A k \in 0 .. n : k \in 0 .. n + 1  OBVIOUS
    <3>2. \A k \in 0 .. n : f[k] = PutAt(h, c, S, expiry, f, k)  BY <2>1
    <3>. QED  BY <3>1, <3>2
  <2>3. ASSUME NEW k \in 0 .. n + 1 PROVE PutAt(h, c, S, expiry, f, k) = PutAt(h, c, S, expiry, g, k)
    <3>1. k # 0 => k - 1 \in 0 .. n  OBVIOUS
    <3>2. k # 0 => f[k - 1] = g[k - 1]  BY <2>2, <3>1
    <3>. HIDE DEF g
    <3>. QED  BY <3>2 DEF PutAt
  <2>4. g = [k \in 0 .. n + 1 |-> PutAt(h, c, S, expiry, g, k)]
    <3>1. g = [k \in 0 .. n + 1 |-> PutAt(h, c, S, expiry, f, k)]  OBVIOUS
    <3>. HIDE DEF g
    <3>. QED  BY <2>3, <3>1
  <2>5. n + 1 \in Nat  OBVIOUS
  <2>. QED  BY <2>4, <2>5
<1>. HIDE DEF T
<1>3. Nat \subseteq T  BY <1>1, <1>2, AllNumbers
<1>. QED  BY <1>3 DEF T, PutTo

\* The end of the pass puts back those of S, and nothing else, in order.
LEMMA PutBackIs ==
  ASSUME NEW X, NEW expiry \in [X -> Int], NEW h, HeapOver(h, X, expiry),
         NEW c \in Seq(X), Distinct(c), ToSet(h) \cap ToSet(c) = {}, NEW S
  PROVE  /\ HeapOver(Timing!PutBack(h, c, S, expiry), X, expiry)
         /\ ToSet(Timing!PutBack(h, c, S, expiry)) = ToSet(h) \cup (ToSet(c) \cap S)
<1>. Len(c) \in Nat /\ DOMAIN c = 1 .. Len(c)  OBVIOUS
<1>. DEFINE f == CHOOSE put : PutTo(h, c, S, expiry, put, Len(c))
<1>1. PutTo(h, c, S, expiry, f, Len(c)) /\ Timing!PutBack(h, c, S, expiry) = f[Len(c)]
  <2>1. \E put : PutTo(h, c, S, expiry, put, Len(c))  BY PutIsThere
  <2>2. PutTo(h, c, S, expiry, f, Len(c))  BY <2>1
  <2>3. Timing!PutBack(h, c, S, expiry) = f[Len(c)]
    BY DEF Timing!PutBack, PutTo, PutAt, Timing!Pushed, Pushed, Timing!FilterUp, FilterUp
  <2>. QED  BY <2>2, <2>3
<1>. HIDE DEF f
<1>2. PICK put : PutTo(h, c, S, expiry, put, Len(c)) /\ Timing!PutBack(h, c, S, expiry) = put[Len(c)]
  BY <1>1
<1>3. put = [k \in 0 .. Len(c) |-> PutAt(h, c, S, expiry, put, k)]  BY <1>2 DEF PutTo
<1>. DEFINE Back(k) == {c[Len(c) + 1 - q] : q \in 1 .. k}
            Good(k) == HeapOver(put[k], X, expiry) /\ ToSet(put[k]) = ToSet(h) \cup (Back(k) \cap S)
            T == {k \in Nat : k <= Len(c) => Good(k)}
<1>4. 0 \in T
  <2>1. put[0] = h  BY <1>3 DEF PutAt
  <2>2. Back(0) = {}  OBVIOUS
  <2>. QED  BY <2>1, <2>2
<1>5. ASSUME NEW n \in Nat, n \in T PROVE n + 1 \in T
  <2>. SUFFICES ASSUME n + 1 <= Len(c) PROVE Good(n + 1)  OBVIOUS
  <2>1. Good(n)
    <3>. n <= Len(c)  OBVIOUS
    <3>. HIDE DEF Good
    <3>. QED  BY <1>5
  <2>2. PICK p \in 1 .. Len(c) : p = Len(c) + 1 - (n + 1)  OBVIOUS
  <2>3. n + 1 \in 0 .. Len(c) /\ n + 1 # 0 /\ (n + 1) - 1 = n  OBVIOUS
  <2>4. put[n + 1] = IF c[p] \in S THEN Pushed(put[n], c[p], expiry) ELSE put[n]
    BY <1>3, <2>2, <2>3 DEF PutAt
  <2>5. Back(n + 1) = Back(n) \cup {c[p]}
    <3>1. \A q \in 1 .. n + 1 : q \in 1 .. n \/ q = n + 1  OBVIOUS
    <3>2. \A q \in 1 .. n : q \in 1 .. n + 1  OBVIOUS
    <3>3. n + 1 \in 1 .. n + 1  OBVIOUS
    <3>. QED  BY <2>2, <3>1, <3>2, <3>3
  <2>6. c[p] \notin Back(n)
    <3>1. \A q \in 1 .. n : Len(c) + 1 - q \in 1 .. Len(c) /\ Len(c) + 1 - q # p  BY <2>2
    <3>. QED  BY <3>1 DEF Distinct
  <2>. HIDE DEF Back
  <2>7. c[p] \in X /\ c[p] \in ToSet(c)
    <3>1. c[p] \in X  OBVIOUS
    <3>2. c[p] \in ToSet(c)  BY DEF ToSet
    <3>. QED  BY <3>1, <3>2
  <2>8. CASE c[p] \in S
    <3>1. c[p] \notin ToSet(put[n])  BY <2>1, <2>6, <2>7
    <3>2. HeapOver(put[n + 1], X, expiry) /\ ToSet(put[n + 1]) = ToSet(put[n]) \cup {c[p]}
      BY <2>1, <2>4, <2>7, <2>8, <3>1, PushedHeap
    <3>. QED  BY <2>1, <2>5, <2>8, <3>2
  <2>9. CASE c[p] \notin S  BY <2>1, <2>4, <2>5, <2>9
  <2>. QED  BY <2>8, <2>9
<1>6. Good(Len(c))
  <2>. HIDE DEF T, Good
  <2>1. Nat \subseteq T  BY <1>4, <1>5, AllNumbers
  <2>2. Len(c) \in T  BY <2>1
  <2>. QED  BY <2>2 DEF T
<1>7. Back(Len(c)) = ToSet(c)
  <2>1. \A q \in 1 .. Len(c) : Len(c) + 1 - q \in 1 .. Len(c)  OBVIOUS
  <2>2. \A p \in 1 .. Len(c) : Len(c) + 1 - p \in 1 .. Len(c) /\ Len(c) + 1 - (Len(c) + 1 - p) = p  OBVIOUS
  <2>. QED  BY <2>1, <2>2 DEF ToSet
<1>. QED  BY <1>2, <1>6, <1>7

InHeap  == ToSet(m_oTimerHeap)
InCache == ToSet(m_oTimerCache)

TimerTypes ==
  /\ clock \in 0..MaxTime /\ nNowMS \in 0..clock /\ count \in 0..MaxTimers
  /\ m_oTimerCache \in Seq(Timing!Timers) /\ Distinct(m_oTimerCache)
  /\ ran \in Seq(Timing!Timers) /\ Distinct(ran)
  /\ m_nExpireTime \in [Timing!Timers -> Int]
  /\ m_uTimerTime \in [Timing!Timers -> Delays \cup {0}]
  /\ m_bCancel \in [Timing!Timers -> BOOLEAN]
  /\ freed \subseteq 1..count /\ due \subseteq 1..count /\ marked \subseteq 1..count
  /\ step \in {"idle", "loop", "callback"}
  /\ poTimer \in Timing!Timers \cup {0} /\ (step = "callback" <=> poTimer # 0)

\* Every timer in one place; the map has those not cancelled.
Placed ==
  /\ HeapOver(m_oTimerHeap, Timing!Timers, m_nExpireTime)
  /\ InHeap \cap InCache = {} /\ InHeap \cup InCache = 1..count \ freed
  /\ m_oTimerMap = [i \in Timing!Ids |-> IF i \in 1..count /\ ~m_bCancel[i] THEN i ELSE 0]
  /\ \A t \in Timing!Timers : m_bCancel[t] => t \in 1..count

\* A timer marked for removal is due at once.
MarkedAreDue == \A t \in InHeap : m_bCancel[t] => m_nExpireTime[t] <= clock

\* What is left of the pass: nothing runs that was not due, and what was due,
\* or marked, and is not done with is still to come to the head of the heap.
PassGoesOn ==
  /\ ToSet(ran) \subseteq due
  /\ step = "idle" => /\ due \subseteq ToSet(ran) \cup {t \in Timing!Timers : m_bCancel[t]}
                      /\ marked \subseteq freed
  /\ step # "idle" =>
       /\ ToSet(ran) \subseteq InCache \cup {poTimer}
       /\ poTimer # 0 => poTimer \in InHeap /\ poTimer \in ToSet(ran)
       /\ \A t \in InHeap : ~m_bCancel[t] /\ m_nExpireTime[t] <= nNowMS => t \in due
       /\ \A t \in due : \/ m_bCancel[t] \/ t \in ToSet(ran)
                         \/ t \in InHeap /\ m_nExpireTime[t] <= nNowMS
       /\ \A t \in marked : /\ m_bCancel[t]
                            /\ \/ t \in freed \cup InCache
                               \/ t \in InHeap /\ m_nExpireTime[t] <= nNowMS

TimerInv == TimerTypes /\ Placed /\ MarkedAreDue /\ PassGoesOn

LEMMA TimerBounds ==
  /\ Delays \subseteq Nat \ {0} /\ Early \in Nat /\ MaxId \in Nat \ {0} /\ MaxTimers \in Nat /\ MaxTime \in Nat
  /\ Timing!Timers = 1 .. MaxTimers /\ Timing!Ids = 1 .. MaxId
<1>1. Timing!TimerMgrAssumption  BY MCCommonAssumption
<1>. QED  BY <1>1 DEF Timing!TimerMgrAssumption, Timing!Timers, Timing!Ids

LEMMA TimerInvInit == Timing!Init => TimerInv
<1>. SUFFICES ASSUME Timing!Init PROVE TimerInv  OBVIOUS
<1>. USE TimerBounds
<1>1. /\ clock = 0 /\ count = 0 /\ m_oTimerHeap = <<>> /\ m_oTimerMap = [i \in Timing!Ids |-> 0]
      /\ m_oTimerCache = <<>> /\ m_nExpireTime = [t \in Timing!Timers |-> 0]
      /\ m_uTimerTime = [t \in Timing!Timers |-> 0] /\ m_bCancel = [t \in Timing!Timers |-> FALSE]
      /\ freed = {} /\ step = "idle" /\ nNowMS = 0 /\ poTimer = 0 /\ ran = <<>> /\ due = {} /\ marked = {}
  BY DEF Timing!Init
<1>2. ToSet(m_oTimerHeap) = {} /\ ToSet(m_oTimerCache) = {} /\ ToSet(ran) = {}
  BY <1>1 DEF ToSet
<1>3. Distinct(m_oTimerHeap) /\ Distinct(m_oTimerCache) /\ Distinct(ran)  BY <1>1 DEF Distinct
<1>4. TimerTypes  BY <1>1, <1>3 DEF TimerTypes
<1>5. HeapOver(m_oTimerHeap, Timing!Timers, m_nExpireTime)  BY <1>1, <1>3 DEF HeapOver, HeapOrdered
<1>6. Placed  BY <1>1, <1>2, <1>5 DEF Placed, InHeap, InCache
<1>. QED  BY <1>1, <1>2, <1>4, <1>6 DEF TimerInv, MarkedAreDue, PassGoesOn, InHeap, InCache

LEMMA RegisterTimerInv ==
  ASSUME MaxTimers <= MaxId, TimerInv, NEW d \in Delays, Timing!RegisterTimer(d)
  PROVE  TimerInv'
<1>. USE TimerBounds
<1>1. PICK t \in Timing!Timers : t = count + 1
  BY DEF Timing!RegisterTimer, TimerInv, TimerTypes
<1>2. /\ step # "loop" /\ count < MaxTimers /\ count' = t
      /\ m_nExpireTime' = [m_nExpireTime EXCEPT ![t] = clock + d]
      /\ m_uTimerTime' = [m_uTimerTime EXCEPT ![t] = d]
      /\ m_oTimerHeap' = Pushed(m_oTimerHeap, t, m_nExpireTime')
      /\ m_oTimerMap' = [m_oTimerMap EXCEPT ![Timing!TimerId(t)] = t]
  BY <1>1, TimersHeap DEF Timing!RegisterTimer, Timing!FirstExpiry
<1>3. UNCHANGED <<clock, m_bCancel, m_oTimerCache, freed, step, nNowMS, poTimer, ran, due, marked>>
  BY DEF Timing!RegisterTimer, Timing!pass
<1>4. Timing!TimerId(t) = t /\ t \in Timing!Ids
  BY DEF Timing!TimerId
<1>5. PICK rank : rank = m_nExpireTime'  OBVIOUS
<1>6. rank \in [Timing!Timers -> Int] /\ rank[t] = clock + d /\ \A x \in Timing!Timers : x # t => rank[x] = m_nExpireTime[x]
  BY <1>2, <1>5 DEF TimerInv, TimerTypes
<1>7. t \notin 1 .. count /\ 1 .. t = (1 .. count) \cup {t}
  BY <1>1 DEF TimerInv, TimerTypes
<1>8. t \notin InHeap /\ t \notin InCache /\ ~m_bCancel[t] /\ t \notin freed /\ t \notin marked /\ t \notin due
  BY <1>7 DEF TimerInv, TimerTypes, Placed
<1>9. HeapOver(m_oTimerHeap, Timing!Timers, rank)
  <2>1. \A i \in 1 .. Len(m_oTimerHeap) : m_oTimerHeap[i] \in Timing!Timers /\ m_oTimerHeap[i] # t
    BY <1>8 DEF TimerInv, Placed, HeapOver, InHeap, ToSet
  <2>2. \A i \in 2 .. Len(m_oTimerHeap) : i \div 2 \in 1 .. Len(m_oTimerHeap) /\ i \in 1 .. Len(m_oTimerHeap)
    BY ParentThere DEF TimerInv, Placed, HeapOver
  <2>. QED  BY <1>6, <2>1, <2>2 DEF TimerInv, Placed, HeapOver, HeapOrdered
<1>10. HeapOver(m_oTimerHeap', Timing!Timers, m_nExpireTime') /\ InHeap' = InHeap \cup {t}
  <2>1. t \notin ToSet(m_oTimerHeap)  BY <1>8 DEF InHeap
  <2>2. m_oTimerHeap' = Pushed(m_oTimerHeap, t, rank)  BY <1>2, <1>5
  <2>3. /\ HeapOver(Pushed(m_oTimerHeap, t, rank), Timing!Timers, rank)
        /\ ToSet(Pushed(m_oTimerHeap, t, rank)) = ToSet(m_oTimerHeap) \cup {t}
    BY <1>6, <1>9, <2>1, PushedHeap
  <2>. QED  BY <1>5, <2>2, <2>3 DEF InHeap
<1>11. InCache' = InCache  BY <1>3 DEF InCache
<1>12. TimerTypes'
  BY <1>2, <1>3, <1>5, <1>6, <1>7 DEF TimerInv, TimerTypes
<1>13. Placed'
  <2>1. m_oTimerMap' = [i \in Timing!Ids |-> IF i \in 1 .. t /\ ~m_bCancel[i] THEN i ELSE 0]
    BY <1>2, <1>4, <1>7, <1>8 DEF TimerInv, Placed
  <2>2. InHeap' \cap InCache' = {} /\ InHeap' \cup InCache' = 1 .. t \ freed
    BY <1>7, <1>8, <1>10, <1>11 DEF TimerInv, Placed
  <2>3. \A x \in Timing!Timers : m_bCancel[x] => x \in 1 .. t
    BY <1>7 DEF TimerInv, Placed
  <2>. QED  BY <1>2, <1>3, <1>10, <2>1, <2>2, <2>3 DEF Placed
<1>14. \A x \in InHeap : x \in Timing!Timers /\ x # t
  BY <1>8 DEF TimerInv, TimerTypes, Placed
<1>15. MarkedAreDue'
  BY <1>3, <1>5, <1>6, <1>8, <1>10, <1>14 DEF TimerInv, MarkedAreDue
<1>16. ~(rank[t] <= nNowMS)
  BY <1>6 DEF TimerInv, TimerTypes
<1>17. PassGoesOn'
  <2>1. \A x \in InHeap' : x = t \/ (x \in InHeap /\ m_nExpireTime'[x] = m_nExpireTime[x])
    BY <1>5, <1>6, <1>10, <1>14
  <2>2. \A x \in InHeap : x \in InHeap' /\ m_nExpireTime'[x] = m_nExpireTime[x]
    BY <1>5, <1>6, <1>10, <1>14
  <2>3. ~(m_nExpireTime'[t] <= nNowMS)  BY <1>5, <1>16
  <2>. QED  BY <1>3, <1>11, <2>1, <2>2, <2>3 DEF TimerInv, PassGoesOn
<1>. QED  BY <1>12, <1>13, <1>15, <1>17 DEF TimerInv

LEMMA RemoveTimerInv ==
  ASSUME MaxTimers <= MaxId, TimerInv, NEW id \in Timing!Ids, Timing!RemoveTimer(id)
  PROVE  TimerInv'
<1>. USE TimerBounds
<1>1. PICK t : t = m_oTimerMap[id]  OBVIOUS
<1>2. t = id /\ t \in 1 .. count /\ t \in Timing!Timers /\ ~m_bCancel[t] /\ step # "loop"
  BY <1>1 DEF Timing!RemoveTimer, TimerInv, TimerTypes, Placed
<1>3. /\ m_oTimerMap' = [m_oTimerMap EXCEPT ![id] = 0]
      /\ m_bCancel' = [m_bCancel EXCEPT ![t] = TRUE]
      /\ m_nExpireTime' = [m_nExpireTime EXCEPT ![t] = clock - Early]
      /\ m_oTimerHeap' = Updated(m_oTimerHeap, t, m_nExpireTime')
  BY <1>1, TimersHeap DEF Timing!RemoveTimer, Timing!MarkedExpiry, Timing!Requeued
<1>4. UNCHANGED <<clock, count, m_uTimerTime, m_oTimerCache, freed, step, nNowMS, poTimer, ran, due, marked>>
  BY DEF Timing!RemoveTimer, Timing!pass
<1>5. PICK rank : rank = m_nExpireTime'  OBVIOUS
<1>6. rank \in [Timing!Timers -> Int] /\ rank[t] = clock - Early /\ \A x \in Timing!Timers : x # t => rank[x] = m_nExpireTime[x]
  BY <1>2, <1>3, <1>5 DEF TimerInv, TimerTypes
<1>7. HeapOver(m_oTimerHeap', Timing!Timers, m_nExpireTime') /\ InHeap' = InHeap
  <2>1. m_nExpireTime \in [Timing!Timers -> Int] /\ HeapOver(m_oTimerHeap, Timing!Timers, m_nExpireTime)
    BY DEF TimerInv, TimerTypes, Placed
  <2>2. m_oTimerHeap' = Updated(m_oTimerHeap, t, rank)  BY <1>3, <1>5
  <2>3. /\ HeapOver(Updated(m_oTimerHeap, t, rank), Timing!Timers, rank)
        /\ ToSet(Updated(m_oTimerHeap, t, rank)) = ToSet(m_oTimerHeap)
    BY <1>2, <1>6, <2>1, UpdatedHeap
  <2>. QED  BY <1>5, <2>2, <2>3 DEF InHeap
<1>8. InCache' = InCache  BY <1>4 DEF InCache
<1>9. m_bCancel' \in [Timing!Timers -> BOOLEAN] /\ m_bCancel'[t] /\ \A x \in Timing!Timers : x # t => m_bCancel'[x] = m_bCancel[x]
  BY <1>2, <1>3 DEF TimerInv, TimerTypes
<1>10. TimerTypes'
  BY <1>4, <1>5, <1>6, <1>9 DEF TimerInv, TimerTypes
<1>11. Placed'
  <2>1. m_oTimerMap' = [i \in Timing!Ids |-> IF i \in 1 .. count /\ ~m_bCancel'[i] THEN i ELSE 0]
    <3>1. \A i \in 1 .. count : i \in Timing!Timers  BY DEF TimerInv, TimerTypes
    <3>. QED  BY <1>2, <1>3, <1>9, <3>1 DEF TimerInv, Placed
  <2>. QED  BY <1>2, <1>4, <1>7, <1>8, <1>9, <2>1 DEF TimerInv, Placed
<1>12. \A x \in 1 .. count : x \in Timing!Timers  BY DEF TimerInv, TimerTypes
<1>13. InHeap \subseteq 1 .. count /\ due \subseteq 1 .. count /\ marked \subseteq 1 .. count
  BY DEF TimerInv, TimerTypes, Placed
<1>14. rank[t] <= clock  BY <1>6 DEF TimerInv, TimerTypes
<1>15. MarkedAreDue'
  <2>. SUFFICES ASSUME NEW x \in InHeap, m_bCancel'[x] PROVE m_nExpireTime'[x] <= clock
    BY <1>4, <1>7 DEF MarkedAreDue
  <2>1. CASE x = t  BY <1>5, <1>14, <2>1
  <2>2. CASE x # t  BY <1>5, <1>6, <1>9, <1>12, <1>13, <2>2 DEF TimerInv, MarkedAreDue
  <2>. QED  BY <2>1, <2>2
<1>16. PassGoesOn'
  <2>1. \A x \in 1 .. count : x = t \/ (m_nExpireTime'[x] = m_nExpireTime[x] /\ m_bCancel'[x] = m_bCancel[x])
    BY <1>5, <1>6, <1>9, <1>12
  <2>2. \A x \in 1 .. count : m_bCancel[x] => m_bCancel'[x]
    BY <1>9, <1>12
  <2>3. ToSet(ran)' \subseteq due'  BY <1>4 DEF TimerInv, PassGoesOn
  <2>4. CASE step = "idle"
    <3>1. marked' \subseteq freed'  BY <1>4, <2>4 DEF TimerInv, PassGoesOn
    <3>2. due \subseteq ToSet(ran) \cup {x \in Timing!Timers : m_bCancel[x]}  BY <2>4 DEF TimerInv, PassGoesOn
    <3>3. due \subseteq ToSet(ran) \cup {x \in Timing!Timers : m_bCancel'[x]}  BY <1>13, <2>2, <3>2
    <3>. QED  BY <1>4, <2>3, <2>4, <3>1, <3>3 DEF PassGoesOn
  <2>5. CASE step # "idle"
    <3>1. ToSet(ran) \subseteq InCache \cup {poTimer} /\ (poTimer # 0 => poTimer \in InHeap /\ poTimer \in ToSet(ran))
      BY <2>5 DEF TimerInv, PassGoesOn
    <3>2. \A x \in InHeap : ~m_bCancel'[x] /\ m_nExpireTime'[x] <= nNowMS => x \in due
      BY <1>9, <1>13, <2>1, <2>5 DEF TimerInv, PassGoesOn
    <3>3. \A x \in due : \/ m_bCancel'[x] \/ x \in ToSet(ran)
                         \/ x \in InHeap /\ m_nExpireTime'[x] <= nNowMS
      BY <1>9, <1>13, <2>1, <2>5 DEF TimerInv, PassGoesOn
    <3>4. \A x \in marked : /\ m_bCancel'[x]
                            /\ \/ x \in freed \cup InCache
                               \/ x \in InHeap /\ m_nExpireTime'[x] <= nNowMS
      BY <1>2, <1>9, <1>13, <2>1, <2>5 DEF TimerInv, PassGoesOn
    <3>. QED  BY <1>4, <1>7, <1>8, <2>3, <2>5, <3>1, <3>2, <3>3, <3>4 DEF PassGoesOn
  <2>. QED  BY <2>4, <2>5
<1>. QED  BY <1>10, <1>11, <1>15, <1>16 DEF TimerInv

LEMMA ExecuteTimerInv ==
  ASSUME TimerInv, Timing!ExecuteTimer
  PROVE  TimerInv'
<1>. USE TimerBounds
<1>1. /\ step = "idle" /\ step' = "loop" /\ nNowMS' = clock /\ ran' = <<>>
      /\ due' = {t \in InHeap : ~m_bCancel[t] /\ m_nExpireTime[t] <= clock}
      /\ marked' = {t \in InHeap : m_bCancel[t]}
  BY DEF Timing!ExecuteTimer, Timing!Held, InHeap, ToSet
<1>2. UNCHANGED <<clock, count, m_oTimerHeap, m_oTimerMap, m_nExpireTime, m_uTimerTime, m_bCancel,
                  m_oTimerCache, freed, poTimer>>
  BY DEF Timing!ExecuteTimer, Timing!store
<1>3. ToSet(ran)' = {} /\ Distinct(ran)'  BY <1>1 DEF ToSet, Distinct
<1>4. InHeap' = InHeap /\ InCache' = InCache  BY <1>2 DEF InHeap, InCache
<1>5. poTimer = 0  BY <1>1 DEF TimerInv, TimerTypes
<1>6. InHeap \subseteq 1 .. count  BY DEF TimerInv, Placed
<1>7. TimerTypes'
  <2>1. due' \subseteq 1 .. count /\ marked' \subseteq 1 .. count  BY <1>1, <1>6
  <2>2. ran' \in Seq(Timing!Timers)  BY <1>1
  <2>. QED  BY <1>1, <1>2, <1>3, <1>5, <2>1, <2>2 DEF TimerInv, TimerTypes
<1>8. Placed'  BY <1>2, <1>4 DEF TimerInv, Placed
<1>9. MarkedAreDue'  BY <1>2, <1>4 DEF TimerInv, MarkedAreDue
<1>10. PassGoesOn'
  BY <1>1, <1>2, <1>3, <1>4, <1>5 DEF TimerInv, PassGoesOn, MarkedAreDue
<1>. QED  BY <1>7, <1>8, <1>9, <1>10 DEF TimerInv

LEMMA HeadIs ==
  ASSUME TimerInv, NEW t, Timing!AtHead(t)
  PROVE  t \in InHeap /\ t \in Timing!Timers /\ m_nExpireTime[t] <= nNowMS
<1>. USE TimerBounds
<1>1. m_oTimerHeap # <<>> /\ m_oTimerHeap[1] = t /\ m_nExpireTime[t] <= nNowMS
  BY DEF Timing!AtHead, Timing!IsDue
<1>2. m_oTimerHeap \in Seq(Timing!Timers)  BY DEF TimerInv, Placed, HeapOver
<1>3. 1 \in DOMAIN m_oTimerHeap  BY <1>1, <1>2
<1>. QED  BY <1>1, <1>2, <1>3 DEF InHeap, ToSet

LEMMA ExecuteInv ==
  ASSUME TimerInv, NEW t, Timing!Execute(t)
  PROVE  TimerInv' /\ t \in 1 .. count /\ ~m_bCancel[t] /\ ran' = Append(ran, t)
<1>. USE TimerBounds
<1>1. /\ step = "loop" /\ Timing!AtHead(t) /\ ~m_bCancel[t]
      /\ step' = "callback" /\ poTimer' = t /\ ran' = Append(ran, t)
  BY DEF Timing!Execute, Timing!Runs
<1>2. UNCHANGED <<clock, count, m_oTimerHeap, m_oTimerMap, m_nExpireTime, m_uTimerTime, m_bCancel,
                  m_oTimerCache, freed, nNowMS, due, marked>>
  BY DEF Timing!Execute, Timing!store
<1>3. t \in InHeap /\ t \in Timing!Timers /\ m_nExpireTime[t] <= nNowMS  BY <1>1, HeadIs
<1>4. t \in due /\ poTimer = 0 /\ t # 0  BY <1>1, <1>3 DEF TimerInv, TimerTypes, PassGoesOn
<1>5. t \notin ToSet(ran)  BY <1>1, <1>3, <1>4 DEF TimerInv, Placed, PassGoesOn
<1>6. ran' \in Seq(Timing!Timers) /\ ToSet(ran)' = ToSet(ran) \cup {t} /\ Distinct(ran)'
  BY <1>1, <1>3, <1>5, AppendedIs DEF TimerInv, TimerTypes
<1>7. InHeap' = InHeap /\ InCache' = InCache  BY <1>2 DEF InHeap, InCache
<1>8. TimerTypes'  BY <1>1, <1>2, <1>3, <1>4, <1>6 DEF TimerInv, TimerTypes
<1>9. Placed'  BY <1>2, <1>7 DEF TimerInv, Placed
<1>10. MarkedAreDue'  BY <1>2, <1>7 DEF TimerInv, MarkedAreDue
<1>11. PassGoesOn'
  <2>1. ToSet(ran) \subseteq due /\ ToSet(ran) \subseteq InCache \cup {poTimer}
    BY <1>1 DEF TimerInv, PassGoesOn
  <2>2. ToSet(ran)' \subseteq due' /\ ToSet(ran)' \subseteq InCache' \cup {poTimer'}
    <3>1. 0 \notin ToSet(ran)  BY <2>1 DEF TimerInv, TimerTypes
    <3>. QED  BY <1>1, <1>2, <1>4, <1>6, <1>7, <2>1, <3>1
  <2>3. \A x \in InHeap : ~m_bCancel[x] /\ m_nExpireTime[x] <= nNowMS => x \in due
    BY <1>1 DEF TimerInv, PassGoesOn
  <2>4. \A x \in due : \/ m_bCancel[x] \/ x \in ToSet(ran) \cup {t}
                       \/ x \in InHeap /\ m_nExpireTime[x] <= nNowMS
    BY <1>1 DEF TimerInv, PassGoesOn
  <2>5. \A x \in marked : /\ m_bCancel[x]
                          /\ \/ x \in freed \cup InCache
                             \/ x \in InHeap /\ m_nExpireTime[x] <= nNowMS
    BY <1>1 DEF TimerInv, PassGoesOn
  <2>6. poTimer' \in InHeap' /\ poTimer' \in ToSet(ran)' /\ step' # "idle"  BY <1>1, <1>3, <1>6, <1>7
  <2>. QED  BY <1>2, <1>6, <1>7, <2>2, <2>3, <2>4, <2>5, <2>6 DEF PassGoesOn
<1>12. t \in 1 .. count  BY <1>3 DEF TimerInv, Placed
<1>. QED  BY <1>1, <1>8, <1>9, <1>10, <1>11, <1>12 DEF TimerInv

\* From the heap to the cache, what it keeps.
LEMMA SetAsideInv ==
  ASSUME TimerInv, NEW t \in InHeap, Timing!SetAside(t), step # "idle", step' = "loop", poTimer' = 0,
         t \in ToSet(ran) \/ m_bCancel[t], poTimer \in {0, t}
  PROVE  TimerInv'
<1>. USE TimerBounds
<1>1. m_oTimerCache' = Append(m_oTimerCache, t) /\ m_oTimerHeap' = Removed(m_oTimerHeap, t, m_nExpireTime)
  BY TimersHeap DEF Timing!SetAside
<1>2. UNCHANGED <<clock, count, m_oTimerMap, m_nExpireTime, m_uTimerTime, m_bCancel, freed, nNowMS,
                  ran, due, marked>>
  BY DEF Timing!SetAside
<1>3. t \in Timing!Timers /\ t \notin InCache
  BY DEF TimerInv, TimerTypes, Placed
<1>4. HeapOver(m_oTimerHeap', Timing!Timers, m_nExpireTime) /\ InHeap' = InHeap \ {t}
  <2>1. HeapOver(m_oTimerHeap, Timing!Timers, m_nExpireTime) /\ m_nExpireTime \in [Timing!Timers -> Int]
    BY DEF TimerInv, TimerTypes, Placed
  <2>. QED  BY <1>1, <2>1, RemovedHeap DEF InHeap
<1>5. m_oTimerCache' \in Seq(Timing!Timers) /\ InCache' = InCache \cup {t} /\ Distinct(m_oTimerCache')
  BY <1>1, <1>3, AppendedIs DEF TimerInv, TimerTypes, InCache
<1>6. TimerTypes'  BY <1>2, <1>5 DEF TimerInv, TimerTypes
<1>7. Placed'
  <2>1. InHeap' \cap InCache' = {} /\ InHeap' \cup InCache' = 1 .. count \ freed
    BY <1>4, <1>5 DEF TimerInv, Placed
  <2>. QED  BY <1>2, <1>4, <2>1 DEF TimerInv, Placed
<1>8. MarkedAreDue'  BY <1>2, <1>4 DEF TimerInv, MarkedAreDue
<1>9. PassGoesOn'
  BY <1>2, <1>4, <1>5 DEF TimerInv, PassGoesOn
<1>. QED  BY <1>6, <1>7, <1>8, <1>9 DEF TimerInv

LEMMA CallbackReturnsInv ==
  ASSUME TimerInv, Timing!CallbackReturns
  PROVE  TimerInv'
<1>1. step = "callback" /\ step' = "loop" /\ poTimer' = 0 /\ Timing!SetAside(poTimer)
  BY DEF Timing!CallbackReturns
<1>2. poTimer \in InHeap /\ poTimer \in ToSet(ran)
  BY <1>1 DEF TimerInv, TimerTypes, PassGoesOn
<1>. QED  BY <1>1, <1>2, SetAsideInv

LEMMA SkipCancelledInv ==
  ASSUME TimerInv, NEW t, Timing!SkipCancelled(t)
  PROVE  TimerInv'
<1>1. step = "loop" /\ Timing!AtHead(t) /\ m_bCancel[t] /\ Timing!SetAside(t) /\ step' = step /\ poTimer' = poTimer
  BY HeadIs DEF Timing!SkipCancelled, Timing!Runs, TimerInv, TimerTypes
<1>2. t \in InHeap  BY <1>1, HeadIs
<1>3. poTimer = 0  BY <1>1 DEF TimerInv, TimerTypes
<1>. QED  BY <1>1, <1>2, <1>3, SetAsideInv

LEMMA FinishInv ==
  ASSUME TimerInv, Timing!Finish
  PROVE  TimerInv'
<1>. USE TimerBounds
<1>. DEFINE kept == {t \in InCache : ~m_bCancel[t]}
<1>1. /\ step = "loop" /\ ~\E t \in Timing!Timers : Timing!AtHead(t)
      /\ m_nExpireTime' = [t \in Timing!Timers |->
                            IF t \in kept THEN nNowMS + m_uTimerTime[t] ELSE m_nExpireTime[t]]
      /\ m_oTimerHeap' = Timing!PutBack(m_oTimerHeap, m_oTimerCache, kept, m_nExpireTime')
      /\ freed' = freed \cup {t \in InCache : m_bCancel[t]}
      /\ m_oTimerCache' = <<>> /\ step' = "idle"
  BY DEF Timing!Finish, Timing!Cleared, Timing!ToSet, ToSet, InCache
<1>2. UNCHANGED <<clock, count, m_oTimerMap, m_uTimerTime, m_bCancel, nNowMS, poTimer, ran, due, marked>>
  BY DEF Timing!Finish
<1>3. PICK rank : rank = m_nExpireTime'  OBVIOUS
<1>4. \A t \in InHeap : t \in Timing!Timers /\ t \notin InCache
  BY DEF TimerInv, TimerTypes, Placed
<1>5. \A t \in InCache : t \in 1 .. count /\ t \in Timing!Timers
  BY DEF TimerInv, TimerTypes, Placed
<1>6. /\ rank \in [Timing!Timers -> Int]
      /\ \A t \in Timing!Timers : t \notin InCache \/ m_bCancel[t] => rank[t] = m_nExpireTime[t]
  <2>1. \A t \in Timing!Timers : nNowMS + m_uTimerTime[t] \in Int /\ m_nExpireTime[t] \in Int
    <3>1. Delays \cup {0} \subseteq Int  OBVIOUS
    <3>2. \A t \in Timing!Timers : m_uTimerTime[t] \in Int  BY <3>1 DEF TimerInv, TimerTypes
    <3>. QED  BY <3>2 DEF TimerInv, TimerTypes
  <2>. QED  BY <1>1, <1>3, <2>1
<1>7. HeapOver(m_oTimerHeap, Timing!Timers, rank)
  <2>1. \A i \in 1 .. Len(m_oTimerHeap) : m_oTimerHeap[i] \in InHeap
    BY DEF TimerInv, Placed, HeapOver, InHeap, ToSet
  <2>2. \A i \in 2 .. Len(m_oTimerHeap) : i \div 2 \in 1 .. Len(m_oTimerHeap) /\ i \in 1 .. Len(m_oTimerHeap)
    BY ParentThere DEF TimerInv, Placed, HeapOver
  <2>3. \A i \in 1 .. Len(m_oTimerHeap) : rank[m_oTimerHeap[i]] = m_nExpireTime[m_oTimerHeap[i]]
    BY <1>4, <1>6, <2>1
  <2>. QED  BY <2>2, <2>3 DEF TimerInv, Placed, HeapOver, HeapOrdered
<1>8. HeapOver(m_oTimerHeap', Timing!Timers, m_nExpireTime') /\ InHeap' = InHeap \cup kept
  <2>1. ToSet(m_oTimerHeap) \cap ToSet(m_oTimerCache) = {} /\ m_oTimerCache \in Seq(Timing!Timers) /\ Distinct(m_oTimerCache)
    BY DEF TimerInv, TimerTypes, Placed, InHeap, InCache
  <2>2. PICK S : S = kept  OBVIOUS
  <2>3. m_oTimerHeap' = Timing!PutBack(m_oTimerHeap, m_oTimerCache, S, rank)  BY <1>1, <1>3, <2>2
  <2>4. /\ HeapOver(Timing!PutBack(m_oTimerHeap, m_oTimerCache, S, rank), Timing!Timers, rank)
        /\ ToSet(Timing!PutBack(m_oTimerHeap, m_oTimerCache, S, rank)) = ToSet(m_oTimerHeap) \cup (ToSet(m_oTimerCache) \cap S)
    BY <1>6, <1>7, <2>1, PutBackIs
  <2>5. ToSet(m_oTimerCache) \cap S = kept  BY <2>2 DEF InCache
  <2>. QED  BY <1>3, <2>3, <2>4, <2>5 DEF InHeap
<1>9. InCache' = {} /\ m_oTimerCache' \in Seq(Timing!Timers) /\ Distinct(m_oTimerCache')
  BY <1>1 DEF InCache, ToSet, Distinct
<1>10. \A t \in InHeap : ~(m_nExpireTime[t] <= nNowMS)
  <2>. SUFFICES ASSUME NEW t \in InHeap, m_nExpireTime[t] <= nNowMS PROVE FALSE  OBVIOUS
  <2>1. HeapOver(m_oTimerHeap, Timing!Timers, m_nExpireTime) /\ m_nExpireTime \in [Timing!Timers -> Int]
    BY DEF TimerInv, TimerTypes, Placed
  <2>2. PICK i \in 1 .. Len(m_oTimerHeap) : m_oTimerHeap[i] = t
    BY <2>1 DEF InHeap, ToSet, HeapOver
  <2>3. m_nExpireTime[m_oTimerHeap[1]] <= m_nExpireTime[t]
    BY <2>1, <2>2, RootIsLeast DEF HeapOver
  <2>4. m_oTimerHeap # <<>> /\ m_oTimerHeap[1] \in Timing!Timers
    BY <2>1, <2>2 DEF HeapOver
  <2>5. m_nExpireTime[m_oTimerHeap[1]] <= nNowMS
    BY <1>4, <2>1, <2>3, <2>4 DEF TimerInv, TimerTypes
  <2>. QED  BY <1>1, <2>4, <2>5 DEF Timing!AtHead, Timing!IsDue
<1>. HIDE DEF kept
<1>11. poTimer = 0  BY <1>1 DEF TimerInv, TimerTypes
<1>12. TimerTypes'
  <2>1. freed' \subseteq 1 .. count  BY <1>1, <1>5 DEF TimerInv, TimerTypes
  <2>. QED  BY <1>1, <1>2, <1>3, <1>6, <1>9, <1>11, <2>1 DEF TimerInv, TimerTypes
<1>13. Placed'
  <2>1. InHeap' \cap InCache' = {}  BY <1>9
  <2>2. InHeap' \cup InCache' = 1 .. count \ freed'
    BY <1>1, <1>4, <1>5, <1>8, <1>9 DEF TimerInv, Placed, kept
  <2>. QED  BY <1>2, <1>8, <2>1, <2>2 DEF TimerInv, Placed
<1>14. MarkedAreDue'
  <2>. SUFFICES ASSUME NEW t \in InHeap', m_bCancel[t] PROVE rank[t] <= clock
    BY <1>2, <1>3 DEF MarkedAreDue
  <2>1. t \in InHeap  BY <1>8 DEF kept
  <2>. QED  BY <1>4, <1>6, <2>1 DEF TimerInv, MarkedAreDue
<1>15. PassGoesOn'
  <2>1. ToSet(ran)' \subseteq due'  BY <1>2 DEF TimerInv, PassGoesOn
  <2>2. due' \subseteq ToSet(ran)' \cup {t \in Timing!Timers : m_bCancel'[t]}
    <3>1. \A t \in due : m_bCancel[t] \/ t \in ToSet(ran)  BY <1>1, <1>10 DEF TimerInv, PassGoesOn
    <3>2. due \subseteq Timing!Timers  BY DEF TimerInv, TimerTypes
    <3>. QED  BY <1>2, <3>1, <3>2
  <2>3. marked' \subseteq freed'
    <3>1. \A t \in marked : m_bCancel[t] /\ t \in freed \cup InCache  BY <1>1, <1>10 DEF TimerInv, PassGoesOn
    <3>. QED  BY <1>1, <1>2, <3>1
  <2>. QED  BY <1>1, <2>1, <2>2, <2>3 DEF PassGoesOn
<1>. QED  BY <1>12, <1>13, <1>14, <1>15 DEF TimerInv

LEMMA TickInv ==
  ASSUME TimerInv, Timing!Tick
  PROVE  TimerInv'
<1>. USE TimerBounds
<1>1. /\ clock < MaxTime /\ step # "loop" /\ clock' = clock + 1
      /\ UNCHANGED <<count, m_oTimerHeap, m_oTimerMap, m_nExpireTime, m_uTimerTime, m_bCancel,
                     m_oTimerCache, freed, step, nNowMS, poTimer, ran, due, marked>>
  BY DEF Timing!Tick, Timing!store, Timing!pass
<1>2. InHeap' = InHeap /\ InCache' = InCache  BY <1>1 DEF InHeap, InCache
<1>3. TimerTypes'  BY <1>1 DEF TimerInv, TimerTypes
<1>4. Placed'  BY <1>1, <1>2 DEF TimerInv, Placed
<1>5. MarkedAreDue'
  <2>1. \A t \in InHeap : m_nExpireTime[t] \in Int  BY DEF TimerInv, TimerTypes, Placed
  <2>. QED  BY <1>1, <1>2, <2>1 DEF TimerInv, TimerTypes, MarkedAreDue
<1>6. PassGoesOn'  BY <1>1, <1>2 DEF TimerInv, PassGoesOn
<1>. QED  BY <1>3, <1>4, <1>5, <1>6 DEF TimerInv

LEMMA TimerInvNext ==
  ASSUME MaxTimers <= MaxId, TimerInv, [Timing!Next]_timingVars
  PROVE  TimerInv'
<1>1. CASE UNCHANGED timingVars
  <2>1. /\ UNCHANGED <<clock, count, m_oTimerHeap, m_oTimerMap, m_nExpireTime, m_uTimerTime, m_bCancel>>
        /\ UNCHANGED <<m_oTimerCache, freed, step, nNowMS, poTimer, ran, due, marked>>
    BY <1>1 DEF timingVars
  <2>2. InHeap' = InHeap /\ InCache' = InCache  BY <2>1 DEF InHeap, InCache
  <2>3. TimerTypes' /\ Placed'  BY <2>1, <2>2 DEF TimerInv, TimerTypes, Placed
  <2>4. MarkedAreDue' /\ PassGoesOn'  BY <2>1, <2>2 DEF TimerInv, MarkedAreDue, PassGoesOn
  <2>. QED  BY <2>3, <2>4 DEF TimerInv
<1>2. CASE Timing!Next
  BY <1>2, RegisterTimerInv, RemoveTimerInv, ExecuteTimerInv, CallbackReturnsInv, FinishInv, TickInv,
     ExecuteInv, SkipCancelledInv DEF Timing!Next
<1>. QED  BY <1>1, <1>2

\* What the run checks.
LEMMA TimerInvSafe ==
  ASSUME MaxTimers <= MaxId, TimerInv
  PROVE  Timing!TypeOK /\ Timing!Tracked /\ Timing!InOrder /\ Timing!RunsOnce /\ Timing!PassComplete
<1>. USE TimerBounds
<1>1. /\ m_oTimerHeap \in Seq(Timing!Timers) /\ m_oTimerCache \in Seq(Timing!Timers) /\ ran \in Seq(Timing!Timers)
      /\ Distinct(m_oTimerHeap) /\ Distinct(m_oTimerCache) /\ Distinct(ran)
  BY DEF TimerInv, TimerTypes, Placed, HeapOver
<1>2. InHeap \subseteq 1 .. count /\ InCache \subseteq 1 .. count /\ ToSet(ran) \subseteq 1 .. count
  BY DEF TimerInv, TimerTypes, Placed, PassGoesOn
<1>3. m_oTimerHeap \in Seq(1 .. count) /\ m_oTimerCache \in Seq(1 .. count) /\ ran \in Seq(1 .. count)
  BY <1>1, <1>2, SeqOver DEF InHeap, InCache
<1>4. Len(m_oTimerCache) <= count
  <2>1. Len(m_oTimerCache) = Cardinality(InCache)  BY <1>1, DistinctLength DEF InCache
  <2>2. IsFiniteSet(1 .. count) /\ Cardinality(1 .. count) = count
    BY FS_Interval DEF TimerInv, TimerTypes
  <2>3. Cardinality(InCache) <= Cardinality(1 .. count)  BY <1>2, <2>2, FS_Subset
  <2>. QED  BY <2>1, <2>2, <2>3
<1>5. Timing!TypeOK
  <2>1. m_oTimerMap \in [Timing!Ids -> 0 .. count]  BY DEF TimerInv, TimerTypes, Placed
  <2>. QED  BY <1>3, <1>4, <2>1 DEF TimerInv, TimerTypes, Timing!TypeOK
<1>6. Timing!Tracked
  <2>. DEFINE all == m_oTimerHeap \o m_oTimerCache
  <2>1. all \in Seq(Timing!Timers) /\ Distinct(all) /\ ToSet(all) = InHeap \cup InCache
    BY <1>1, JoinedIs DEF TimerInv, Placed, InHeap, InCache
  <2>. HIDE DEF all
  <2>2. Len(all) = Cardinality(ToSet(all)) /\ ToSet(all) = 1 .. count \ freed
    BY <2>1, DistinctLength DEF TimerInv, Placed
  <2>3. {m_oTimerMap[i] : i \in Timing!Ids} \ {0} = {t \in 1 .. count : ~m_bCancel[t]}
    <3>1. m_oTimerMap = [i \in Timing!Ids |-> IF i \in 1 .. count /\ ~m_bCancel[i] THEN i ELSE 0]
      BY DEF TimerInv, Placed
    <3>2. \A t \in 1 .. count : t \in Timing!Ids /\ t # 0  BY DEF TimerInv, TimerTypes
    <3>. QED  BY <3>1, <3>2
  <2>. QED  BY <2>2, <2>3 DEF Timing!Tracked, Timing!ToSet, ToSet, Timing!Cardinality, Cardinality, all
<1>7. Timing!InOrder  BY TimersHeap DEF TimerInv, Placed, HeapOver, Timing!InOrder
<1>8. Timing!RunsOnce
  <2>1. Len(ran) = Cardinality(ToSet(ran)) /\ ToSet(ran) \subseteq due  BY <1>1, DistinctLength DEF TimerInv, PassGoesOn
  <2>. QED  BY <2>1 DEF Timing!RunsOnce, Timing!ToSet, ToSet, Timing!Cardinality, Cardinality
<1>9. Timing!PassComplete
  BY DEF TimerInv, PassGoesOn, Timing!PassComplete, Timing!ToSet, ToSet
<1>. QED  BY <1>5, <1>6, <1>7, <1>8, <1>9

LEMMA OnlyMappedRun ==
  ASSUME MaxTimers <= MaxId, TimerInv, [Timing!Next]_timingVars, Len(ran') > Len(ran)
  PROVE  \E i \in Timing!Ids : m_oTimerMap[i] = ran'[Len(ran')]
<1>. USE TimerBounds
<1>0. ran \in Seq(Timing!Timers)  BY DEF TimerInv, TimerTypes
<1>1. ran' # ran /\ ran' # <<>>  BY <1>0
<1>2. PICK t : Timing!Execute(t)
  BY <1>1 DEF Timing!Next, Timing!RegisterTimer, Timing!RemoveTimer, Timing!ExecuteTimer, Timing!CallbackReturns,
     Timing!SetAside, Timing!SkipCancelled, Timing!Finish, Timing!Tick, Timing!pass, timingVars
<1>3. t \in 1 .. count /\ ~m_bCancel[t] /\ ran' = Append(ran, t)  BY <1>2, ExecuteInv
<1>4. ran'[Len(ran')] = t
  <2>1. t \in Timing!Timers  BY <1>3 DEF TimerInv, TimerTypes
  <2>. QED  BY <1>0, <1>3, <2>1
<1>5. t \in Timing!Ids /\ m_oTimerMap[t] = t
  BY <1>3 DEF TimerInv, TimerTypes, Placed
<1>. QED  BY <1>4, <1>5

\* The heap's array never loses an element nor holds one twice, and its root is
\* a least element, whatever is pushed, removed and updated: for any elements
\* and keys.
THEOREM HeapIsSafe == CommonSpec => [](Heap!TypeOK /\ Heap!MinIsLeast)
<1>1. CommonInit => HeapInv  BY HeapInvInit DEF CommonInit
<1>2. [CommonNext]_commonVars => [Heap!Next]_heapVars  BY DEF CommonNext, commonVars
<1>3. HeapInv /\ [CommonNext]_commonVars => HeapInv'  BY <1>2, HeapInvNext
<1>. QED  BY <1>1, <1>3, HeapInvSafe, PTL DEF CommonSpec

\* ExecuteTimer, with callbacks that register and remove timers in the middle
\* of its loop, loses no timer and frees none twice, keeps the heap in order,
\* runs each timer that is due once, and none that was removed: for any
\* periods, any time and any number of timers up to that of the ids.
THEOREM TimersAreSafe ==
  ASSUME MaxTimers <= MaxId
  PROVE  CommonSpec =>
           /\ [](/\ Timing!TypeOK /\ Timing!Tracked /\ Timing!InOrder
                 /\ Timing!RunsOnce /\ Timing!PassComplete)
           /\ Timing!RemovedIsSilent
<1>1. CommonInit => TimerInv  BY TimerInvInit DEF CommonInit
<1>2. [CommonNext]_commonVars => [Timing!Next]_timingVars  BY DEF CommonNext, commonVars
<1>3. TimerInv /\ [CommonNext]_commonVars => TimerInv'  BY <1>2, TimerInvNext
<1>4. TimerInv => /\ Timing!TypeOK /\ Timing!Tracked /\ Timing!InOrder
                  /\ Timing!RunsOnce /\ Timing!PassComplete
  BY TimerInvSafe
<1>5. TimerInv /\ [CommonNext]_commonVars =>
        [Len(ran') > Len(ran) => \E i \in Timing!Ids : m_oTimerMap[i] = ran'[Len(ran')]]_(Timing!vars)
  BY <1>2, OnlyMappedRun
<1>. QED  BY <1>1, <1>3, <1>4, <1>5, PTL DEF CommonSpec, Timing!RemovedIsSilent

\* The containers together, as the run checks them: the lock, the queue, the
\* timers and the heap.
THEOREM LibraryIsSafe ==
  ASSUME MaxTimers <= MaxId
  PROVE  CommonSpec => LibrarySafe
<1>1. CommonSpec => Spec /\ QueueSpec
  <2>1. CommonInit => Init /\ QueueInit  BY DEF CommonInit
  <2>2. [CommonNext]_commonVars => [Next]_vars /\ [QueueNext]_queueVars
    BY DEF CommonNext, commonVars
  <2>. QED  BY <2>1, <2>2, PTL DEF CommonSpec, Spec, QueueSpec
<1>2. Spec => [](TypeOK /\ ReadersCounted)
  BY TypeCorrect, CountCorrect, PTL
<1>3. CommonSpec =>
        /\ [](/\ Timing!TypeOK /\ Timing!Tracked /\ Timing!InOrder
              /\ Timing!RunsOnce /\ Timing!PassComplete)
        /\ Timing!RemovedIsSilent
  BY TimersAreSafe
<1>4. CommonSpec => [](Heap!TypeOK /\ Heap!MinIsLeast)  BY HeapIsSafe
<1>. QED  BY <1>1, <1>2, <1>3, <1>4, QueueIsSafe DEF LibrarySafe
=============================================================================
