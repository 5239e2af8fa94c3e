-------------------------- MODULE BackgroundProofs --------------------------
(***************************************************************************)
(* Proofs about what runs, or is switched on and off, behind the program:  *)
(* the logger, for any number of printers and lines and any size of the    *)
(* pipe; the collector of dead threads, for any set of threads; and the    *)
(* client of the mirror driver, for any number of lives and failures.      *)
(***************************************************************************)
EXTENDS Logger, ThreadLife, MirrorDriver, SequenceTheorems, TLAPS

-----------------------------------------------------------------------------
(* The logger.                                                             *)

\* What was queued when m_bTerminate was set is written, in LogThread's hands
\* or still queued: the inductive form of DueIsWritten.
DueKept ==
  due \subseteq Range(out) \cup Range(m_oLogList)
                \cup (IF logThread = "emit" THEN {poLog} ELSE {})

\* Once LogThread has ended the flag is set, and a printer whose line is left
\* on the list is not about to queue another: what LateLines needs.
OneLate ==
  logThread = "ended" =>
    /\ m_bTerminate
    /\ \A i \in DOMAIN m_oLogList :
         m_oLogList[i][1] \in Printers => pc[m_oLogList[i][1]] # "lock"

-----------------------------------------------------------------------------
(* The list after Print.                                                   *)

\* A line queued goes to the back, and a warning may go to the front.
LEMMA QueuedIs ==
  ASSUME NEW line \in Lines, m_oLogList \in Seq(Lines)
  PROVE  /\ Queued(line) \in Seq(Lines)
         /\ Queued(line) # <<>>
         /\ \/ Queued(line) = Append(m_oLogList, line)
            \/ Queued(line) = <<Warning>> \o Append(m_oLogList, line)
         /\ Queued(line) = <<Warning>> \o Append(m_oLogList, line) =>
              Len(Queued(line)) = Len(m_oLogList) + 2
         /\ Queued(line) = Append(m_oLogList, line) =>
              Len(Queued(line)) = Len(m_oLogList) + 1
<1>. DEFINE back == Append(m_oLogList, line)
<1>1. back \in Seq(Lines) /\ Len(back) = Len(m_oLogList) + 1  OBVIOUS
<1>2. Warning \in Lines  BY DEF Lines
<1>3. /\ <<Warning>> \o back \in Seq(Lines)
      /\ Len(<<Warning>> \o back) = Len(back) + 1
  BY <1>1, <1>2
<1>4. Queued(line) = back \/ Queued(line) = <<Warning>> \o back
  BY DEF Queued
<1>5. Len(Queued(line)) > 0  BY <1>1, <1>3, <1>4
<1>6. Queued(line) \in Seq(Lines)  BY <1>1, <1>3, <1>4
<1>7. Queued(line) # <<>>  BY <1>5
<1>. QED  BY <1>1, <1>3, <1>4, <1>6, <1>7

\* Nothing queued before is lost.
LEMMA QueuedKeeps ==
  ASSUME NEW line \in Lines, m_oLogList \in Seq(Lines)
  PROVE  Range(m_oLogList) \subseteq Range(Queued(line))
<1>. DEFINE back == Append(m_oLogList, line)
<1>1. back \in Seq(Lines) /\ Warning \in Lines  BY DEF Lines
<1>. SUFFICES ASSUME NEW i \in DOMAIN m_oLogList
              PROVE  \E j \in DOMAIN Queued(line) : Queued(line)[j] = m_oLogList[i]
  BY DEF Range
<1>2. CASE Queued(line) = back
  BY <1>2
<1>3. CASE Queued(line) = <<Warning>> \o back
  <2>1. i \in 1..Len(back) /\ back[i] = m_oLogList[i]  OBVIOUS
  <2>2. /\ i + 1 \in 1..Len(<<Warning>> \o back)
        /\ (<<Warning>> \o back)[i + 1] = back[i]
    BY <1>1, <2>1
  <2>3. i + 1 \in DOMAIN Queued(line) /\ Queued(line)[i + 1] = m_oLogList[i]
    BY <1>1, <1>3, <2>1, <2>2
  <2>. QED  BY <2>3
<1>. QED  BY <1>2, <1>3, QueuedIs

\* A line on the list is the new one, an old one or the warning.
LEMMA QueuedFrom ==
  ASSUME NEW line \in Lines, m_oLogList \in Seq(Lines),
         NEW i \in DOMAIN Queued(line)
  PROVE  \/ Queued(line)[i] = line /\ i = Len(Queued(line))
         \/ Queued(line)[i] = Warning
         \/ \E d \in {0, 1} :
              /\ Len(Queued(line)) = Len(m_oLogList) + 1 + d
              /\ i - d \in DOMAIN m_oLogList
              /\ Queued(line)[i] = m_oLogList[i - d]
<1>. DEFINE back == Append(m_oLogList, line)
<1>1. /\ back \in Seq(Lines) /\ Warning \in Lines
      /\ Len(back) = Len(m_oLogList) + 1
  BY DEF Lines
<1>2. CASE Queued(line) = back
  <2>1. i \in 1..Len(back)  BY <1>2, <1>1
  <2>2. CASE i = Len(back)  BY <1>1, <1>2, <2>2
  <2>3. CASE i # Len(back)
    <3>1. i - 0 \in DOMAIN m_oLogList /\ back[i] = m_oLogList[i - 0]
      BY <1>1, <2>1, <2>3
    <3>. QED  BY <1>1, <1>2, <3>1
  <2>. QED  BY <2>2, <2>3
<1>3. CASE Queued(line) = <<Warning>> \o back
  <2>1. /\ i \in 1..(Len(back) + 1) /\ Len(Queued(line)) = Len(back) + 1
        /\ i # 1 => Queued(line)[i] = back[i - 1]
        /\ i = 1 => Queued(line)[i] = Warning
    BY <1>1, <1>3
  <2>2. CASE i = 1  BY <2>1, <2>2
  <2>3. CASE i = Len(back) + 1 /\ i # 1
    BY <1>1, <2>1, <2>3
  <2>4. CASE i # 1 /\ i # Len(back) + 1
    <3>1. /\ i - 1 \in DOMAIN m_oLogList /\ back[i - 1] = m_oLogList[i - 1]
      BY <1>1, <2>1, <2>4
    <3>. QED  BY <1>1, <2>1, <2>4, <3>1
  <2>. QED  BY <2>2, <2>3, <2>4
<1>. QED  BY <1>2, <1>3, QueuedIs

-----------------------------------------------------------------------------
(* Types.                                                                  *)

LEMMA TypeInit == Init => TypeOK
<1>. SUFFICES ASSUME Init PROVE TypeOK  OBVIOUS
<1>1. Warning \in Lines  BY DEF Lines
<1>2. m_oLogList \in Seq(Lines) /\ out \in Seq(Lines)  BY DEF Init
<1>3. printed \in [Printers -> 0..MaxLines]  BY LoggerAssumption DEF Init
<1>4. pc \in [Printers -> {"idle", "lock", "write"}]  BY DEF Init
<1>5. \A p \in Printers : pc[p] = "idle" /\ lock # p
  BY LoggerAssumption DEF Init
<1>6. setup = "no" /\ logThread = "none"  BY DEF Init
<1>7. m_bTerminate \in BOOLEAN /\ (m_bTerminate <=> terminate # "no")
  BY DEF Init
<1>8. lock \in Printers \cup {NULL} /\ pipe \in 0..PipeSize /\ terminate = "no"
  BY LoggerAssumption DEF Init
<1>9. due \subseteq Lines /\ closed \subseteq Lines /\ poLog \in Lines
  BY <1>1 DEF Init
<1>. QED
  BY <1>2, <1>3, <1>4, <1>5, <1>6, <1>7, <1>8, <1>9 DEF TypeOK

\* Every step keeps the types, and the lock to the printer that writes.
LEMMA TypeNext == TypeOK /\ [Next]_vars => TypeOK'
<1>. SUFFICES ASSUME TypeOK, [Next]_vars PROVE TypeOK'  OBVIOUS
<1>. USE LoggerAssumption DEF TypeOK, stopping, callers, reader
<1>1. CASE CreatePipe  BY <1>1 DEF CreatePipe
<1>2. CASE CreateThread  BY <1>2 DEF CreateThread
<1>3. ASSUME NEW p \in Printers, PrintLine(p)  PROVE TypeOK'
  <2>1. printed' \in [Printers -> 0..MaxLines] /\ printed[p] + 1 \in 1..MaxLines
    BY <1>3 DEF PrintLine
  <2>2. <<p, printed[p] + 1>> \in Lines  BY <2>1 DEF Lines
  <2>3. CASE setup = "no" \/ m_bTerminate
    BY <1>3, <2>1, <2>2, <2>3 DEF PrintLine
  <2>4. CASE ~(setup = "no" \/ m_bTerminate)
    BY <1>3, <2>1, <2>4 DEF PrintLine
  <2>. QED  BY <2>3, <2>4
<1>4. ASSUME NEW p \in Printers, Enqueue(p)  PROVE TypeOK'
  <2>1. Line(p) \in Lines  BY <1>4 DEF Enqueue, Line, Lines
  <2>2. m_oLogList' \in Seq(Lines)  BY <1>4, <2>1, QueuedIs DEF Enqueue
  <2>3. CASE NeedsByte(m_oLogList')
    <3>1. lock = NULL /\ lock' = p /\ pc' = [pc EXCEPT ![p] = "write"]
      BY <1>4, <2>3 DEF Enqueue, Holder
    <3>2. \A q \in Printers : (pc'[q] = "write") <=> (lock' = q)
      BY <3>1
    <3>3. \A q \in Printers : pc'[q] # "idle" => printed'[q] > 0
      BY <1>4, <3>1 DEF Enqueue
    <3>. QED  BY <1>4, <2>2, <3>1, <3>2, <3>3 DEF Enqueue
  <2>4. CASE ~NeedsByte(m_oLogList')
    BY <1>4, <2>2, <2>4 DEF Enqueue
  <2>. QED  BY <2>3, <2>4
<1>5. ASSUME NEW p \in Printers, WriteByte(p)  PROVE TypeOK'
  BY <1>5 DEF WriteByte
<1>6. CASE Take
  <2>1. CASE m_oLogList = <<>>  BY <1>6, <2>1 DEF Take
  <2>2. CASE m_oLogList # <<>>
    <3>1. Head(m_oLogList) \in Lines /\ Tail(m_oLogList) \in Seq(Lines)
      BY <2>2
    <3>. QED  BY <1>6, <2>2, <3>1 DEF Take
  <2>. QED  BY <2>1, <2>2
<1>7. CASE Emit
  <2>1. Warning \in Lines  BY DEF Lines
  <2>2. out' \in Seq(Lines)  BY <1>7 DEF Emit
  <2>. QED  BY <1>7, <2>1, <2>2 DEF Emit
<1>8. CASE Test  BY <1>8 DEF Test
<1>9. CASE Read  BY <1>9 DEF Read
<1>10. CASE SetTerminate
  <2>1. Range(m_oLogList) \subseteq Lines  BY DEF Range
  <2>. QED  BY <1>10, <2>1 DEF SetTerminate
<1>11. CASE Notify  BY <1>11 DEF Notify, Bytes
<1>12. CASE Join  BY <1>12 DEF Join
<1>13. CASE UNCHANGED vars  BY <1>13 DEF vars
<1>. QED
  BY <1>1, <1>2, <1>3, <1>4, <1>5, <1>6, <1>7, <1>8, <1>9, <1>10, <1>11, <1>12,
     <1>13 DEF Next, Caller, LogThread, Terminate

\* For any printers, pipe and lines the types hold, and the lock is held by
\* the printer that writes.
THEOREM TypeCorrect == Spec => []TypeOK
BY TypeInit, TypeNext, PTL DEF Spec

-----------------------------------------------------------------------------
(* The wake-up.                                                            *)

\* A line put on an empty list has its byte on the way until LogThread reads.
LEMMA WakeupNext == TypeOK /\ NoLostWakeup /\ [Next]_vars => NoLostWakeup'
<1>. SUFFICES ASSUME TypeOK, NoLostWakeup, [Next]_vars,
                     logThread' \in {"test", "read"}, m_oLogList' # <<>>
              PROVE  pipe' > 0 \/ \E p \in Printers : pc'[p] = "write"
  BY DEF NoLostWakeup
<1>. USE LoggerAssumption DEF TypeOK, NoLostWakeup, stopping, callers, reader
<1>1. CASE UNCHANGED <<m_oLogList, pipe, pc, logThread>>  BY <1>1
<1>2. CASE CreateThread  BY <1>2 DEF CreateThread
<1>3. ASSUME NEW p \in Printers, PrintLine(p)
      PROVE  pipe' > 0 \/ \E q \in Printers : pc'[q] = "write"
  BY <1>3 DEF PrintLine
<1>4. ASSUME NEW p \in Printers, Enqueue(p)
      PROVE  pipe' > 0 \/ \E q \in Printers : pc'[q] = "write"
  <2>1. CASE m_oLogList = <<>>
    <3>1. Line(p) \in Lines
      <4>1. printed[p] \in 1..MaxLines  BY <1>4 DEF Enqueue
      <4>. QED  BY <4>1 DEF Line, Lines
    <3>2. Queued(Line(p)) = <<Line(p)>>
      <4>1. Append(m_oLogList, Line(p)) = <<Line(p)>>  BY <2>1, <3>1
      <4>2. 1 % Many # 0  OBVIOUS
      <4>. QED  BY <4>1, <4>2 DEF Queued
    <3>3. pc' = [pc EXCEPT ![p] = "write"]
      BY <1>4, <3>2 DEF Enqueue, NeedsByte
    <3>. QED  BY <3>3
  <2>2. CASE m_oLogList # <<>>
    <3>1. pipe > 0 \/ \E q \in Printers : pc[q] = "write"
      BY <1>4, <2>2 DEF Enqueue
    <3>. QED  BY <1>4, <3>1 DEF Enqueue
  <2>. QED  BY <2>1, <2>2
<1>5. ASSUME NEW p \in Printers, WriteByte(p)
      PROVE  pipe' > 0
  BY <1>5 DEF WriteByte
<1>6. CASE Take  BY <1>6 DEF Take
<1>7. CASE Emit  BY <1>7 DEF Emit
<1>8. CASE Test
  BY <1>8 DEF Test
<1>9. CASE Read  BY <1>9 DEF Read
<1>10. CASE Notify  BY <1>10 DEF Notify, Bytes
<1>. QED
  BY <1>1, <1>2, <1>3, <1>4, <1>5, <1>6, <1>7, <1>8, <1>9, <1>10
  DEF Next, Caller, LogThread, Terminate, vars, CreatePipe, SetTerminate, Join

\* LogThread never blocks in the read for good while lines are queued.
THEOREM WakeupNotLost == Spec => []NoLostWakeup
<1>1. Init => NoLostWakeup  BY DEF Init, NoLostWakeup
<1>. QED  BY <1>1, TypeInit, TypeNext, WakeupNext, PTL DEF Spec

-----------------------------------------------------------------------------
(* Terminate.                                                              *)

\* A line due moves from the list to LogThread's hands and to the output.
LEMMA DueNext ==
  TypeOK /\ OneLate /\ DueKept /\ DueIsWritten /\ [Next]_vars =>
    (DueKept /\ DueIsWritten)'
<1>. SUFFICES ASSUME TypeOK, OneLate, DueKept, DueIsWritten, [Next]_vars
              PROVE  (DueKept /\ DueIsWritten)'
  OBVIOUS
<1>. USE LoggerAssumption
     DEF TypeOK, DueKept, DueIsWritten, stopping, callers, reader
<1>1. CASE UNCHANGED <<due, out, m_oLogList, logThread, poLog>>  BY <1>1
<1>2. CASE CreateThread  BY <1>2 DEF CreateThread
<1>3. ASSUME NEW p \in Printers, Enqueue(p)  PROVE (DueKept /\ DueIsWritten)'
  <2>1. Line(p) \in Lines  BY <1>3 DEF Enqueue, Line, Lines
  <2>2. Range(m_oLogList) \subseteq Range(m_oLogList')
    BY <1>3, <2>1, QueuedKeeps DEF Enqueue
  <2>. QED  BY <1>3, <2>2 DEF Enqueue
<1>4. CASE Take
  <2>1. CASE m_oLogList = <<>>  BY <1>4, <2>1 DEF Take
  <2>2. CASE m_oLogList # <<>>
    <3>1. Range(m_oLogList) \subseteq {Head(m_oLogList)} \cup Range(Tail(m_oLogList))
      <4>1. m_oLogList[1] = Head(m_oLogList)  BY <2>2
      <4>2. ASSUME NEW i \in DOMAIN m_oLogList, i # 1
            PROVE  m_oLogList[i] \in Range(Tail(m_oLogList))
        <5>1. /\ i - 1 \in DOMAIN Tail(m_oLogList)
              /\ Tail(m_oLogList)[i - 1] = m_oLogList[i]
          BY <2>2, <4>2
        <5>. QED  BY <5>1 DEF Range
      <4>. QED  BY <4>1, <4>2 DEF Range
    <3>. QED  BY <1>4, <2>2, <3>1 DEF Take
  <2>. QED  BY <2>1, <2>2
<1>5. CASE Emit
  <2>1. Range(out) \cup {poLog} \subseteq Range(out')
    <3>1. out' = Append(out, poLog)  BY <1>5 DEF Emit
    <3>2. /\ \A i \in DOMAIN out : i \in DOMAIN out' /\ out'[i] = out[i]
          /\ Len(out) + 1 \in DOMAIN out' /\ out'[Len(out) + 1] = poLog
      BY <3>1
    <3>. QED  BY <3>2 DEF Range
  <2>. QED  BY <1>5, <2>1 DEF Emit
<1>6. CASE Test
  <2>1. m_oLogList = <<>> => Range(m_oLogList) = {}  BY DEF Range
  <2>. QED  BY <1>6, <2>1 DEF Test, MayEnd
<1>7. CASE Read  BY <1>7 DEF Read
<1>8. CASE SetTerminate
  <2>1. logThread # "ended"  BY <1>8 DEF SetTerminate, OneLate
  <2>. QED  BY <1>8, <2>1 DEF SetTerminate
<1>. QED
  BY <1>1, <1>2, <1>3, <1>4, <1>5, <1>6, <1>7, <1>8
  DEF Next, Caller, LogThread, Terminate, vars, CreatePipe, PrintLine, WriteByte,
      Notify, Join

\* After the end a printer that was past the test queues its line, and it has
\* none on the list then.
LEMMA LateNext ==
  TypeOK /\ OneLate /\ LateLines /\ [Next]_vars => (OneLate /\ LateLines)'
<1>. SUFFICES ASSUME TypeOK, OneLate, LateLines, [Next]_vars,
                     logThread' = "ended"
              PROVE  (OneLate /\ LateLines)'
  BY DEF OneLate, LateLines
<1>. USE LoggerAssumption
     DEF TypeOK, OneLate, LateLines, stopping, callers, reader
<1>1. CASE UNCHANGED <<m_bTerminate, pc, m_oLogList, logThread>>  BY <1>1
<1>2. CASE CreateThread  BY <1>2 DEF CreateThread
<1>3. ASSUME NEW p \in Printers, PrintLine(p)  PROVE (OneLate /\ LateLines)'
  BY <1>3 DEF PrintLine
<1>4. ASSUME NEW p \in Printers, Enqueue(p)  PROVE (OneLate /\ LateLines)'
  <2>. DEFINE line == Line(p)
  <2>1. /\ logThread = "ended" /\ m_bTerminate /\ m_bTerminate'
        /\ m_oLogList' = Queued(line) /\ pc[p] = "lock"
        /\ pc' \in [Printers -> {"idle", "lock", "write"}] /\ pc'[p] # "lock"
        /\ \A q \in Printers \ {p} : pc'[q] = pc[q]
    BY <1>4 DEF Enqueue
  <2>2. line \in Lines /\ line[1] = p  BY <1>4 DEF Enqueue, Line, Lines
  <2>3. \A i \in DOMAIN m_oLogList : m_oLogList[i][1] # p
    BY <2>1
  <2>4. Warning[1] \notin Printers  BY DEF Warning
  <2>5. /\ Queued(line) \in Seq(Lines)
        /\ DOMAIN Queued(line) = 1..Len(Queued(line))
    BY <2>2, QueuedIs
  <2>6. OneLate'
    <3>. SUFFICES ASSUME NEW i \in DOMAIN Queued(line),
                         Queued(line)[i][1] \in Printers
                  PROVE  pc'[Queued(line)[i][1]] # "lock"
      BY <2>1
    <3>1. \/ Queued(line)[i] = line
          \/ \E d \in {0, 1} : /\ i - d \in DOMAIN m_oLogList
                               /\ Queued(line)[i] = m_oLogList[i - d]
      BY <2>2, <2>4, QueuedFrom
    <3>2. CASE Queued(line)[i] = line  BY <2>1, <2>2, <3>2
    <3>3. ASSUME NEW d \in {0, 1}, i - d \in DOMAIN m_oLogList,
                 Queued(line)[i] = m_oLogList[i - d]
          PROVE  pc'[Queued(line)[i][1]] # "lock"
      BY <2>1, <2>3, <3>3
    <3>. QED  BY <3>1, <3>2, <3>3
  <2>7. LateLines'
    <3>. SUFFICES ASSUME NEW q \in Printers,
                         NEW i \in DOMAIN Queued(line), Queued(line)[i][1] = q,
                         NEW j \in DOMAIN Queued(line), Queued(line)[j][1] = q
                  PROVE  i = j
      BY <2>1
    <3>1. CASE q = p
      <4>1. i = Len(Queued(line))  BY <2>2, <2>3, <2>4, <3>1, QueuedFrom
      <4>2. j = Len(Queued(line))  BY <2>2, <2>3, <2>4, <3>1, QueuedFrom
      <4>. QED  BY <4>1, <4>2
    <3>2. CASE q # p
      <4>1. PICK d \in {0, 1} :
              /\ Len(Queued(line)) = Len(m_oLogList) + 1 + d
              /\ i - d \in DOMAIN m_oLogList
              /\ Queued(line)[i] = m_oLogList[i - d]
        BY <2>2, <2>4, <3>2, QueuedFrom
      <4>2. PICK e \in {0, 1} :
              /\ Len(Queued(line)) = Len(m_oLogList) + 1 + e
              /\ j - e \in DOMAIN m_oLogList
              /\ Queued(line)[j] = m_oLogList[j - e]
        BY <2>2, <2>4, <3>2, QueuedFrom
      <4>3. d = e  BY <4>1, <4>2
      <4>4. i - d = j - d  BY <2>1, <4>1, <4>2, <4>3
      <4>. QED  BY <2>5, <4>4
    <3>. QED  BY <3>1, <3>2
  <2>. QED  BY <2>6, <2>7
<1>5. ASSUME NEW p \in Printers, WriteByte(p)  PROVE (OneLate /\ LateLines)'
  BY <1>5 DEF WriteByte
<1>6. CASE Take  BY <1>6 DEF Take
<1>7. CASE Emit  BY <1>7 DEF Emit
<1>8. CASE Test  BY <1>8 DEF Test, MayEnd
<1>9. CASE Read  BY <1>9 DEF Read
<1>10. CASE SetTerminate  BY <1>10 DEF SetTerminate
<1>. QED
  BY <1>1, <1>2, <1>3, <1>4, <1>5, <1>6, <1>7, <1>8, <1>9, <1>10
  DEF Next, Caller, LogThread, Terminate, vars, CreatePipe, Notify, Join

\* The inductive invariant of Terminate.
LoggerIInv == TypeOK /\ OneLate /\ LateLines /\ DueKept /\ DueIsWritten

LEMMA IInvInit == Init => LoggerIInv
<1>. SUFFICES ASSUME Init PROVE LoggerIInv  OBVIOUS
<1>1. TypeOK  BY TypeInit
<1>. QED  BY <1>1 DEF Init, LoggerIInv, OneLate, LateLines, DueKept, DueIsWritten

LEMMA IInvNext == LoggerIInv /\ [Next]_vars => LoggerIInv'
BY TypeNext, DueNext, LateNext DEF LoggerIInv

\* Everything queued when Terminate set its flag is written before LogThread
\* ends.
THEOREM TerminateDrains == Spec => []DueIsWritten
<1>1. LoggerIInv => DueIsWritten  BY DEF LoggerIInv
<1>. QED  BY <1>1, IInvInit, IInvNext, PTL DEF Spec

\* No more than one line of each printer is left behind at the end.
THEOREM LateBounded == Spec => []LateLines
<1>1. LoggerIInv => LateLines  BY DEF LoggerIInv
<1>. QED  BY <1>1, IInvInit, IInvNext, PTL DEF Spec

-----------------------------------------------------------------------------
(* The lines.                                                              *)

\* A line that Print has handed over has a number its printer has used, and
\* one the printer is not about to queue.
Handed == Range(out) \cup InHand \cup Range(m_oLogList)

Numbered ==
  \A l \in Handed : l[1] \in Printers =>
    /\ l[2] <= printed[l[1]]
    /\ pc[l[1]] = "lock" => l[2] < printed[l[1]]

\* The inductive invariant of the lines.
LinesInv == LinesKept /\ Numbered

LEMMA LinesInit == Init => LinesInv
<1>. SUFFICES ASSUME Init PROVE LinesInv  OBVIOUS
<1>1. /\ InHand = {} /\ Range(out) = {} /\ Range(m_oLogList) = {}
      /\ DOMAIN out = {} /\ DOMAIN m_oLogList = {}
  BY DEF Init, InHand, Range
<1>2. \A p \in Printers : 1..printed[p] = {}  BY DEF Init
<1>3. Ordered(out) /\ Ordered(m_oLogList)  BY <1>1 DEF Ordered
<1>4. Precede(Range(out), InHand \cup Range(m_oLogList)) /\ Precede(InHand, Range(m_oLogList))
  BY <1>1 DEF Precede
<1>. QED  BY <1>1, <1>2, <1>3, <1>4 DEF LinesInv, LinesKept, Numbered, Handed

\* The head of a list comes before its tail.
LEMMA TailOf ==
  ASSUME NEW s \in Seq(Lines), s # <<>>
  PROVE  /\ Range(s) = {Head(s)} \cup Range(Tail(s))
         /\ Ordered(s) => Ordered(Tail(s)) /\ Precede({Head(s)}, Range(Tail(s)))
<1>1. /\ DOMAIN s = 1 .. Len(s) /\ Len(s) \in Nat \ {0}
      /\ DOMAIN Tail(s) = 1 .. Len(s) - 1
      /\ \A i \in 1 .. Len(s) - 1 : Tail(s)[i] = s[i + 1]
      /\ Head(s) = s[1]
  OBVIOUS
<1>2. Range(s) \subseteq {Head(s)} \cup Range(Tail(s))
  <2>1. ASSUME NEW i \in 1 .. Len(s), i # 1  PROVE s[i] \in Range(Tail(s))
    <3>1. i - 1 \in DOMAIN Tail(s) /\ Tail(s)[i - 1] = s[i]  BY <1>1, <2>1
    <3>. QED  BY <3>1 DEF Range
  <2>. QED  BY <1>1, <2>1 DEF Range
<1>3. {Head(s)} \cup Range(Tail(s)) \subseteq Range(s)
  <2>1. 1 \in DOMAIN s /\ \A i \in DOMAIN Tail(s) : i + 1 \in DOMAIN s /\ Tail(s)[i] = s[i + 1]
    BY <1>1
  <2>. QED  BY <1>1, <2>1 DEF Range
<1>4. ASSUME Ordered(s)  PROVE Ordered(Tail(s))
  <2>. SUFFICES ASSUME NEW i \in DOMAIN Tail(s), NEW j \in DOMAIN Tail(s), i < j,
                       Tail(s)[i][1] = Tail(s)[j][1], Tail(s)[i][1] \in Printers
                PROVE  Tail(s)[i][2] < Tail(s)[j][2]
    BY DEF Ordered
  <2>1. i + 1 \in DOMAIN s /\ j + 1 \in DOMAIN s /\ i + 1 < j + 1  BY <1>1
  <2>2. Tail(s)[i] = s[i + 1] /\ Tail(s)[j] = s[j + 1]  BY <1>1
  <2>. QED  BY <1>4, <2>1, <2>2 DEF Ordered
<1>5. ASSUME Ordered(s)  PROVE Precede({Head(s)}, Range(Tail(s)))
  <2>. SUFFICES ASSUME NEW j \in DOMAIN Tail(s), s[1][1] = Tail(s)[j][1], s[1][1] \in Printers
                PROVE  s[1][2] < Tail(s)[j][2]
    BY <1>1 DEF Precede, Range
  <2>1. 1 \in DOMAIN s /\ j + 1 \in DOMAIN s /\ 1 < j + 1 /\ Tail(s)[j] = s[j + 1]  BY <1>1
  <2>. QED  BY <1>5, <2>1 DEF Ordered
<1>. QED  BY <1>2, <1>3, <1>4, <1>5

\* A line that comes after all of a list keeps it in order.
LEMMA AppendOrdered ==
  ASSUME NEW s \in Seq(Lines), NEW l \in Lines
  PROVE  /\ Range(Append(s, l)) = Range(s) \cup {l}
         /\ Ordered(s) /\ Precede(Range(s), {l}) => Ordered(Append(s, l))
<1>. DEFINE t == Append(s, l)
<1>1. /\ DOMAIN s = 1 .. Len(s) /\ Len(s) \in Nat /\ DOMAIN t = 1 .. Len(s) + 1
      /\ \A i \in 1 .. Len(s) : t[i] = s[i]
      /\ t[Len(s) + 1] = l
  OBVIOUS
<1>2. Range(t) = Range(s) \cup {l}
  <2>1. \A i \in DOMAIN t : i \in DOMAIN s \/ i = Len(s) + 1  BY <1>1
  <2>2. DOMAIN s \subseteq DOMAIN t /\ Len(s) + 1 \in DOMAIN t  BY <1>1
  <2>. HIDE DEF t
  <2>. QED  BY <1>1, <2>1, <2>2 DEF Range
<1>3. ASSUME Ordered(s), Precede(Range(s), {l})  PROVE Ordered(t)
  <2>. SUFFICES ASSUME NEW i \in DOMAIN t, NEW j \in DOMAIN t, i < j,
                       t[i][1] = t[j][1], t[i][1] \in Printers
                PROVE  t[i][2] < t[j][2]
    BY DEF Ordered
  <2>1. i \in DOMAIN s /\ t[i] = s[i]  BY <1>1
  <2>2. CASE j \in DOMAIN s  BY <1>1, <1>3, <2>1, <2>2 DEF Ordered
  <2>3. CASE j = Len(s) + 1
    <3>1. t[j] = l /\ s[i] \in Range(s)  BY <1>1, <2>1, <2>3 DEF Range
    <3>. QED  BY <1>3, <2>1, <3>1 DEF Precede
  <2>. QED  BY <1>1, <2>2, <2>3
<1>. QED  BY <1>2, <1>3

\* What Print queues: the list, the line and perhaps a warning, in order.
LEMMA QueuedOrdered ==
  ASSUME NEW line \in Lines, m_oLogList \in Seq(Lines), NULL \notin Printers
  PROVE  /\ Range(Queued(line)) \subseteq Range(m_oLogList) \cup {line, Warning}
         /\ Range(m_oLogList) \cup {line} \subseteq Range(Queued(line))
         /\ Ordered(m_oLogList) /\ Precede(Range(m_oLogList), {line}) =>
              Ordered(Queued(line))
<1>. DEFINE back == Append(m_oLogList, line)
<1>1. back \in Seq(Lines) /\ Warning \in Lines  BY DEF Lines
<1>2. Range(back) = Range(m_oLogList) \cup {line}  BY AppendOrdered
<1>3. Ordered(m_oLogList) /\ Precede(Range(m_oLogList), {line}) => Ordered(back)
  BY AppendOrdered
<1>4. CASE Queued(line) = back  BY <1>2, <1>3, <1>4
<1>5. CASE Queued(line) = <<Warning>> \o back
  <2>. DEFINE q == <<Warning>> \o back
  <2>1. /\ DOMAIN back = 1 .. Len(back) /\ Len(back) \in Nat
        /\ DOMAIN q = 1 .. Len(back) + 1
        /\ q[1] = Warning
        /\ \A i \in 2 .. Len(back) + 1 : q[i] = back[i - 1]
    <3>. HIDE DEF back
    <3>. QED  BY <1>1
  <2>. HIDE DEF back, q
  <2>2. \A i \in DOMAIN q : i = 1 \/ (i - 1 \in DOMAIN back /\ q[i] = back[i - 1])  BY <2>1
  <2>3. \A i \in DOMAIN back : i + 1 \in DOMAIN q /\ q[i + 1] = back[i]  BY <2>1
  <2>4. Range(q) \subseteq Range(back) \cup {Warning} /\ Range(back) \subseteq Range(q)
    BY <2>1, <2>2, <2>3 DEF Range
  <2>5. ASSUME Ordered(back)  PROVE Ordered(q)
    <3>. SUFFICES ASSUME NEW i \in DOMAIN q, NEW j \in DOMAIN q, i < j,
                         q[i][1] = q[j][1], q[i][1] \in Printers
                  PROVE  q[i][2] < q[j][2]
      BY DEF Ordered
    <3>1. i # 1 /\ j # 1  BY <2>1 DEF Warning
    <3>2. i - 1 < j - 1  BY <2>1
    <3>. QED  BY <2>2, <2>5, <3>1, <3>2 DEF Ordered
  <2>. QED  BY <1>2, <1>3, <1>5, <2>4, <2>5 DEF q
<1>. QED  BY <1>4, <1>5, QueuedIs

\* A step that moves no line and calls no Print.
LEMMA LinesStay ==
  ASSUME LinesInv, UNCHANGED <<out, m_oLogList, printed, closed>>, InHand' = InHand,
         \A p \in Printers : pc'[p] = "lock" <=> pc[p] = "lock"
  PROVE  LinesInv'
<1>1. Ordered(out)' /\ Ordered(m_oLogList)'  BY DEF LinesInv, LinesKept, Ordered
<1>2. /\ Precede(Range(out), InHand \cup Range(m_oLogList))'
      /\ Precede(InHand, Range(m_oLogList))'
  BY DEF LinesInv, LinesKept, Precede
<1>3. Handed' = Handed  BY DEF Handed
<1>4. Numbered'  BY <1>3 DEF LinesInv, Numbered
<1>. QED  BY <1>1, <1>2, <1>4 DEF LinesInv, LinesKept

\* A line refused is closed, one let through waits for the lock: both have
\* the next number of their printer.
LEMMA PrintLineKeeps ==
  ASSUME TypeOK, LinesInv, NEW p \in Printers, PrintLine(p)
  PROVE  LinesInv'
<1>1. /\ printed' = [printed EXCEPT ![p] = @ + 1] /\ pc[p] = "idle"
      /\ UNCHANGED <<m_oLogList, out, poLog, logThread>>
      /\ \/ closed' = closed \cup {<<p, printed[p] + 1>>} /\ pc' = pc
         \/ pc' = [pc EXCEPT ![p] = "lock"] /\ closed' = closed
  BY DEF PrintLine, reader
<1>2. /\ printed \in [Printers -> Nat] /\ printed' \in [Printers -> Nat]
      /\ printed'[p] = printed[p] + 1
      /\ \A q \in Printers \ {p} : printed'[q] = printed[q] /\ pc'[q] = pc[q]
      /\ pc'[p] \in {"idle", "lock"}
  <2>1. MaxLines \in Nat  BY LoggerAssumption
  <2>2. 0 .. MaxLines \subseteq Nat  BY <2>1
  <2>3. printed \in [Printers -> Nat]  BY <2>2 DEF TypeOK
  <2>. QED  BY <1>1, <2>3 DEF TypeOK
<1>3. InHand' = InHand /\ Handed' = Handed  BY <1>1 DEF InHand, Handed
<1>4. Ordered(out)' /\ Ordered(m_oLogList)'
  BY <1>1 DEF LinesInv, LinesKept, Ordered
<1>5. /\ Precede(Range(out), InHand \cup Range(m_oLogList))'
      /\ Precede(InHand, Range(m_oLogList))'
  BY <1>1, <1>3 DEF LinesInv, LinesKept, Precede
<1>6. Numbered'
  <2>. SUFFICES ASSUME NEW l \in Handed, l[1] \in Printers
                PROVE  /\ l[2] <= printed'[l[1]]
                       /\ pc'[l[1]] = "lock" => l[2] < printed'[l[1]]
    BY <1>3 DEF Numbered
  <2>1. /\ l[2] <= printed[l[1]]
        /\ pc[l[1]] = "lock" => l[2] < printed[l[1]]
    BY DEF LinesInv, Numbered
  <2>2. l[2] \in Nat
    <3>1. l \in Lines
      <4>1. Range(out) \subseteq Lines /\ Range(m_oLogList) \subseteq Lines
        BY DEF TypeOK, Range
      <4>2. InHand \subseteq Lines  BY DEF TypeOK, InHand
      <4>. QED  BY <4>1, <4>2 DEF Handed
    <3>2. MaxLines \in Nat  BY LoggerAssumption
    <3>. QED  BY <3>1, <3>2 DEF Lines, Warning
  <2>3. CASE l[1] = p  BY <1>2, <2>1, <2>2, <2>3
  <2>4. CASE l[1] # p  BY <1>2, <2>1, <2>4
  <2>. QED  BY <2>3, <2>4
<1>7. ASSUME NEW q \in Printers, NEW n \in 1 .. printed'[q]
      PROVE  \/ <<q, n>> \in closed' \cup Range(out) \cup InHand \cup Range(m_oLogList)
             \/ n = printed'[q] /\ pc'[q] = "lock"
  <2>1. n \in 1 .. printed[q] \/ (q = p /\ n = printed[p] + 1)  BY <1>2
  <2>2. CASE n \in 1 .. printed[q]
    <3>1. \/ <<q, n>> \in closed \cup Range(out) \cup InHand \cup Range(m_oLogList)
          \/ n = printed[q] /\ pc[q] = "lock"
      BY <2>2 DEF LinesInv, LinesKept
    <3>2. closed \subseteq closed'  BY <1>1
    <3>3. pc[q] = "lock" => q # p  BY <1>1
    <3>. QED  BY <1>2, <3>1, <3>2, <3>3
  <2>3. CASE q = p /\ n = printed[p] + 1
    <3>1. CASE closed' = closed \cup {<<p, printed[p] + 1>>}  BY <2>3, <3>1
    <3>2. CASE pc' = [pc EXCEPT ![p] = "lock"]
      <4>1. pc'[p] = "lock"  BY <3>2 DEF TypeOK
      <4>. QED  BY <1>2, <2>3, <4>1
    <3>. QED  BY <1>1, <3>1, <3>2
  <2>. QED  BY <2>1, <2>2, <2>3
<1>. QED  BY <1>1, <1>3, <1>4, <1>5, <1>6, <1>7 DEF LinesInv, LinesKept

\* A line queued has the last number of its printer, which no line handed
\* over has reached.
LEMMA EnqueueKeeps ==
  ASSUME TypeOK, LinesInv, NEW p \in Printers, Enqueue(p)
  PROVE  LinesInv'
<1>. DEFINE line == <<p, printed[p]>>
<1>1. /\ m_oLogList' = Queued(line) /\ pc[p] = "lock"
      /\ UNCHANGED <<printed, closed, out, poLog, logThread>>
      /\ pc'[p] # "lock"
      /\ \A q \in Printers \ {p} : pc'[q] = pc[q]
  BY DEF Enqueue, Line, reader, TypeOK
<1>2. line \in Lines
  <2>1. MaxLines \in Nat  BY LoggerAssumption
  <2>2. printed[p] \in 0 .. MaxLines /\ printed[p] > 0  BY <1>1 DEF TypeOK
  <2>3. printed[p] \in 1 .. MaxLines  BY <2>1, <2>2
  <2>. QED  BY <2>3 DEF Lines
<1>3. m_oLogList \in Seq(Lines) /\ NULL \notin Printers
  BY LoggerAssumption DEF TypeOK
<1>4. \A l \in Handed : l[1] = p => l[2] < printed[p]
  BY <1>1 DEF LinesInv, Numbered
<1>5. Precede(Handed, {line})  BY <1>4 DEF Precede
<1>6. /\ Range(m_oLogList)' \subseteq Range(m_oLogList) \cup {line, Warning}
      /\ Range(m_oLogList) \cup {line} \subseteq Range(m_oLogList)'
  <2>. HIDE DEF line
  <2>. QED  BY <1>1, <1>2, <1>3, QueuedOrdered
<1>7. Ordered(m_oLogList)'
  <2>1. Precede(Range(m_oLogList), {line})  BY <1>5 DEF Precede, Handed
  <2>2. Ordered(m_oLogList)  BY DEF LinesInv, LinesKept
  <2>3. Ordered(Queued(line))
    <3>. HIDE DEF line
    <3>. QED  BY <1>2, <1>3, <2>1, <2>2, QueuedOrdered
  <2>. QED  BY <1>1, <2>3 DEF Ordered
<1>8. InHand' = InHand /\ Range(out)' = Range(out) /\ Ordered(out)'
  BY <1>1 DEF InHand, LinesInv, LinesKept, Ordered
<1>9. ASSUME NEW s \in SUBSET Handed, Precede(s, Range(m_oLogList))
      PROVE  Precede(s, Range(m_oLogList)')
  <2>. SUFFICES ASSUME NEW k \in s, NEW l \in Range(m_oLogList)', k[1] = l[1], k[1] \in Printers
                PROVE  k[2] < l[2]
    BY DEF Precede
  <2>1. l # Warning  BY <1>3 DEF Warning
  <2>2. CASE l \in Range(m_oLogList)  BY <1>9, <2>2 DEF Precede
  <2>3. CASE l = line  BY <1>5, <2>3 DEF Precede
  <2>. QED  BY <1>6, <2>1, <2>2, <2>3
<1>10. /\ Precede(Range(out), InHand \cup Range(m_oLogList))'
       /\ Precede(InHand, Range(m_oLogList))'
  <2>1. /\ Precede(Range(out), InHand) /\ Precede(Range(out), Range(m_oLogList))
        /\ Precede(InHand, Range(m_oLogList))
    BY DEF LinesInv, LinesKept, Precede
  <2>2. Range(out) \subseteq Handed /\ InHand \subseteq Handed  BY DEF Handed
  <2>3. Precede(Range(out), Range(m_oLogList)') /\ Precede(InHand, Range(m_oLogList)')
    BY <1>9, <2>1, <2>2
  <2>4. Precede(Range(out), InHand \cup Range(m_oLogList)')  BY <2>1, <2>3 DEF Precede
  <2>. QED  BY <1>8, <2>3, <2>4 DEF Precede
<1>11. Numbered'
  <2>. SUFFICES ASSUME NEW l \in Handed', l[1] \in Printers
                PROVE  /\ l[2] <= printed[l[1]]
                       /\ pc'[l[1]] = "lock" => l[2] < printed[l[1]]
    BY <1>1 DEF Numbered
  <2>1. l \in Handed \/ l = line
    BY <1>3, <1>6, <1>8 DEF Handed, Warning
  <2>2. CASE l \in Handed  BY <1>1, <2>2 DEF LinesInv, Numbered
  <2>3. CASE l = line
    <3>1. printed[p] \in 0 .. MaxLines  BY DEF TypeOK
    <3>2. printed[p] <= printed[p]  BY <3>1
    <3>. QED  BY <1>1, <2>3, <3>2
  <2>. QED  BY <2>1, <2>2, <2>3
<1>12. ASSUME NEW q \in Printers, NEW n \in 1 .. printed[q]
       PROVE  \/ <<q, n>> \in closed \cup Range(out) \cup InHand \cup Range(m_oLogList)'
              \/ n = printed[q] /\ pc'[q] = "lock"
  <2>1. \/ <<q, n>> \in closed \cup Range(out) \cup InHand \cup Range(m_oLogList)
        \/ n = printed[q] /\ pc[q] = "lock"
    BY DEF LinesInv, LinesKept
  <2>2. CASE q = p  BY <1>6, <2>1, <2>2
  <2>3. CASE q # p  BY <1>1, <1>6, <2>1, <2>3
  <2>. QED  BY <2>2, <2>3
<1>. QED  BY <1>1, <1>7, <1>8, <1>10, <1>11, <1>12 DEF LinesInv, LinesKept

\* The head of the list goes into LogThread's hands.
LEMMA TakeKeeps ==
  ASSUME TypeOK, LinesInv, Take
  PROVE  LinesInv'
<1>1. /\ logThread = "take" /\ InHand = {}
      /\ UNCHANGED <<pc, printed, closed, out>>
  BY DEF Take, callers, InHand
<1>2. CASE m_oLogList = <<>>
  <2>1. UNCHANGED m_oLogList /\ logThread' = "test"  BY <1>2 DEF Take
  <2>2. InHand' = InHand  BY <1>1, <2>1 DEF InHand
  <2>. QED  BY <1>1, <2>1, <2>2, LinesStay
<1>3. CASE m_oLogList # <<>>
  <2>1. /\ InHand' = {Head(m_oLogList)} /\ m_oLogList' = Tail(m_oLogList)
    BY <1>3 DEF Take, InHand
  <2>2. m_oLogList \in Seq(Lines) /\ Ordered(m_oLogList)
    BY DEF TypeOK, LinesInv, LinesKept
  <2>3. /\ Range(m_oLogList) = {Head(m_oLogList)} \cup Range(Tail(m_oLogList))
        /\ Ordered(Tail(m_oLogList))
        /\ Precede({Head(m_oLogList)}, Range(Tail(m_oLogList)))
    BY <1>3, <2>2, TailOf
  <2>4. InHand' \cup Range(m_oLogList)' = InHand \cup Range(m_oLogList)
    BY <1>1, <2>1, <2>3
  <2>5. Handed' = Handed  BY <1>1, <2>4 DEF Handed
  <2>6. Numbered'  BY <1>1, <2>5 DEF LinesInv, Numbered
  <2>7. Ordered(out)' /\ Precede(Range(out), InHand \cup Range(m_oLogList))'
    BY <1>1, <2>4 DEF LinesInv, LinesKept, Ordered, Precede
  <2>8. Ordered(m_oLogList)' /\ Precede(InHand, Range(m_oLogList))'
    BY <2>1, <2>3 DEF Ordered, Precede
  <2>9. closed' \cup Range(out)' \cup InHand' \cup Range(m_oLogList)' =
          closed \cup Range(out) \cup InHand \cup Range(m_oLogList)
    BY <1>1, <2>4
  <2>10. ASSUME NEW q \in Printers, NEW n \in 1 .. printed[q]
         PROVE  \/ <<q, n>> \in closed' \cup Range(out)' \cup InHand' \cup Range(m_oLogList)'
                \/ n = printed[q] /\ pc[q] = "lock"
    BY <2>9 DEF LinesInv, LinesKept
  <2>. QED  BY <1>1, <2>6, <2>7, <2>8, <2>10 DEF LinesInv, LinesKept
<1>. QED  BY <1>2, <1>3

\* The line in LogThread's hands goes to the output.
LEMMA EmitKeeps ==
  ASSUME TypeOK, LinesInv, Emit
  PROVE  LinesInv'
<1>1. /\ InHand = {poLog} /\ InHand' = {}
      /\ out' = Append(out, poLog)
      /\ UNCHANGED <<m_oLogList, pc, printed, closed>>
  BY DEF Emit, callers, InHand
<1>2. out \in Seq(Lines) /\ poLog \in Lines  BY DEF TypeOK
<1>3. Ordered(out) /\ Precede(Range(out), {poLog})
  BY <1>1 DEF LinesInv, LinesKept, Precede
<1>4. Range(out)' = Range(out) \cup {poLog} /\ Ordered(Append(out, poLog))
  BY <1>1, <1>2, <1>3, AppendOrdered
<1>5. Ordered(out)' /\ Ordered(m_oLogList)'
  BY <1>1, <1>4 DEF Ordered, LinesInv, LinesKept
<1>6. /\ Precede(Range(out), InHand \cup Range(m_oLogList))'
      /\ Precede(InHand, Range(m_oLogList))'
  BY <1>1, <1>4 DEF LinesInv, LinesKept, Precede
<1>7. Handed' = Handed  BY <1>1, <1>4 DEF Handed
<1>8. Numbered'  BY <1>1, <1>7 DEF LinesInv, Numbered
<1>9. ASSUME NEW q \in Printers, NEW n \in 1 .. printed[q]
      PROVE  \/ <<q, n>> \in closed \cup Range(out)' \cup InHand' \cup Range(m_oLogList)
             \/ n = printed[q] /\ pc[q] = "lock"
  BY <1>1, <1>4 DEF LinesInv, LinesKept
<1>. QED  BY <1>1, <1>5, <1>6, <1>8, <1>9 DEF LinesInv, LinesKept

LEMMA LinesNext == TypeOK /\ LinesInv /\ [Next]_vars => LinesInv'
<1>. SUFFICES ASSUME TypeOK, LinesInv, [Next]_vars PROVE LinesInv'  OBVIOUS
<1>. USE DEF stopping, callers, reader
<1>1. CASE CreatePipe  BY <1>1, LinesStay DEF CreatePipe, InHand
<1>2. CASE CreateThread  BY <1>2, LinesStay DEF CreateThread, InHand, TypeOK
<1>3. ASSUME NEW p \in Printers, PrintLine(p)  PROVE LinesInv'
  BY <1>3, PrintLineKeeps
<1>4. ASSUME NEW p \in Printers, Enqueue(p)  PROVE LinesInv'
  BY <1>4, EnqueueKeeps
<1>5. ASSUME NEW p \in Printers, WriteByte(p)  PROVE LinesInv'
  <2>1. \A q \in Printers : pc'[q] = "lock" <=> pc[q] = "lock"
    BY <1>5 DEF WriteByte, TypeOK
  <2>. QED  BY <1>5, <2>1, LinesStay DEF WriteByte, InHand
<1>6. CASE Take  BY <1>6, TakeKeeps
<1>7. CASE Emit  BY <1>7, EmitKeeps
<1>8. CASE Test  BY <1>8, LinesStay DEF Test, InHand
<1>9. CASE Read  BY <1>9, LinesStay DEF Read, InHand
<1>10. CASE Terminate
  BY <1>10, LinesStay DEF Terminate, SetTerminate, Notify, Join, InHand
<1>11. CASE UNCHANGED vars  BY <1>11, LinesStay DEF vars, InHand
<1>. QED
  BY <1>1, <1>2, <1>3, <1>4, <1>5, <1>6, <1>7, <1>8, <1>9, <1>10, <1>11
     DEF Next, Caller, LogThread

\* A line Print has accepted is never lost, doubled or overtaken: from the
\* list (Logger.cpp:175) through LogThread's hands (Logger.cpp:207) to the
\* output each printer's lines keep its own order.
THEOREM LinesAreKept == Spec => []LinesKept
<1>1. LinesInv => LinesKept  BY DEF LinesInv
<1>. QED  BY <1>1, LinesInit, LinesNext, TypeCorrect, PTL DEF Spec

\* All that the background run asks of the logger's safety (Logger.cpp).
THEOREM LoggerIsSafe == Spec => []LoggerSafe
<1>1. TypeOK /\ NoLostWakeup /\ LinesKept /\ DueIsWritten /\ LateLines => LoggerSafe
  BY DEF LoggerSafe
<1>. QED
  BY <1>1, TypeCorrect, WakeupNotLost, LinesAreKept, TerminateDrains, LateBounded, PTL

-----------------------------------------------------------------------------
(* The collector.  Life is inductive together with the types: whoever      *)
(* writes m_active last, a thread on the list without the flag is done     *)
(* with its object.                                                        *)

\* The inductive invariant: a thread on the list without the flag is gone, as
\* is one waited for; the thread being made is where resume has left it, and
\* on no list yet.
Life ==
  /\ \A t \in m_threads : os[t] \in Gone \/ (os[t] = "running" /\ t \in m_active)
  /\ \A t \in deleted \cup waited : os[t] \in Gone
  /\ making \notin m_threads \cup deleted
  /\ stage = "created" => os[making] = "suspended"
  /\ stage = "resumed" => os[making] \in Gone \cup {"running"}
  /\ stage = "active" =>
       os[making] \in Gone \/ (os[making] = "running" /\ making \in m_active)
  /\ destructor # "no" => making = None
  /\ destructor = "done" => m_threads \subseteq waited

LifeIInv == LifeTypeOK /\ Life

\* A new collector has no threads.
LEMMA LifeInitHolds == LifeInit => LifeIInv
  BY ThreadLifeAssumption DEF LifeInit, LifeIInv, LifeTypeOK, Life, Gone

\* The owner's four steps with a thread.
LEMMA OwnerKeeps ==
  ASSUME LifeIInv, NEW t \in Threads,
         Create(t) \/ ResumeThread \/ NoteActive \/ AddThread
  PROVE  LifeIInv'
<1> USE ThreadLifeAssumption DEF LifeIInv, LifeTypeOK, Life, Gone, owner, ends
<1>1. CASE Create(t)
  BY <1>1 DEF Create
<1>2. CASE ResumeThread
  BY <1>2 DEF ResumeThread
<1>3. CASE NoteActive
  BY <1>3 DEF NoteActive
<1>4. CASE AddThread
  BY <1>4 DEF AddThread
<1>5. QED BY <1>1, <1>2, <1>3, <1>4

\* What a thread does at its end.
LEMMA ThreadKeeps ==
  ASSUME LifeIInv, NEW t \in Threads, Leave(t) \/ End(t)
  PROVE  LifeIInv'
<1> USE ThreadLifeAssumption DEF LifeIInv, LifeTypeOK, Life, Gone, owner, ends
<1>1. CASE Leave(t)
  BY <1>1 DEF Leave, ClearsAt
<1>2. CASE End(t)
  BY <1>2 DEF End
<1>3. QED BY <1>1, <1>2

\* The collector's thread and its destructor.
LEMMA CollectorKeeps ==
  ASSUME LifeIInv, Collect \/ Destroy \/ Destructor
  PROVE  LifeIInv'
<1> USE ThreadLifeAssumption
    DEF LifeIInv, LifeTypeOK, Life, Gone, owner, ends, DeleteDeadThreads, Erased
<1>1. CASE Collect
  BY <1>1 DEF Collect
<1>2. CASE Destroy
  BY <1>2 DEF Destroy
<1>3. CASE CollectorEnds
  BY <1>3 DEF CollectorEnds
<1>4. CASE TerminateAll
  BY <1>4 DEF TerminateAll, Asked
<1>5. CASE DeleteAll
  BY <1>5 DEF DeleteAll
<1>6. ASSUME NEW t \in Threads, WaitFor(t)
      PROVE  LifeIInv'
  BY <1>6 DEF WaitFor, WaitIsOver
<1>7. QED BY <1>1, <1>2, <1>3, <1>4, <1>5, <1>6 DEF Destructor

\* Every step keeps the invariant.
LEMMA LifeStepKeeps == LifeIInv /\ [LifeNext]_lifeVars => LifeIInv'
<1> SUFFICES ASSUME LifeIInv, [LifeNext]_lifeVars PROVE LifeIInv'
  OBVIOUS
<1>1. CASE UNCHANGED lifeVars
  BY <1>1 DEF LifeIInv, LifeTypeOK, Life, lifeVars, owner, ends
<1>2. CASE \E t \in Threads : Create(t) \/ Leave(t) \/ End(t)
  BY <1>2, OwnerKeeps, ThreadKeeps
<1>3. CASE ResumeThread \/ NoteActive \/ AddThread
  <2>1. making \in Threads
    BY <1>3 DEF LifeIInv, LifeTypeOK, ResumeThread, NoteActive, AddThread
  <2>2. QED BY <1>3, <2>1, OwnerKeeps
<1>4. CASE Collect \/ Destroy \/ Destructor
  BY <1>4, CollectorKeeps
<1>5. QED BY <1>1, <1>2, <1>3, <1>4 DEF LifeNext

\* The invariant holds in every behaviour.
THEOREM LifeInvariance == LifeSpec => []LifeIInv
  BY LifeInitHolds, LifeStepKeeps, PTL DEF LifeSpec

\* The types; a deleted thread has left the list, so it is deleted once.
THEOREM LifeTypeCorrect == LifeSpec => []LifeTypeOK
<1>1. LifeIInv => LifeTypeOK
  BY DEF LifeIInv
<1>2. QED BY <1>1, LifeInvariance, PTL

\* deleteDeadThreads deletes no object that its thread still uses.
THEOREM NoneDeletedRunning == LifeSpec => []RunningIsKept
<1>1. LifeIInv => RunningIsKept
  BY DEF LifeIInv, Life, RunningIsKept
<1>2. QED BY <1>1, LifeInvariance, PTL

\* A destroyed collector leaves no thread of its own running.
THEOREM AllJoined == LifeSpec => []AllEnded
<1>1. LifeIInv => AllEnded
  BY DEF LifeIInv, Life, LifeTypeOK, AllEnded
<1>2. QED BY <1>1, LifeInvariance, PTL

\* All that the background run asks of the collector (ThreadCollector.cpp).
THEOREM CollectorIsSafe == LifeSpec => []CollectorSafe
<1>1. LifeTypeOK /\ RunningIsKept /\ AllEnded => CollectorSafe
  BY DEF CollectorSafe
<1>2. QED BY <1>1, LifeTypeCorrect, NoneDeletedRunning, AllJoined, PTL

-----------------------------------------------------------------------------
(* The mirror driver's client.                                             *)

\* What a life without a failed call has reached by each step: load leaves the
\* driver attached, on and with a context, whatever the lives before it left
\* behind; each step of dispose() undoes its part.
CleanLife ==
  clean =>
    /\ step \in {"connect", "ready", "disconnect", "unload"} => isLoaded /\ isAttached
    /\ step \in {"ready", "disconnect"} => isConnected
    /\ step \in {"unload", "close", "none"} => ~system.mapped
    /\ step \in {"close", "none"} => ~system.attach /\ ~system.active

DriverIInv == DriverTypeOK /\ CleanLife /\ ReadsWhatIsMapped

LEMMA DriverInitHolds == DriverInit => DriverIInv
<1> SUFFICES ASSUME DriverInit PROVE DriverIInv
  OBVIOUS
<1>1. system \in [attach : BOOLEAN, active : BOOLEAN, mapped : BOOLEAN]
      /\ ~system.attach /\ ~system.active /\ ~system.mapped
  BY DEF DriverInit
<1>2. lives \in 0 .. MaxLives /\ failures \in 0 .. MaxFailures
  BY MirrorDriverAssumption DEF DriverInit
<1>. QED
  BY <1>1, <1>2
  DEF DriverInit, DriverIInv, DriverTypeOK, DriverSteps, CleanLife, ReadsWhatIsMapped

\* The failures of a step, counted up to the bound.
LEMMA FailedIs ==
  ASSUME NEW n \in Nat, Failed(n), DriverTypeOK
  PROVE  /\ failures' \in 0 .. MaxFailures
         /\ clean' \in BOOLEAN
         /\ clean' => clean /\ n = 0
<1>1. failures' = failures + n /\ failures' <= MaxFailures
  BY DEF Failed
<1>2. failures' \in 0 .. MaxFailures
  BY <1>1, MirrorDriverAssumption DEF DriverTypeOK
<1>3. clean' = (clean /\ n = 0)
  BY DEF Failed
<1>. QED  BY <1>2, <1>3, Zenon

\* The constructor's steps.
LEMMA ConstructorKeeps ==
  ASSUME DriverIInv, MakeClient \/ Open \/ Load \/ ConnectDriver
  PROVE  DriverIInv'
<1> USE MirrorDriverAssumption DEF DriverIInv, DriverTypeOK, DriverSteps, CleanLife, ReadsWhatIsMapped
<1>1. CASE MakeClient
  <2>1. lives' \in 0 .. MaxLives
    <3>1. lives \in 0 .. MaxLives /\ lives < MaxLives /\ lives' = lives + 1
      BY <1>1 DEF MakeClient
    <3>. QED  BY <3>1
  <2>2. /\ step' = "open" /\ clean' = TRUE /\ driverDC' = FALSE /\ buffer' = FALSE
        /\ isOpened' = FALSE /\ isLoaded' = FALSE /\ isAttached' = FALSE
        /\ isConnected' = FALSE /\ system' = system /\ failures' = failures
    BY <1>1 DEF MakeClient
  <2>. QED  BY <2>1, <2>2
<1>2. CASE Open
  <2>1. PICK found \in BOOLEAN : Failed(Count(found))
    BY <1>2 DEF Open
  <2>2. Count(found) \in Nat
    BY DEF Count
  <2>3. failures' \in 0 .. MaxFailures /\ clean' \in BOOLEAN
    BY <2>1, <2>2, FailedIs
  <2>. QED  BY <1>2, <2>3 DEF Open
<1>3. CASE Load
  <2>1. PICK set \in BOOLEAN, committed \in BOOLEAN, created \in BOOLEAN :
          LET o == Commit(SetAttach(system, TRUE, set), committed)
          IN  /\ created => o.active
              /\ Failed(Count(set) + Count(committed) + (IF o.active THEN Count(created) ELSE 0))
              /\ system' = o
              /\ isAttached' = (IF set THEN TRUE ELSE isAttached)
              /\ driverDC' = created
              /\ isLoaded' = CountsAsLoaded(created)
    BY <1>3 DEF Load
  <2> DEFINE o == Commit(SetAttach(system, TRUE, set), committed)
             n == Count(set) + Count(committed) + (IF o.active THEN Count(created) ELSE 0)
  <2>2. o \in [attach : BOOLEAN, active : BOOLEAN, mapped : BOOLEAN]
        /\ (set /\ committed => o.active)
    BY DEF Commit, SetAttach
  <2>3. n \in Nat /\ (n = 0 => set /\ committed /\ created)
    <3>1. /\ Count(set) \in Nat /\ Count(committed) \in Nat /\ Count(created) \in Nat
          /\ Count(set) = 0 => set
          /\ Count(committed) = 0 => committed
          /\ Count(created) = 0 => created
      BY DEF Count
    <3>2. set /\ committed => o.active
      BY <2>2
    <3>. HIDE DEF o
    <3>. QED  BY <3>1, <3>2
  <2>4. /\ failures' \in 0 .. MaxFailures /\ clean' \in BOOLEAN
        /\ clean' => set /\ committed /\ created
    <3>. HIDE DEF n
    <3>. QED  BY <2>1, <2>3, FailedIs DEF n
  <2>. HIDE DEF o, n
  <2>5. system' = o
    BY <2>1 DEF o
  <2>. QED  BY <1>3, <2>1, <2>2, <2>4, <2>5 DEF Load, CountsAsLoaded
<1>4. CASE ConnectDriver
  <2>1. PICK ok \in BOOLEAN :
          /\ ok => driverDC
          /\ Failed(IF driverDC THEN Count(ok) ELSE 0)
          /\ system' = [system EXCEPT !.mapped = @ \/ ok]
          /\ buffer' = ok
    BY <1>4 DEF ConnectDriver, TakesBuffer
  <2>2. failures' \in 0 .. MaxFailures /\ clean' \in BOOLEAN /\ (clean' => clean)
    BY <2>1, FailedIs DEF Count
  <2>3. system' \in [attach : BOOLEAN, active : BOOLEAN, mapped : BOOLEAN]
        /\ (ok => system'.mapped)
    BY <2>1
  <2>. QED  BY <1>4, <2>1, <2>2, <2>3 DEF ConnectDriver
<1>. QED  BY <1>1, <1>2, <1>3, <1>4

\* The destructor's steps.
LEMMA DestructorKeeps ==
  ASSUME DriverIInv, DestroyClient \/ Disconnect \/ Unload \/ Close
  PROVE  DriverIInv'
<1> USE MirrorDriverAssumption DEF DriverIInv, DriverTypeOK, DriverSteps, CleanLife, ReadsWhatIsMapped
<1>1. CASE DestroyClient
  BY <1>1 DEF DestroyClient, clientFlags
<1>2. CASE Disconnect /\ isConnected
  <2>1. PICK ok \in BOOLEAN :
          /\ ok => driverDC
          /\ Failed(IF driverDC THEN Count(ok) ELSE 0)
          /\ system' = [system EXCEPT !.mapped = @ /\ ~ ok]
    BY <1>2 DEF Disconnect
  <2>2. /\ failures' \in 0 .. MaxFailures /\ clean' \in BOOLEAN
        /\ clean' => clean /\ (driverDC => ok)
    BY <2>1, FailedIs DEF Count
  <2>3. system' \in [attach : BOOLEAN, active : BOOLEAN, mapped : BOOLEAN]
        /\ (ok => ~system'.mapped)
    BY <2>1
  <2>. QED  BY <1>2, <2>1, <2>2, <2>3 DEF Disconnect
<1>3. CASE Disconnect /\ ~isConnected
  BY <1>3 DEF Disconnect
<1>4. CASE Unload /\ isLoaded /\ isAttached
  <2>1. PICK set \in BOOLEAN, committed \in BOOLEAN :
          /\ Failed(Count(set) + Count(committed))
          /\ system' = Commit(Detach(system, set), committed)
          /\ isAttached' = (IF set THEN FALSE ELSE isAttached)
    BY <1>4 DEF Unload
  <2>2. /\ failures' \in 0 .. MaxFailures /\ clean' \in BOOLEAN
        /\ clean' => clean /\ set /\ committed
    BY <2>1, FailedIs DEF Count
  <2>3. /\ system' \in [attach : BOOLEAN, active : BOOLEAN, mapped : BOOLEAN]
        /\ system'.mapped = system.mapped
        /\ set /\ committed => ~system'.attach /\ ~system'.active
    BY <2>1 DEF Commit, Detach, SetAttach
  <2>. QED  BY <1>4, <2>1, <2>2, <2>3 DEF Unload
<1>5. CASE Unload /\ ~(isLoaded /\ isAttached)
  BY <1>5 DEF Unload
<1>6. CASE Close
  BY <1>6 DEF Close
<1>. QED  BY <1>1, <1>2, <1>3, <1>4, <1>5, <1>6

THEOREM DriverInvariance == DriverSpec => []DriverIInv
<1>1. DriverIInv /\ [DriverNext]_driverVars => DriverIInv'
  <2>1. ASSUME DriverIInv, UNCHANGED driverVars PROVE DriverIInv'
    BY <2>1 DEF driverVars, clientFlags, DriverIInv, DriverTypeOK, CleanLife, ReadsWhatIsMapped
  <2>. QED  BY <2>1, ConstructorKeeps, DestructorKeeps DEF DriverNext
<1>. QED  BY <1>1, DriverInitHolds, PTL DEF DriverSpec

\* The driver client's variables keep their types; the object counts as loaded
\* as long as it has a device context.
THEOREM DriverTypeCorrect == DriverSpec => []DriverTypeOK
<1>1. DriverIInv => DriverTypeOK
  BY DEF DriverIInv
<1>. QED  BY <1>1, DriverInvariance, PTL

\* A life in which every call succeeds leaves the driver detached, off and with
\* nothing mapped, however the lives before it failed (MirrorDriverClient.cpp:72-83).
THEOREM CleanLifeLeavesItOff == DriverSpec => []LeavesItOff
<1>1. DriverIInv => LeavesItOff
  BY DEF DriverIInv, CleanLife, LeavesItOff
<1>. QED  BY <1>1, DriverInvariance, PTL

\* What the detector and grab() read through the client is mapped, whichever
\* calls have failed (MirrorDriverClient.cpp:353-372).
THEOREM BuffersAreMapped == DriverSpec => []ReadsWhatIsMapped
<1>1. DriverIInv => ReadsWhatIsMapped
  BY DEF DriverIInv
<1>. QED  BY <1>1, DriverInvariance, PTL

\* All that the background run asks of the driver's client
\* (MirrorDriverClient.cpp).
THEOREM DriverIsSafe == DriverSpec => []DriverSafe
<1>1. DriverTypeOK /\ LeavesItOff /\ ReadsWhatIsMapped => DriverSafe
  BY DEF DriverSafe
<1>. QED  BY <1>1, DriverTypeCorrect, CleanLifeLeavesItOff, BuffersAreMapped, PTL
=============================================================================
