---------------------------- MODULE NetworkProofs ----------------------------
(***************************************************************************)
(* Proofs about what carries frames and messages: the queue of frames of   *)
(* the viewing side, for any number of windows, rooms and frames; the mail *)
(* box, for any number of senders and messages, any size of the socket, on *)
(* Linux and on Windows, with and without a time limit; and ENet, its      *)
(* handshake for any number of slots and of session numbers, and its       *)
(* channels.                                                               *)
(***************************************************************************)
EXTENDS FrameQueue, MailBox, EnetConnect, EnetChannel, FiniteSetTheorems,
        SequenceTheorems, WellFoundedInduction, TLAPS

-----------------------------------------------------------------------------
(* The frames.                                                             *)

\* While a batch waits and nothing draws, every window opened by BUILD_RET has a
\* slot call queued: the inductive form of BatchIsSignalled.  One call for one
\* of them would not be enough, as its window may be closed.
EachIsSignalled ==
  oneFrame # <<>> /\ gui # "onPaintDataChanged" =>
    \A v \in Viewers : window[v] = "onBuildRet" => posted[v] > 0

\* The inductive invariant.
IInv == TypeOK /\ NoDanglingViewer /\ EachIsSignalled

\* At the start there is no window and no frame.
LEMMA InvInit == Init => IInv
BY FrameQueueAssumption
DEF Init, IInv, TypeOK, NoDanglingViewer, EachIsSignalled, Open

\* Every step keeps the types.
LEMMA TypeNext == TypeOK /\ [Next]_vars => TypeOK'
<1>. SUFFICES ASSUME TypeOK, [Next]_vars PROVE TypeOK'  OBVIOUS
<1>. USE FrameQueueAssumption DEF TypeOK, lists, windows
<1>1. ASSUME NEW n \in 0..MaxPacket, OnFrameSync(n)  PROVE TypeOK'
  BY <1>1 DEF OnFrameSync
<1>2. CASE AddClientFrame
  <2>1. accepted + 1 \in 1..MaxFrames  BY <1>2 DEF AddClientFrame
  <2>2. clientList' \in Seq(1..MaxFrames)  BY <1>2, <2>1 DEF AddClientFrame
  <2>. QED  BY <1>2, <2>1, <2>2 DEF AddClientFrame
<1>3. CASE SkipClientFrame  BY <1>3 DEF SkipClientFrame
<1>4. CASE OnFrameSyncEnd  BY <1>4 DEF OnFrameSyncEnd
<1>5. ASSUME NEW v \in Viewers, NEW room \in Rooms, OnBuildRet(v, room)  PROVE TypeOK'
  BY <1>5 DEF OnBuildRet, OpenViewer
<1>6. ASSUME NEW v \in Viewers, OnBtnBuild(v)  PROVE TypeOK'
  BY <1>6 DEF OnBtnBuild, OpenViewer
<1>7. ASSUME NEW v \in Viewers, OnViewerClose(v)  PROVE TypeOK'
  BY <1>7 DEF OnViewerClose
<1>8. ASSUME NEW v \in Viewers, OnPaintDataChanged(v)  PROVE TypeOK'
  BY <1>8 DEF OnPaintDataChanged
<1>9. ASSUME NEW room \in Rooms, OnUnbuildRet(room)  PROVE TypeOK'
  BY <1>9 DEF OnUnbuildRet
<1>10. CASE GetClientFrame
  <2>1. CASE oneFrame # <<>>
    <3>1. /\ oneFrame' = Tail(oneFrame) /\ drawn' = Append(drawn, Head(oneFrame))
          /\ Head(oneFrame) \in 1..MaxFrames
      BY <1>10, <2>1 DEF GetClientFrame
    <3>2. oneFrame' \in Seq(1..MaxFrames) /\ drawn' \in Seq(1..MaxFrames)
      BY <3>1, <2>1
    <3>. QED  BY <1>10, <3>2 DEF GetClientFrame
  <2>2. CASE oneFrame = <<>>  BY <1>10, <2>2 DEF GetClientFrame
  <2>. QED  BY <2>1, <2>2
<1>11. CASE UpdateClient
  BY <1>11 DEF UpdateClient, Emit
<1>12. CASE UNCHANGED vars  BY <1>12 DEF vars
<1>. QED
  BY <1>1, <1>2, <1>3, <1>4, <1>5, <1>6, <1>7, <1>8, <1>9, <1>10, <1>11, <1>12 DEF Next

\* Only opening and closing a window touch what NoDanglingViewer speaks of,
\* apart from the queued calls.
LEMMA WindowNext == TypeOK /\ NoDanglingViewer /\ [Next]_vars => NoDanglingViewer'
<1>. SUFFICES ASSUME TypeOK, NoDanglingViewer, [Next]_vars PROVE NoDanglingViewer'
  OBVIOUS
<1>. USE FrameQueueAssumption DEF TypeOK, NoDanglingViewer, Open, lists, windows
<1>1. CASE UNCHANGED <<windows, posted>>  BY <1>1
<1>2. ASSUME NEW v \in Viewers, NEW room \in Rooms, OnBuildRet(v, room)
      PROVE  NoDanglingViewer'
  BY <1>2 DEF OnBuildRet, OpenViewer
<1>3. ASSUME NEW v \in Viewers, OnBtnBuild(v)  PROVE NoDanglingViewer'
  BY <1>3 DEF OnBtnBuild, OpenViewer
<1>4. ASSUME NEW v \in Viewers, OnViewerClose(v)  PROVE NoDanglingViewer'
  BY <1>4 DEF OnViewerClose
<1>5. ASSUME NEW v \in Viewers, OnPaintDataChanged(v)  PROVE NoDanglingViewer'
  BY <1>5 DEF OnPaintDataChanged
<1>6. ASSUME NEW room \in Rooms, OnUnbuildRet(room)  PROVE NoDanglingViewer'
  BY <1>6 DEF OnUnbuildRet
<1>7. CASE UpdateClient
  BY <1>7 DEF UpdateClient, Emit
<1>. QED
  BY <1>1, <1>2, <1>3, <1>4, <1>5, <1>6, <1>7
  DEF Next, OnFrameSync, AddClientFrame, SkipClientFrame, OnFrameSyncEnd, GetClientFrame,
      vars

\* A batch is emptied, its windows keep their calls, or the drawing loop runs.
LEMMA SignalNext ==
  ASSUME TypeOK, NoDanglingViewer, EachIsSignalled, [Next]_vars
  PROVE  EachIsSignalled'
<1>. USE DEF TypeOK, EachIsSignalled, lists, windows
<1>1. ASSUME NEW n \in 0..MaxPacket, OnFrameSync(n)  PROVE EachIsSignalled'
  BY <1>1 DEF OnFrameSync
<1>2. CASE AddClientFrame \/ SkipClientFrame \/ OnFrameSyncEnd
  BY <1>2 DEF AddClientFrame, SkipClientFrame, OnFrameSyncEnd
<1>3. ASSUME NEW v \in Viewers, NEW room \in Rooms, OnBuildRet(v, room)
      PROVE  EachIsSignalled'
  BY <1>3 DEF OnBuildRet
<1>4. ASSUME NEW v \in Viewers, OnBtnBuild(v)  PROVE EachIsSignalled'
  BY <1>4 DEF OnBtnBuild, OpenViewer
<1>5. ASSUME NEW v \in Viewers, OnViewerClose(v)  PROVE EachIsSignalled'
  BY <1>5 DEF OnViewerClose
<1>6. ASSUME NEW v \in Viewers, OnPaintDataChanged(v)  PROVE EachIsSignalled'
  BY <1>6 DEF OnPaintDataChanged
<1>7. ASSUME NEW room \in Rooms, OnUnbuildRet(room)  PROVE EachIsSignalled'
  BY <1>7 DEF OnUnbuildRet
<1>8. CASE GetClientFrame  BY <1>8 DEF GetClientFrame
<1>9. CASE UpdateClient
  BY <1>9 DEF UpdateClient, Emit, Open
<1>10. CASE UNCHANGED vars  BY <1>10 DEF vars
<1>. QED
  BY <1>1, <1>2, <1>3, <1>4, <1>5, <1>6, <1>7, <1>8, <1>9, <1>10 DEF Next

\* So the invariant holds in every reachable state.
LEMMA InvHolds == Spec => []IInv
<1>1. IInv /\ [Next]_vars => IInv'
  BY TypeNext, WindowNext, SignalNext DEF IInv
<1>. QED  BY <1>1, InvInit, PTL DEF Spec

\* Every variable of the frame queue has its type.
THEOREM TypeCorrect == Spec => []TypeOK
BY InvHolds, PTL DEF IInv

\* However many windows are opened and closed, map entry and queued slot calls
\* are those of windows that exist.
THEOREM NoDanglingViewerHolds == Spec => []NoDanglingViewer
BY InvHolds, PTL DEF IInv

\* No batch is forgotten while a window opened by BUILD_RET is there.
THEOREM BatchIsSignalledHolds == Spec => []BatchIsSignalled
<1>1. IInv => BatchIsSignalled
  BY DEF IInv, EachIsSignalled, BatchIsSignalled
<1>. QED  BY <1>1, InvHolds, PTL

-----------------------------------------------------------------------------
(* The two lists are one queue.                                            *)

\* Appending to the second part of a sequence appends to the whole.
LEMMA ConcatAppend ==
  ASSUME NEW S, NEW s \in Seq(S), NEW t \in Seq(S), NEW e \in S
  PROVE  s \o Append(t, e) = Append(s \o t, e)
<1>1. /\ s \o t \in Seq(S) /\ Append(t, e) \in Seq(S)
      /\ Append(s \o t, e) \in Seq(S) /\ s \o Append(t, e) \in Seq(S)
  BY ConcatProperties
<1>2. Len(s \o Append(t, e)) = Len(Append(s \o t, e))
  BY <1>1, ConcatProperties
<1>3. ASSUME NEW i \in 1 .. Len(s \o Append(t, e))
      PROVE  (s \o Append(t, e))[i] = Append(s \o t, e)[i]
  <2>1. /\ Len(t) \in Nat /\ Len(s) \in Nat /\ Len(Append(t, e)) = Len(t) + 1
        /\ Len(s \o t) = Len(s) + Len(t) /\ i \in 1 .. Len(s) + (Len(t) + 1)
    BY <1>1, ConcatProperties, LenProperties
  <2>2. (s \o Append(t, e))[i] = IF i <= Len(s) THEN s[i] ELSE Append(t, e)[i - Len(s)]
    <3>1. i \in 1 .. Len(s) + Len(Append(t, e))  BY <2>1
    <3>. QED  BY <1>1, <3>1, ConcatProperties, Zenon
  <2>3. Append(s \o t, e)[i] = IF i <= Len(s) + Len(t) THEN (s \o t)[i] ELSE e
    BY <1>1, <2>1
  <2>4. i <= Len(s) + Len(t) => (s \o t)[i] = IF i <= Len(s) THEN s[i] ELSE t[i - Len(s)]
    BY <2>1, ConcatProperties
  <2>5. i > Len(s) => Append(t, e)[i - Len(s)] = IF i <= Len(s) + Len(t) THEN t[i - Len(s)] ELSE e
    BY <2>1
  <2>. QED  BY <2>1, <2>2, <2>3, <2>4, <2>5
<1>. QED  BY <1>1, <1>2, <1>3, SeqEqual

\* The first element of a concatenation is that of its first part.
LEMMA ConcatTail ==
  ASSUME NEW S, NEW s \in Seq(S), NEW t \in Seq(S), s # <<>>
  PROVE  /\ s \o t # <<>>
         /\ Head(s \o t) = Head(s)
         /\ Tail(s \o t) = Tail(s) \o t
<1>1. s \o t \in Seq(S) /\ s \o t # <<>>
  BY ConcatProperties, EmptySeq
<1>2. Tail(s) \in Seq(S) /\ Tail(s \o t) \in Seq(S) /\ Tail(s) \o t \in Seq(S)
  BY <1>1, HeadTailProperties, ConcatProperties
<1>3. Len(Tail(s \o t)) = Len(Tail(s) \o t)
  BY <1>1, <1>2, HeadTailProperties, ConcatProperties
<1>4. ASSUME NEW i \in 1 .. Len(Tail(s \o t))
      PROVE  Tail(s \o t)[i] = (Tail(s) \o t)[i]
  <2>1. Tail(s \o t)[i] = (s \o t)[i + 1]
    BY <1>1, HeadTailProperties
  <2>2. CASE i + 1 <= Len(s)
    BY <2>1, <2>2, <1>1, <1>2, HeadTailProperties, ConcatProperties
  <2>3. CASE i + 1 > Len(s)
    BY <2>1, <2>3, <1>1, <1>2, HeadTailProperties, ConcatProperties
  <2>. QED  BY <2>2, <2>3, LenProperties
<1>5. Tail(s \o t) = Tail(s) \o t
  BY <1>2, <1>3, <1>4, SeqEqual
<1>6. Head(s \o t) = Head(s)
  BY <1>1, ConcatProperties, EmptySeq
<1>. QED  BY <1>1, <1>5, <1>6

\* At the start nothing waits.
LEMMA FifoInit == Init => Fifo!Init
BY ConcatEmptySeq DEF Init, Fifo!Init

\* A frame is accepted at the back of the two lists, drawn from their front, and
\* moving the list to the batch changes nothing.
LEMMA FifoNext ==
  ASSUME TypeOK, [Next]_vars
  PROVE  [Fifo!Next]_Fifo!vars
<1>. USE FrameQueueAssumption DEF TypeOK
<1>1. CASE AddClientFrame
  <2>1. accepted + 1 \in 1..MaxFrames  BY <1>1 DEF AddClientFrame
  <2>2. oneFrame' \o clientList' = Append(oneFrame \o clientList, accepted + 1)
    BY <1>1, <2>1, ConcatAppend DEF AddClientFrame
  <2>3. drawn' = drawn  BY <1>1 DEF AddClientFrame
  <2>4. Fifo!Accept(accepted + 1)  BY <2>2, <2>3 DEF Fifo!Accept
  <2>. QED  BY <2>1, <2>4 DEF Fifo!Next
<1>2. CASE GetClientFrame
  <2>1. CASE oneFrame # <<>>
    <3>1. /\ oneFrame' = Tail(oneFrame) /\ drawn' = Append(drawn, Head(oneFrame))
          /\ clientList' = clientList
      BY <1>2, <2>1 DEF GetClientFrame
    <3>2. /\ oneFrame \o clientList # <<>>
          /\ Head(oneFrame \o clientList) = Head(oneFrame)
          /\ Tail(oneFrame \o clientList) = Tail(oneFrame) \o clientList
      BY <2>1, ConcatTail
    <3>. QED  BY <3>1, <3>2 DEF Fifo!Next, Fifo!Draw
  <2>2. CASE oneFrame = <<>>
    BY <1>2, <2>2 DEF GetClientFrame, Fifo!vars
  <2>. QED  BY <2>1, <2>2
<1>3. CASE UpdateClient
  <2>1. /\ oneFrame = <<>> /\ oneFrame' = clientList /\ clientList' = <<>>
        /\ drawn' = drawn
    BY <1>3 DEF UpdateClient
  <2>2. oneFrame' \o clientList' = oneFrame \o clientList
    BY <2>1, ConcatEmptySeq
  <2>. QED  BY <2>1, <2>2 DEF Fifo!vars
<1>4. CASE UNCHANGED lists
  BY <1>4 DEF lists, Fifo!vars
<1>. QED
  BY <1>1, <1>2, <1>3, <1>4
  DEF Next, OnFrameSync, SkipClientFrame, OnFrameSyncEnd, OnBuildRet, OnBtnBuild,
      OnViewerClose, OnPaintDataChanged, OnUnbuildRet, vars

\* The two lists, filled by one thread, moved by another and drained from any
\* number of windows, implement one queue: no frame is lost, drawn twice or drawn
\* out of order.
THEOREM FrameQueueImplementsFifo == Spec => ImplementsFifo
<1>1. IInv /\ [Next]_vars => [Fifo!Next]_Fifo!vars
  BY FifoNext DEF IInv
<1>. QED
  BY <1>1, FifoInit, InvHolds, PTL DEF Spec, ImplementsFifo, Fifo!Spec

-----------------------------------------------------------------------------
(* The mail box.                                                           *)

\* InOrder speaks of the messages received and the messages queued as one
\* sequence; this is that sequence, and what each step does to it.
All == received \o m_oMsgList

\* The numbers up to n, in order.
UpTo(s, n) == Len(s) = n /\ \A i \in 1..n : s[i] = i

LEMMA UpToAppend ==
  ASSUME NEW n \in Nat, NEW s \in Seq(Nat), UpTo(s, n)
  PROVE  UpTo(Append(s, n + 1), n + 1)
BY DEF UpTo

\* Putting a message on the list appends it to the whole.
LEMMA AppendToSecond ==
  ASSUME NEW S, NEW a \in Seq(S), NEW b \in Seq(S), NEW x \in S
  PROVE  a \o Append(b, x) = Append(a \o b, x)
<1>1. /\ a \o Append(b, x) \in Seq(S) /\ Append(a \o b, x) \in Seq(S)
      /\ Len(a \o Append(b, x)) = Len(a) + Len(b) + 1
      /\ Len(Append(a \o b, x)) = Len(a) + Len(b) + 1
  OBVIOUS
<1>2. \A i \in 1 .. Len(a) + Len(b) + 1 : (a \o Append(b, x))[i] = Append(a \o b, x)[i]
  OBVIOUS
<1> QED  BY <1>1, <1>2, SeqEqual

\* Receiving the first message of the list leaves the whole as it is.
LEMMA MoveHead ==
  ASSUME NEW S, NEW a \in Seq(S), NEW b \in Seq(S), b # <<>>
  PROVE  Append(a, Head(b)) \o Tail(b) = a \o b
<1>1. /\ Append(a, Head(b)) \o Tail(b) \in Seq(S) /\ a \o b \in Seq(S)
      /\ Len(Append(a, Head(b)) \o Tail(b)) = Len(a) + Len(b)
      /\ Len(a \o b) = Len(a) + Len(b)
  OBVIOUS
<1>2. \A i \in 1 .. Len(a) + Len(b) : (Append(a, Head(b)) \o Tail(b))[i] = (a \o b)[i]
  OBVIOUS
<1> QED  BY <1>1, <1>2, SeqEqual

-----------------------------------------------------------------------------
LEMMA InitTyped == MailInit => MailTypeOK
BY MailBoxAssumption DEF MailInit, MailTypeOK

\* A look at the list keeps the types.
LEMMA LookTyped ==
  ASSUME MailTypeOK, NEW p, Look(p)
  PROVE  m_oMsgList' \in Seq(1..MaxMsgs) /\ received' \in Seq(1..MaxMsgs) /\ recv' \in {"idle", p}
<1>1. CASE m_oMsgList = <<>>
  BY <1>1 DEF Look, MailTypeOK
<1>2. CASE m_oMsgList # <<>>
  <2> DEFINE S == 1..MaxMsgs
  <2>0. m_oMsgList \in Seq(S) /\ received \in Seq(S)
    BY DEF MailTypeOK
  <2> HIDE DEF S
  <2>1. Head(m_oMsgList) \in S /\ Tail(m_oMsgList) \in Seq(S)
    BY <1>2, <2>0
  <2>2. Append(received, Head(m_oMsgList)) \in Seq(S)
    BY <2>0, <2>1
  <2> QED  BY <1>2, <2>1, <2>2 DEF Look, S
<1> QED  BY <1>1, <1>2

\* Every step keeps the types.
LEMMA NextTyped == MailTypeOK /\ [MailNext]_mailVars => MailTypeOK'
<1> SUFFICES ASSUME MailTypeOK, [MailNext]_mailVars  PROVE MailTypeOK'
  OBVIOUS
<1> USE MailBoxAssumption DEF MailTypeOK
<1>1. ASSUME NEW s \in Senders, PushBack(s)  PROVE MailTypeOK'
  <2>1. sent + 1 \in 1..MaxMsgs /\ sent' \in 0..MaxMsgs
    BY <1>1 DEF PushBack
  <2>2. m_oMsgList' \in Seq(1..MaxMsgs)
    BY <1>1, <2>1 DEF PushBack, PushedBack
  <2>3. owes' \in [Senders -> 0..MaxMsgs]
    BY <1>1, <2>1 DEF PushBack
  <2> QED  BY <1>1, <2>1, <2>2, <2>3 DEF PushBack, receiver
<1>2. ASSUME NEW s \in Senders, Notify(s)  PROVE MailTypeOK'
  <2>1. bytes' \in 0..SockSize
    BY <1>2 DEF Notify
  <2>2. failed' \subseteq 1..MaxMsgs
    <3>1. owes[s] \in 1..MaxMsgs
      BY <1>2 DEF Notify
    <3> QED  BY <1>2, <3>1 DEF Notify
  <2>3. owes' \in [Senders -> 0..MaxMsgs]
    BY <1>2 DEF Notify
  <2> QED  BY <1>2, <2>1, <2>2, <2>3 DEF Notify, receiver
<1>3. CASE Call
  BY <1>3 DEF Call, senders
<1>4. CASE FirstLook
  BY <1>4, LookTyped DEF FirstLook, senders
<1>5. CASE SecondLook
  BY <1>5, LookTyped DEF SecondLook, senders
<1>6. CASE WakeUp
  BY <1>6 DEF WakeUp, Taken, senders
<1>7. CASE TimeOut
  BY <1>7 DEF TimeOut, senders
<1>8. CASE UNCHANGED mailVars
  BY <1>8 DEF mailVars, senders, receiver
<1> QED  BY <1>1, <1>2, <1>3, <1>4, <1>5, <1>6, <1>7, <1>8 DEF MailNext, Recv

\* What the program reads and writes always has its type.
THEOREM MailTypeCorrect == MailSpec => []MailTypeOK
<1> QED  BY InitTyped, NextTyped, PTL DEF MailSpec

-----------------------------------------------------------------------------
\* A look at the list does not change the whole.
LEMMA LookKeepsOrder ==
  ASSUME MailTypeOK, InOrder, NEW p, Look(p), sent' = sent
  PROVE  InOrder'
<1>1. CASE m_oMsgList = <<>>
  BY <1>1 DEF Look, InOrder
<1>2. CASE m_oMsgList # <<>>
  <2>1. received' \o m_oMsgList' = received \o m_oMsgList
    BY <1>2, MoveHead DEF Look, MailTypeOK
  <2> QED  BY <2>1 DEF InOrder
<1> QED  BY <1>1, <1>2

LEMMA NextInOrder == MailTypeOK /\ InOrder /\ [MailNext]_mailVars => InOrder'
<1> SUFFICES ASSUME MailTypeOK, InOrder, [MailNext]_mailVars  PROVE InOrder'
  OBVIOUS
<1>1. ASSUME NEW s \in Senders, PushBack(s)  PROVE InOrder'
  <2>1. /\ received \in Seq(Nat) /\ m_oMsgList \in Seq(Nat) /\ sent \in Nat
        /\ All \in Seq(Nat) /\ UpTo(All, sent)
    <3>1. received \in Seq(Nat) /\ m_oMsgList \in Seq(Nat) /\ sent \in Nat
      BY MailBoxAssumption DEF MailTypeOK
    <3> QED  BY <3>1 DEF InOrder, All, UpTo
  <2>2. received' \o m_oMsgList' = Append(All, sent + 1)
    BY <1>1, <2>1, AppendToSecond DEF PushBack, PushedBack, receiver, All
  <2>3. UpTo(received' \o m_oMsgList', sent + 1)
    BY <2>1, <2>2, UpToAppend
  <2> QED  BY <1>1, <2>3 DEF PushBack, InOrder, UpTo
<1>2. ASSUME NEW s \in Senders, Notify(s)  PROVE InOrder'
  BY <1>2 DEF Notify, receiver, InOrder
<1>3. CASE Call
  BY <1>3 DEF Call, senders, InOrder
<1>4. CASE FirstLook
  BY <1>4, LookKeepsOrder DEF FirstLook, senders
<1>5. CASE SecondLook
  BY <1>5, LookKeepsOrder DEF SecondLook, senders
<1>6. CASE WakeUp
  BY <1>6 DEF WakeUp, senders, InOrder
<1>7. CASE TimeOut
  BY <1>7 DEF TimeOut, senders, InOrder
<1>8. CASE UNCHANGED mailVars
  BY <1>8 DEF mailVars, senders, receiver, InOrder
<1> QED  BY <1>1, <1>2, <1>3, <1>4, <1>5, <1>6, <1>7, <1>8 DEF MailNext, Recv

\* Nothing is lost, doubled or overtaken: the messages received and the
\* messages queued are those that were sent, in the order of the list.
THEOREM OrderKept == MailSpec => []InOrder
<1>1. MailInit => InOrder
  BY DEF MailInit, InOrder
<1> QED  BY <1>1, InitTyped, NextTyped, NextInOrder, PTL DEF MailSpec

-----------------------------------------------------------------------------
\* The property is inductive with the types: a message that finds the list
\* empty leaves its sender owing a byte, and the byte is in the socket when
\* the debt is gone, because a socket that refuses it has one already.
LEMMA NextAwake == MailTypeOK /\ NoLostWakeup /\ [MailNext]_mailVars => NoLostWakeup'
<1> SUFFICES ASSUME MailTypeOK, NoLostWakeup, [MailNext]_mailVars,
                    recv' = "wait", m_oMsgList' # <<>>
             PROVE  bytes' > 0 \/ \E s \in Senders : owes'[s] # 0
  BY DEF NoLostWakeup
<1> USE MailBoxAssumption DEF MailTypeOK
<1>1. ASSUME NEW s \in Senders, PushBack(s)
      PROVE  bytes' > 0 \/ \E t \in Senders : owes'[t] # 0
  <2>1. CASE m_oMsgList = <<>>
    <3>1. Len(m_oMsgList') = 1
      BY <1>1, <2>1 DEF PushBack, PushedBack
    <3> QED  BY <1>1, <3>1 DEF PushBack, NeedsByte
  <2>2. CASE m_oMsgList # <<>>
    <3>1. bytes > 0 \/ \E t \in Senders : owes[t] # 0
      BY <1>1, <2>2 DEF PushBack, receiver, NoLostWakeup
    <3>2. CASE bytes > 0
      BY <1>1, <3>2 DEF PushBack
    <3>3. ASSUME NEW t \in Senders, owes[t] # 0  PROVE owes'[t] # 0
      BY <1>1, <3>3 DEF PushBack
    <3> QED  BY <3>1, <3>2, <3>3
  <2> QED  BY <2>1, <2>2
<1>2. ASSUME NEW s \in Senders, Notify(s)  PROVE bytes' > 0
  BY <1>2 DEF Notify
<1>3. CASE Call
  BY <1>3 DEF Call
<1>4. CASE FirstLook
  BY <1>4 DEF FirstLook, Look
<1>5. CASE SecondLook
  BY <1>5 DEF SecondLook, Look
<1>6. CASE WakeUp
  BY <1>6 DEF WakeUp
<1>7. CASE TimeOut
  BY <1>7 DEF TimeOut
<1>8. CASE UNCHANGED mailVars
  BY <1>8 DEF mailVars, senders, receiver, NoLostWakeup
<1> QED  BY <1>1, <1>2, <1>3, <1>4, <1>5, <1>6, <1>7, <1>8 DEF MailNext, Recv

\* The receiver never sleeps beside a message that no byte is coming for,
\* however many senders there are and however small the socket is.
THEOREM NeverAsleep == MailSpec => []NoLostWakeup
<1>1. MailInit => NoLostWakeup
  BY DEF MailInit, NoLostWakeup
<1> QED  BY <1>1, InitTyped, NextTyped, NextAwake, PTL DEF MailSpec

\* All that the network run asks of the mail box's safety (MailBox.h).
THEOREM MailIsSafe == MailSpec => []MailSafe
<1>1. MailTypeOK /\ InOrder /\ NoLostWakeup => MailSafe  BY DEF MailSafe
<1> QED  BY <1>1, MailTypeCorrect, OrderKept, NeverAsleep, PTL

-----------------------------------------------------------------------------
(***************************************************************************)
(* The handshake, for any number of slots and restarts, and as many        *)
(* attempts to connect as there are session numbers: with one attempt more *)
(* TLC finds a datagram of an old connection taken for one of a new one,   *)
(* so the hypothesis is the weakest there is.                              *)
(*                                                                         *)
(* As long as the session number has not come round, it grows from one     *)
(* connection the client has completed to whatever is begun later, and a   *)
(* slot is never behind what it has sent: between them the two tell every  *)
(* old datagram from a new one.                                            *)
(***************************************************************************)

Live(s) == slot[s].state # "disconnected"

\* What the client has sent: a connectID in one of these is that of a
\* connection the client had completed.
Completed == {h \in headers : h.to # None}

\* Where the session number x is known, it is below n.
Below(x, n) == x # None => x < n

\* The client's connection is the last that was begun.  Nothing is on the
\* network under it before it is completed, and then under one header only.
ClientWaits ==
  /\ client.state \in {"connecting", "zombie", "connected"} => client.connectID = randomSeed
  /\ client.state = "connecting" => randomSeed > 0 /\ \A h \in headers : h.connectID < randomSeed
  /\ client.state = "connected" =>
       /\ ClientHeader(client) \in Completed
       /\ \A h \in Completed : h.connectID = randomSeed => h = ClientHeader(client)

\* No connectID is ahead of the client's seed.
Issued ==
  /\ \A c \in connects : c.connectID <= randomSeed
  /\ \A v \in verifies : v.connectID <= randomSeed
  /\ \A h \in headers : h.connectID <= randomSeed
  /\ \A s \in Slots :
       /\ slot[s].connectID <= randomSeed
       /\ Live(s) => slot[s].connectID > 0 /\ slot[s].session # None

\* The session number lags behind the connectID, by one more where another is
\* to be computed from it: it has not come round.
NoWrap ==
  /\ Below(client.session, randomSeed)
  /\ \A c \in connects : Below(c.session, c.connectID - 1)
  /\ \A v \in verifies : v.session < v.connectID
  /\ \A s \in Slots :
       IF Live(s) THEN slot[s].session < slot[s].connectID
       ELSE /\ Below(slot[s].session, randomSeed)
            /\ \A c \in connects : Below(slot[s].session, c.connectID - 1)

\* A slot serves no connection older than one it has answered, nor will it.
NotBehind ==
  \A v \in verifies :
    IF Live(v.slot) THEN v.connectID <= slot[v.slot].connectID
    ELSE \A c \in connects : v.connectID <= c.connectID

\* The session number of a completed connection is below that of any later.
Grows ==
  \A h \in Completed :
    /\ client.session # None /\ h.session <= client.session
    /\ client.state = "connected" /\ h.connectID < client.connectID => h.session < client.session
    /\ \A c \in connects : h.connectID < c.connectID => c.session # None /\ h.session <= c.session
    /\ \A v \in verifies : h.connectID < v.connectID => h.session < v.session
    /\ \A s \in Slots : Live(s) /\ h.connectID < slot[s].connectID => h.session < slot[s].session

\* The client completes what a slot has verified; a slot speaks, and is
\* connected, when it has heard the client.
Heard ==
  /\ \A h \in Completed : [slot |-> h.to, session |-> h.session, connectID |-> h.connectID] \in verifies
  /\ \A h \in headers : \E g \in Completed : g.session = h.session /\ g.connectID = h.connectID
  /\ \A s \in Slots : slot[s].state = "connected" =>
       [to |-> s, session |-> slot[s].session, connectID |-> slot[s].connectID] \in headers

HandshakeInv ==
  /\ HandshakeTypeOK /\ OneSlotEach /\ ProgramKnows
  /\ ClientWaits /\ Issued /\ NoWrap /\ NotBehind /\ Grows /\ Heard

LEMMA SlotsAreNumbers == Slots \subseteq Nat /\ None \notin Slots /\ None \notin Sessions /\ Sessions \subseteq Nat
BY EnetConnectAssumption DEF Slots, Sessions

\* A number that has not come round is itself.
LEMMA SmallMod == \A a \in 0 .. SessionCount - 1 : a % SessionCount = a
BY EnetConnectAssumption

\* The free slot that HandleConnect chooses is there.
LEMMA LeastNumber ==
  ASSUME NEW S, S \subseteq Nat, S # {}
  PROVE  \E m \in S : \A t \in S : m <= t
<1>1. PICK m \in S : \A t \in S : ~(<<t, m>> \in OpToRel(<, Nat))
  BY NatLessThanWellFounded, WFMin
<1>2. ASSUME NEW t \in S, t < m PROVE FALSE
  <2>1. <<t, m>> \in Nat \X Nat  OBVIOUS
  <2>2. <<t, m>>[1] < <<t, m>>[2]  BY <1>2
  <2>. QED  BY <1>1, <2>1, <2>2 DEF OpToRel
<1>. QED  BY <1>2

LEMMA BelowNext ==
  ASSUME NEW x \in Sessions \union {None}, NEW n \in Nat, Below(x, n)
  PROVE  Below(x, n + 1)
BY SlotsAreNumbers DEF Below

\* NewSession answers with a number above the client's, and still below the
\* connectID, though it steps over the slot's last.
LEMMA NewSessionGrows ==
  ASSUME NEW given \in Sessions \union {None}, NEW own \in Sessions \union {None},
         NEW c \in 1 .. SessionCount, Below(given, c - 1), Below(own, c - 1)
  PROVE  /\ NewSession(given, own) \in Sessions
         /\ NewSession(given, own) < c
         /\ given # None => given < NewSession(given, own)
<1>. DEFINE next(x) == IF x = None THEN 0 ELSE (x + 1) % SessionCount
<1>1. ASSUME NEW x \in Sessions \union {None}, Below(x, c - 1)
      PROVE  /\ next(x) \in Sessions /\ next(x) < c
             /\ x # None => next(x) = x + 1
  BY <1>1, SmallMod, EnetConnectAssumption, SlotsAreNumbers DEF Below, Sessions
<1>. HIDE DEF next
<1>2. NewSession(given, own) =
        LET first == next(IF given = None THEN own ELSE given)
        IN  IF first = own THEN next(first) ELSE first
  BY DEF NewSession, next
<1>. DEFINE from == IF given = None THEN own ELSE given
<1>3. next(from) \in Sessions /\ next(from) < c /\ (from # None => next(from) = from + 1)
  BY <1>1
<1>4. CASE next(from) = own
  <2>1. own # None /\ Below(next(from), c - 1)  BY <1>3, <1>4, SlotsAreNumbers DEF Below
  <2>2. next(next(from)) \in Sessions /\ next(next(from)) < c /\ next(next(from)) = next(from) + 1
    BY <1>1, <1>3, <2>1, SlotsAreNumbers
  <2>. QED  BY <1>2, <1>3, <1>4, <2>2, SlotsAreNumbers
<1>5. CASE next(from) # own
  BY <1>2, <1>3, <1>5, SlotsAreNumbers
<1>. QED  BY <1>4, <1>5

\* What is compared is a number.
LEMMA NumbersTyped ==
  ASSUME HandshakeTypeOK
  PROVE  /\ randomSeed \in Nat /\ client.connectID \in Nat
         /\ \A h \in headers : h.connectID \in Nat /\ h.session \in Nat
         /\ \A s \in Slots : /\ slot[s].connectID \in Nat
                             /\ slot[s].session # None => slot[s].session \in Nat
<1>1. randomSeed \in Nat /\ client.connectID \in Nat  BY DEF HandshakeTypeOK
<1>2. ASSUME NEW h \in headers PROVE h.connectID \in Nat /\ h.session \in Nat
  <2>1. h.connectID \in 1 .. MaxConnects /\ h.session \in Sessions  BY DEF HandshakeTypeOK
  <2>2. h.connectID \in Nat  BY <2>1, EnetConnectAssumption
  <2>3. h.session \in Nat  BY <2>1, SlotsAreNumbers
  <2>. QED  BY <2>2, <2>3
<1>3. ASSUME NEW s \in Slots
      PROVE  slot[s].connectID \in Nat /\ (slot[s].session # None => slot[s].session \in Nat)
  <2>1. slot[s] \in [state : SlotStates, connectID : 0 .. MaxConnects, session : Sessions \union {None}]
    BY DEF HandshakeTypeOK
  <2>2. slot[s].session # None => slot[s].session \in Sessions  BY <2>1
  <2>3. slot[s].connectID \in Nat  BY <2>1
  <2>. QED  BY <2>2, <2>3, SlotsAreNumbers
<1>. QED  BY <1>1, <1>2, <1>3

LEMMA HandshakeInitInv == HandshakeInit => HandshakeInv
<1>. SUFFICES ASSUME HandshakeInit PROVE HandshakeInv  OBVIOUS
<1>. USE DEF HandshakeInit
<1>1. HandshakeTypeOK
  BY EnetConnectAssumption DEF HandshakeTypeOK, ClientStates, SlotStates, FreshSlot
<1>2. OneSlotEach /\ ProgramKnows  BY DEF OneSlotEach, ProgramKnows, FreshSlot
<1>3. ClientWaits /\ Heard  BY DEF ClientWaits, Heard, Completed, FreshSlot
<1>4. Issued /\ NoWrap  BY DEF Issued, NoWrap, Below, Live, FreshSlot
<1>5. NotBehind /\ Grows  BY DEF NotBehind, Grows, Completed
<1>. QED  BY <1>1, <1>2, <1>3, <1>4, <1>5 DEF HandshakeInv

LEMMA ResetClientTyped ==
  ASSUME HandshakeTypeOK
  PROVE  /\ ClientAfterReset(client) \in
              [state : ClientStates, connectID : 0 .. MaxConnects,
               outgoingPeerID : Slots \union {None}, session : Sessions \union {None}]
         /\ ClientAfterReset(client).session = client.session
<1>1. 0 \in 0 .. MaxConnects  BY EnetConnectAssumption
<1>2. client \in [state : ClientStates, connectID : 0 .. MaxConnects,
                  outgoingPeerID : Slots \union {None}, session : Sessions \union {None}]
  BY DEF HandshakeTypeOK
<1>. QED  BY <1>1, <1>2 DEF ClientAfterReset, ClientStates

\* The client gives its connection up.
LEMMA ClientGivesUp ==
  ASSUME HandshakeInv, ConnectFails \/ ClientTimesOut \/ RejectVerifyConnect
  PROVE  HandshakeInv'
<1>. USE DEF HandshakeInv
<1>1. /\ client'.state \in {"disconnected", "zombie"}
      /\ client'.session = client.session
      /\ client'.state = "zombie" => client'.connectID = randomSeed
      /\ UNCHANGED <<slot, open, connects, verifies, headers, randomSeed, restarts>>
  BY DEF ConnectFails, ClientTimesOut, RejectVerifyConnect, ClientAfterReset, ClientWaits,
         HandshakeTypeOK, network, counts
<1>2. HandshakeTypeOK'
  <2>1. CASE ConnectFails \/ ClientTimesOut
    <3>1. client' = ClientAfterReset(client)  BY <2>1 DEF ConnectFails, ClientTimesOut
    <3>. QED  BY <1>1, <3>1, ResetClientTyped DEF HandshakeTypeOK
  <2>2. CASE RejectVerifyConnect
    <3>1. client' = [client EXCEPT !.state = "zombie"]  BY <2>2 DEF RejectVerifyConnect
    <3>. QED  BY <1>1, <3>1 DEF HandshakeTypeOK, ClientStates
  <2>. QED  BY <2>1, <2>2
<1>3. OneSlotEach' /\ ProgramKnows'  BY <1>1 DEF OneSlotEach, ProgramKnows
<1>4. ClientWaits'  BY <1>1 DEF ClientWaits
<1>5. Issued' /\ NoWrap'  BY <1>1 DEF Issued, NoWrap, Live
<1>6. NotBehind' /\ Heard'  BY <1>1 DEF NotBehind, Heard, Live, Completed
<1>7. Grows'  BY <1>1 DEF Grows, Live, Completed
<1>. QED  BY <1>2, <1>3, <1>4, <1>5, <1>6, <1>7

\* A new attempt: its CONNECT carries what the client's session is by now.
LEMMA ConnectKeeps == ASSUME HandshakeInv, Connect PROVE HandshakeInv'
<1>. USE DEF HandshakeInv
<1>. DEFINE new == [connectID |-> randomSeed', session |-> client.session]
<1>1. /\ client'.state = "connecting" /\ client'.connectID = randomSeed'
      /\ client'.session = client.session
      /\ randomSeed' = randomSeed + 1 /\ randomSeed \in Nat
      /\ connects' = connects \union {new}
      /\ UNCHANGED <<slot, open, verifies, headers, restarts>>
  BY EnetConnectAssumption DEF Connect, ClientAfterReset, HandshakeTypeOK
<1>2. HandshakeTypeOK'
  <2>1. client' \in [state : ClientStates, connectID : 0 .. MaxConnects,
                     outgoingPeerID : Slots \union {None}, session : Sessions \union {None}]
    <3>1. randomSeed' \in 0 .. MaxConnects
      BY EnetConnectAssumption DEF Connect, HandshakeTypeOK
    <3>2. client' = [ClientAfterReset(client) EXCEPT !.state = "connecting", !.connectID = randomSeed']
      BY DEF Connect
    <3>. QED  BY <3>1, <3>2, ResetClientTyped DEF ClientStates
  <2>2. new \in [connectID : 1 .. MaxConnects, session : Sessions \union {None}]
    BY EnetConnectAssumption DEF Connect, HandshakeTypeOK
  <2>3. randomSeed' \in 0 .. MaxConnects  BY EnetConnectAssumption DEF Connect, HandshakeTypeOK
  <2>. QED  BY <1>1, <2>1, <2>2, <2>3 DEF HandshakeTypeOK
<1>3. OneSlotEach' /\ ProgramKnows'  BY <1>1 DEF OneSlotEach, ProgramKnows
<1>4. \A h \in headers : h.connectID \in Nat /\ h.connectID < randomSeed'
  BY <1>1 DEF Issued, HandshakeTypeOK
<1>5. ClientWaits'  BY <1>1, <1>4 DEF ClientWaits
<1>6. Issued'
  BY <1>1 DEF Issued, Live, HandshakeTypeOK
<1>7. NoWrap'
  <2>1. Below(client.session, randomSeed') /\ Below(new.session, new.connectID - 1)
    <3>1. client.session \in Sessions \union {None} /\ Below(client.session, randomSeed)
      BY DEF HandshakeTypeOK, NoWrap
    <3>2. new.session = client.session /\ new.connectID - 1 = randomSeed  BY <1>1
    <3>. HIDE DEF new
    <3>3. Below(new.session, randomSeed)  BY <3>1, <3>2
    <3>4. Below(client.session, randomSeed')  BY <1>1, <3>1, BelowNext
    <3>. QED  BY <3>2, <3>3, <3>4
  <2>2. ASSUME NEW s \in Slots, ~ Live(s)
        PROVE  /\ Below(slot[s].session, randomSeed')
               /\ \A c \in connects' : Below(slot[s].session, c.connectID - 1)
    <3>1. Below(slot[s].session, randomSeed)  BY <2>2 DEF NoWrap
    <3>2. slot[s].session \in Sessions \union {None}  BY DEF HandshakeTypeOK
    <3>3. Below(slot[s].session, randomSeed')  BY <1>1, <3>1, <3>2, BelowNext
    <3>4. Below(slot[s].session, new.connectID - 1)  BY <1>1, <3>1
    <3>5. \A c \in connects : Below(slot[s].session, c.connectID - 1)  BY <2>2 DEF NoWrap
    <3>. HIDE DEF new
    <3>. QED  BY <1>1, <3>3, <3>4, <3>5
  <2>. QED  BY <1>1, <2>1, <2>2 DEF NoWrap, Live
<1>8. NotBehind'
  <2>1. \A v \in verifies : v.connectID \in Nat /\ v.connectID <= new.connectID
    BY <1>1 DEF Issued, HandshakeTypeOK
  <2>. QED  BY <1>1, <2>1 DEF NotBehind, Live
<1>9. Grows'  BY <1>1 DEF Grows, Completed, Live
<1>10. Heard'  BY <1>1 DEF Heard, Completed
<1>. QED  BY <1>2, <1>3, <1>5, <1>6, <1>7, <1>8, <1>9, <1>10

\* The connection is completed: all that was completed before is older, so
\* that its session is smaller.
LEMMA VerifyKeeps == ASSUME HandshakeInv, HandleVerifyConnect PROVE HandshakeInv'
<1>. USE DEF HandshakeInv
<1>1. PICK v \in verifies :
        /\ IsVerified(v)
        /\ client' = [client EXCEPT !.state = "connected", !.outgoingPeerID = v.slot, !.session = v.session]
        /\ headers' = headers \union {ClientHeader(client')}
        /\ UNCHANGED <<slot, open, connects, verifies, randomSeed, restarts>>
  BY DEF HandleVerifyConnect, counts
<1>. DEFINE new == [to |-> v.slot, session |-> v.session, connectID |-> v.connectID]
<1>2. v \in [slot : Slots, session : Sessions, connectID : 1 .. MaxConnects]
  BY DEF HandshakeTypeOK
<1>3. /\ client.state = "connecting" /\ v.connectID = randomSeed /\ client.connectID = randomSeed
      /\ client'.state = "connected" /\ client'.connectID = v.connectID
      /\ client'.outgoingPeerID = v.slot /\ client'.session = v.session
      /\ new = ClientHeader(client')
  BY <1>1 DEF IsVerified, HandshakeTypeOK, ClientWaits, ClientHeader
<1>4. headers' = headers \union {new} /\ new.to # None /\ Completed' = Completed \union {new}
  BY <1>1, <1>2, <1>3, SlotsAreNumbers DEF Completed
<1>5. HandshakeTypeOK'
  <2>1. client' \in [state : ClientStates, connectID : 0 .. MaxConnects,
                     outgoingPeerID : Slots \union {None}, session : Sessions \union {None}]
    BY <1>1, <1>2 DEF HandshakeTypeOK, ClientStates
  <2>2. new \in [to : Slots \union {None}, session : Sessions, connectID : 1 .. MaxConnects]
    BY <1>2
  <2>. QED  BY <1>1, <1>4, <2>1, <2>2 DEF HandshakeTypeOK
<1>6. OneSlotEach' /\ ProgramKnows'  BY <1>1 DEF OneSlotEach, ProgramKnows
<1>7. \A h \in headers : h.connectID \in Nat /\ h.connectID < v.connectID
  BY <1>3 DEF ClientWaits, HandshakeTypeOK
<1>8. ClientWaits'
  BY <1>1, <1>3, <1>4, <1>7 DEF ClientWaits, Completed
<1>9. Issued'
  BY <1>1, <1>2, <1>3, <1>4 DEF Issued, Live
<1>10. NoWrap'
  BY <1>1, <1>2, <1>3 DEF NoWrap, Below, Live
<1>11. NotBehind'  BY <1>1 DEF NotBehind, Live
<1>12. Grows'
  <2>1. ASSUME NEW h \in Completed
        PROVE  h.session \in Nat /\ h.session < v.session
    BY <1>3, <1>7, SlotsAreNumbers DEF Grows, Completed, HandshakeTypeOK
  <2>2. /\ \A c \in connects : c.connectID \in Nat /\ ~(new.connectID < c.connectID)
        /\ \A w \in verifies : w.connectID \in Nat /\ ~(new.connectID < w.connectID)
        /\ \A s \in Slots : slot[s].connectID \in Nat /\ ~(new.connectID < slot[s].connectID)
    BY <1>2, <1>3 DEF Issued, HandshakeTypeOK
  <2>3. v.session # None /\ v.session \in Nat  BY <1>2, SlotsAreNumbers
  <2>4. ASSUME NEW h \in Completed'
        PROVE  /\ client'.session # None /\ h.session <= client'.session
               /\ client'.state = "connected" /\ h.connectID < client'.connectID => h.session < client'.session
    BY <1>2, <1>3, <1>4, <2>1, <2>3
  <2>. QED  BY <1>1, <1>4, <2>2, <2>4 DEF Grows, Live
<1>13. Heard'
  <2>1. v = [slot |-> new.to, session |-> new.session, connectID |-> new.connectID]  BY <1>2
  <2>. QED  BY <1>1, <1>4, <2>1 DEF Heard
<1>. QED  BY <1>5, <1>6, <1>8, <1>9, <1>10, <1>11, <1>12, <1>13

\* A slot is given to a CONNECT.
LEMMA HandleConnectKeeps ==
  ASSUME MaxConnects <= SessionCount, HandshakeInv, HandleConnect PROVE HandshakeInv'
<1>. USE DEF HandshakeInv
<1>. DEFINE least == CHOOSE s \in FreeSlots : \A t \in FreeSlots : s <= t
<1>1. PICK c \in connects :
        /\ ~ IsKnown(c)
        /\ FreeSlots # {}
        /\ LET session == NewSession(c.session, slot[least].session)
           IN  /\ slot' = [slot EXCEPT ![least] = [state |-> "acknowledging", connectID |-> c.connectID, session |-> session]]
               /\ verifies' = verifies \union {[slot |-> least, session |-> session, connectID |-> c.connectID]}
        /\ UNCHANGED <<client, open, connects, headers, counts>>
  BY DEF HandleConnect
<1>2. PICK s \in FreeSlots : s = least
  <2>1. FreeSlots \subseteq Nat  BY SlotsAreNumbers DEF FreeSlots
  <2>2. \E m \in FreeSlots : \A t \in FreeSlots : m <= t  BY <1>1, <2>1, LeastNumber
  <2>. QED  BY <2>2
<1>. HIDE DEF least
<1>. DEFINE x == NewSession(c.session, slot[s].session)
            new == [slot |-> s, session |-> x, connectID |-> c.connectID]
            end == [state |-> "acknowledging", connectID |-> c.connectID, session |-> x]
<1>3. /\ slot' = [slot EXCEPT ![s] = end] /\ verifies' = verifies \union {new}
      /\ UNCHANGED <<client, open, connects, headers, randomSeed, restarts>>
      /\ ~ IsKnown(c)
  BY <1>1, <1>2 DEF counts
<1>4. /\ c \in connects /\ c \in [connectID : 1 .. MaxConnects, session : Sessions \union {None}]
      /\ s \in Slots /\ ~ Live(s) /\ slot[s].state = "disconnected"
      /\ slot[s].session \in Sessions \union {None}
  BY <1>2 DEF HandshakeTypeOK, FreeSlots, Live
<1>5. /\ x \in Sessions /\ x \in Nat /\ x < c.connectID
      /\ c.session # None => c.session \in Nat /\ c.session < x
  <2>1. Below(c.session, c.connectID - 1) /\ Below(slot[s].session, c.connectID - 1)
    BY <1>4 DEF NoWrap
  <2>2. c.connectID \in 1 .. SessionCount  BY <1>4, EnetConnectAssumption
  <2>3. c.session \in Sessions \union {None}  BY <1>4
  <2>4. /\ x \in Sessions /\ x < c.connectID
        /\ c.session # None => c.session < x
    BY <1>4, <2>1, <2>2, <2>3, NewSessionGrows
  <2>. HIDE DEF x
  <2>. QED  BY <2>3, <2>4, SlotsAreNumbers
<1>. HIDE DEF x
<1>6. /\ slot'[s] = end
      /\ \A t \in Slots : t # s => slot'[t] = slot[t]
      /\ \A t \in Slots : t # s => (Live(t)' <=> Live(t))
      /\ Live(s)'
  BY <1>3, <1>4 DEF HandshakeTypeOK, Live
<1>7. HandshakeTypeOK'
  <2>1. end \in [state : SlotStates, connectID : 0 .. MaxConnects, session : Sessions \union {None}]
    BY <1>4, <1>5, EnetConnectAssumption DEF SlotStates
  <2>2. slot' \in [Slots -> [state : SlotStates, connectID : 0 .. MaxConnects, session : Sessions \union {None}]]
    BY <1>3, <1>4, <2>1 DEF HandshakeTypeOK
  <2>3. new \in [slot : Slots, session : Sessions, connectID : 1 .. MaxConnects]
    BY <1>4, <1>5
  <2>. QED  BY <1>3, <2>2, <2>3 DEF HandshakeTypeOK
<1>8. OneSlotEach'
  <2>1. \A t \in Slots : t # s /\ slot[t].state # "disconnected" => slot[t].connectID # c.connectID
    BY <1>3 DEF IsKnown
  <2>. QED  BY <1>4, <1>6, <2>1 DEF OneSlotEach
<1>9. ProgramKnows'
  BY <1>3, <1>4, <1>6 DEF ProgramKnows
<1>10. ClientWaits'  BY <1>3 DEF ClientWaits, Completed
<1>11. Issued'
  <2>1. c.connectID <= randomSeed /\ c.connectID > 0 /\ x # None
    BY <1>4, <1>5, SlotsAreNumbers DEF Issued
  <2>. QED  BY <1>3, <1>4, <1>6, <2>1 DEF Issued, Live
<1>12. NoWrap'
  BY <1>3, <1>4, <1>5, <1>6 DEF NoWrap, Live
<1>13. NotBehind'
  <2>1. ASSUME NEW v \in verifies'
        PROVE  IF Live(v.slot)' THEN v.connectID <= slot'[v.slot].connectID
               ELSE \A k \in connects' : v.connectID <= k.connectID
    <3>1. CASE v = new
      BY <1>4, <1>6, <3>1
    <3>2. CASE v \in verifies /\ v.slot = s
      BY <1>4, <1>6, <3>2 DEF NotBehind
    <3>3. CASE v \in verifies /\ v.slot # s
      <4>1. v.slot \in Slots  BY <3>3 DEF HandshakeTypeOK
      <4>. QED  BY <1>3, <1>6, <3>3, <4>1 DEF NotBehind
    <3>. QED  BY <1>3, <2>1, <3>1, <3>2, <3>3
  <2>. QED  BY <2>1 DEF NotBehind
<1>14. Grows'
  <2>1. ASSUME NEW h \in Completed, h.connectID < c.connectID  PROVE h.session < x
    <3>1. c.session # None /\ h.session <= c.session  BY <1>4, <2>1 DEF Grows
    <3>2. h.session \in Nat  BY SlotsAreNumbers DEF Completed, HandshakeTypeOK
    <3>. QED  BY <1>5, <3>1, <3>2
  <2>2. \A h \in Completed : \A v \in verifies' : h.connectID < v.connectID => h.session < v.session
    BY <1>3, <2>1 DEF Grows
  <2>3. \A h \in Completed : \A t \in Slots :
          Live(t)' /\ h.connectID < slot'[t].connectID => h.session < slot'[t].session
    BY <1>6, <2>1 DEF Grows
  <2>. QED  BY <1>3, <2>2, <2>3 DEF Grows, Completed
<1>15. Heard'
  <2>1. \A t \in Slots : slot'[t].state = "connected" => t # s  BY <1>6
  <2>. QED  BY <1>3, <1>6, <2>1 DEF Heard, Completed
<1>. QED  BY <1>7, <1>8, <1>9, <1>10, <1>11, <1>12, <1>13, <1>14, <1>15

\* What a slot that is there lets through is of its own connection.
LEMMA TakesOwn ==
  ASSUME HandshakeInv, NEW s \in Slots, NEW h \in headers, SlotTakes(s, h)
  PROVE  h \in Completed /\ h.connectID = slot[s].connectID
<1>1. h \in Completed /\ Live(s) /\ h.to = s /\ h.session = slot[s].session
  BY SlotsAreNumbers DEF SlotTakes, Live, Completed
<1>2. /\ h.connectID \in Nat /\ slot[s].connectID \in Nat /\ h.session \in Nat
  BY NumbersTyped DEF HandshakeInv
<1>3. h.connectID <= slot[s].connectID
  <2>. DEFINE v == [slot |-> h.to, session |-> h.session, connectID |-> h.connectID]
  <2>1. v \in verifies  BY <1>1 DEF HandshakeInv, Heard
  <2>2. v.slot = s /\ v.connectID = h.connectID  BY <1>1
  <2>. QED  BY <1>1, <2>1, <2>2 DEF HandshakeInv, NotBehind
<1>4. ~(h.connectID < slot[s].connectID)  BY <1>1, <1>2 DEF HandshakeInv, Grows
<1>. QED  BY <1>1, <1>2, <1>3, <1>4

\* The slot is connected by a header that is, by TakesOwn, of its connection.
LEMMA AcknowledgeKeeps == ASSUME HandshakeInv, HandleAcknowledge PROVE HandshakeInv'
<1>1. PICK h \in headers, s \in Slots :
        /\ SlotTakes(s, h)
        /\ slot[s].state = "acknowledging"
        /\ slot' = [slot EXCEPT ![s].state = "connected"]
        /\ open' = open \union {s}
        /\ headers' = headers \union {SlotHeader(s)}
        /\ UNCHANGED <<client, connects, verifies, randomSeed, restarts>>
  BY DEF HandleAcknowledge, counts
<1>2. h \in Completed /\ h.connectID = slot[s].connectID  BY <1>1, TakesOwn
<1>. USE DEF HandshakeInv
<1>. DEFINE new == [to |-> None, session |-> slot[s].session, connectID |-> slot[s].connectID]
<1>3. headers' = headers \union {new} /\ Completed' = Completed
  BY <1>1 DEF SlotHeader, Completed
<1>4. /\ h.to = s /\ h.session = slot[s].session /\ Live(s)
      /\ h \in [to : Slots \union {None}, session : Sessions, connectID : 1 .. MaxConnects]
  BY <1>1 DEF SlotTakes, Live, HandshakeTypeOK
<1>5. /\ slot'[s] = [slot[s] EXCEPT !.state = "connected"]
      /\ slot'[s].state = "connected"
      /\ \A t \in Slots : /\ t # s => slot'[t] = slot[t]
                          /\ slot'[t].connectID = slot[t].connectID
                          /\ slot'[t].session = slot[t].session
                          /\ Live(t)' <=> Live(t)
  BY <1>1 DEF HandshakeTypeOK, Live
<1>6. HandshakeTypeOK'
  <2>1. slot' \in [Slots -> [state : SlotStates, connectID : 0 .. MaxConnects, session : Sessions \union {None}]]
    BY <1>1 DEF HandshakeTypeOK, SlotStates
  <2>2. new \in [to : Slots \union {None}, session : Sessions, connectID : 1 .. MaxConnects]
    BY <1>2, <1>4
  <2>. QED  BY <1>1, <1>3, <2>1, <2>2 DEF HandshakeTypeOK
<1>7. OneSlotEach'  BY <1>5 DEF OneSlotEach, Live
<1>8. ProgramKnows'  BY <1>1, <1>5 DEF ProgramKnows
<1>9. ClientWaits'
  <2>1. client.state = "connecting" => new.connectID < randomSeed
    BY <1>2 DEF ClientWaits
  <2>. QED  BY <1>1, <1>3, <2>1 DEF ClientWaits
<1>10. Issued'  BY <1>1, <1>3, <1>5 DEF Issued
<1>11. NoWrap'  BY <1>1, <1>5 DEF NoWrap
<1>12. NotBehind'
  <2>1. \A v \in verifies : v.slot \in Slots  BY DEF HandshakeTypeOK
  <2>. QED  BY <1>1, <1>5, <2>1 DEF NotBehind
<1>13. Grows'  BY <1>1, <1>3, <1>5 DEF Grows
<1>14. Heard'
  <2>1. h.session = new.session /\ h.connectID = new.connectID  BY <1>2, <1>4
  <2>2. h = [to |-> s, session |-> slot[s].session, connectID |-> slot[s].connectID]
    BY <1>2, <1>4
  <2>3. \A t \in Slots : slot'[t].state = "connected" =>
          [to |-> t, session |-> slot'[t].session, connectID |-> slot'[t].connectID] \in headers'
    BY <1>3, <1>5, <2>2 DEF Heard
  <2>. QED  BY <1>1, <1>2, <1>3, <2>1, <2>3 DEF Heard
<1>. QED  BY <1>6, <1>7, <1>8, <1>9, <1>10, <1>11, <1>12, <1>13, <1>14

\* A slot is left; the CONNECTs that remain are of later connections.
LEMMA TimeOutKeeps == ASSUME HandshakeInv, SlotTimesOut PROVE HandshakeInv'
<1>. USE DEF HandshakeInv
<1>1. PICK s \in Slots :
        /\ slot[s].state # "disconnected"
        /\ slot' = [slot EXCEPT ![s] = SlotAfterReset(@)]
        /\ open' = IF ProgramHears(s) THEN open \ {s} ELSE open
        /\ connects' = {c \in connects : c.connectID > slot[s].connectID}
        /\ UNCHANGED <<client, verifies, headers, randomSeed, restarts>>
  BY DEF SlotTimesOut, counts
<1>2. /\ slot'[s].state = "disconnected" /\ slot'[s].connectID = 0
      /\ slot'[s].session = slot[s].session
      /\ \A t \in Slots : /\ t # s => slot'[t] = slot[t]
                          /\ t # s => (Live(t)' <=> Live(t))
      /\ ~ Live(s)' /\ Live(s)
  BY <1>1 DEF HandshakeTypeOK, Live, SlotAfterReset
<1>3. HandshakeTypeOK'
  <2>1. SlotAfterReset(slot[s]) \in [state : SlotStates, connectID : 0 .. MaxConnects, session : Sessions \union {None}]
    <3>1. 0 \in 0 .. MaxConnects  BY EnetConnectAssumption
    <3>2. slot[s] \in [state : SlotStates, connectID : 0 .. MaxConnects, session : Sessions \union {None}]
      BY DEF HandshakeTypeOK
    <3>. QED  BY <3>1, <3>2 DEF SlotStates, SlotAfterReset
  <2>2. slot' \in [Slots -> [state : SlotStates, connectID : 0 .. MaxConnects, session : Sessions \union {None}]]
    BY <1>1, <2>1 DEF HandshakeTypeOK
  <2>. QED  BY <1>1, <2>2 DEF HandshakeTypeOK
<1>4. OneSlotEach'  BY <1>2 DEF OneSlotEach
<1>5. ProgramKnows'  BY <1>1, <1>2 DEF ProgramKnows, ProgramHears
<1>6. ClientWaits'  BY <1>1 DEF ClientWaits, Completed
<1>7. Issued'
  <2>1. randomSeed \in Nat  BY DEF HandshakeTypeOK
  <2>. QED  BY <1>1, <1>2, <2>1 DEF Issued
<1>8. NoWrap'
  <2>1. /\ slot[s].session \in Nat /\ slot[s].session < slot[s].connectID
        /\ slot[s].connectID \in Nat /\ slot[s].connectID <= randomSeed /\ randomSeed \in Nat
    BY <1>2, NumbersTyped DEF NoWrap, Issued
  <2>2. \A c \in connects' : c.connectID \in Nat /\ slot[s].session < c.connectID - 1
    BY <1>1, <2>1 DEF HandshakeTypeOK
  <2>3. Below(slot'[s].session, randomSeed)
    BY <1>2, <2>1 DEF Below
  <2>4. \A c \in connects' : Below(slot'[s].session, c.connectID - 1)
    BY <1>2, <2>2 DEF Below
  <2>5. \A c \in connects' : c \in connects  BY <1>1
  <2>6. \A t \in Slots : t # s =>
          IF Live(t)' THEN slot'[t].session < slot'[t].connectID
          ELSE /\ Below(slot'[t].session, randomSeed)
               /\ \A c \in connects' : Below(slot'[t].session, c.connectID - 1)
    BY <1>2, <2>5 DEF NoWrap
  <2>. QED  BY <1>1, <1>2, <2>3, <2>4, <2>5, <2>6 DEF NoWrap
<1>9. NotBehind'
  <2>1. ASSUME NEW v \in verifies
        PROVE  IF Live(v.slot)' THEN v.connectID <= slot'[v.slot].connectID
               ELSE \A c \in connects' : v.connectID <= c.connectID
    <3>1. CASE v.slot = s
      <4>1. v.connectID <= slot[s].connectID  BY <1>2, <3>1 DEF NotBehind
      <4>2. \A c \in connects' : v.connectID <= c.connectID
        BY <1>1, <4>1 DEF HandshakeTypeOK
      <4>. QED  BY <1>2, <3>1, <4>2
    <3>2. CASE v.slot # s
      <4>1. v.slot \in Slots  BY DEF HandshakeTypeOK
      <4>. QED  BY <1>1, <1>2, <3>2, <4>1 DEF NotBehind
    <3>. QED  BY <3>1, <3>2
  <2>. QED  BY <1>1, <2>1 DEF NotBehind
<1>10. Grows'
  BY <1>1, <1>2 DEF Grows, Completed
<1>11. Heard'
  <2>1. \A t \in Slots : slot'[t].state = "connected" => t # s  BY <1>2
  <2>. QED  BY <1>1, <1>2, <2>1 DEF Heard, Completed
<1>. QED  BY <1>3, <1>4, <1>5, <1>6, <1>7, <1>8, <1>9, <1>10, <1>11

\* All slots are fresh; the CONNECT that remains is of the last connection.
LEMMA RestartKeeps == ASSUME HandshakeInv, Restart PROVE HandshakeInv'
<1>. USE DEF HandshakeInv
<1>1. /\ slot' = [s \in Slots |-> FreshSlot] /\ open' = {}
      /\ connects' = {c \in connects : client.state = "connecting" /\ c.connectID = client.connectID}
      /\ UNCHANGED <<client, verifies, headers, randomSeed>>
  BY DEF Restart
<1>2. \A s \in Slots : slot'[s] = FreshSlot /\ slot'[s].state = "disconnected" /\ ~ Live(s)'
  BY <1>1 DEF Live, FreshSlot
<1>3. HandshakeTypeOK'
  <2>1. FreshSlot \in [state : SlotStates, connectID : 0 .. MaxConnects, session : Sessions \union {None}]
    BY EnetConnectAssumption DEF SlotStates, FreshSlot
  <2>2. restarts' \in 0 .. MaxRestarts
    BY EnetConnectAssumption DEF Restart, HandshakeTypeOK
  <2>. QED  BY <1>1, <2>1, <2>2 DEF HandshakeTypeOK
<1>4. OneSlotEach' /\ ProgramKnows'  BY <1>1, <1>2 DEF OneSlotEach, ProgramKnows
<1>5. ClientWaits'  BY <1>1 DEF ClientWaits, Completed
<1>6. Issued'
  <2>1. randomSeed \in Nat  BY DEF HandshakeTypeOK
  <2>. QED  BY <1>1, <1>2, <2>1 DEF Issued, FreshSlot
<1>7. NoWrap'
  BY <1>1, <1>2 DEF NoWrap, Below, FreshSlot
<1>8. NotBehind'
  <2>1. \A v \in verifies, c \in connects' : v.connectID <= c.connectID /\ v.slot \in Slots
    BY <1>1 DEF Issued, ClientWaits, HandshakeTypeOK
  <2>2. \A v \in verifies : v.slot \in Slots  BY DEF HandshakeTypeOK
  <2>. QED  BY <1>1, <1>2, <2>1, <2>2 DEF NotBehind
<1>9. Grows'  BY <1>1, <1>2 DEF Grows, Completed
<1>10. Heard'  BY <1>1, <1>2 DEF Heard, Completed
<1>. QED  BY <1>3, <1>4, <1>5, <1>6, <1>7, <1>8, <1>9, <1>10

LEMMA HandshakeNextInv ==
  ASSUME MaxConnects <= SessionCount, HandshakeInv, [HandshakeNext]_handshakeVars
  PROVE  HandshakeInv'
<1>1. CASE HandshakeNext
  BY <1>1, ClientGivesUp, ConnectKeeps, VerifyKeeps, HandleConnectKeeps, AcknowledgeKeeps,
     TimeOutKeeps, RestartKeeps DEF HandshakeNext
<1>2. CASE UNCHANGED handshakeVars
  <2>. USE <1>2 DEF HandshakeInv, handshakeVars, network, counts
  <2>1. HandshakeTypeOK' /\ OneSlotEach' /\ ProgramKnows'
    BY DEF HandshakeTypeOK, OneSlotEach, ProgramKnows
  <2>2. ClientWaits' /\ Issued' /\ NoWrap'
    BY DEF ClientWaits, Issued, NoWrap, Live, Completed
  <2>3. NotBehind' /\ Grows' /\ Heard'
    BY DEF NotBehind, Grows, Heard, Live, Completed
  <2>. QED  BY <2>1, <2>2, <2>3
<1>. QED  BY <1>1, <1>2

\* Two ends that are connected have both heard of the connection whose number
\* is the client's seed, under the one header there is of it.
LEMMA HandshakeInvSafe == HandshakeInv => HandshakeSafe
<1>. SUFFICES ASSUME HandshakeInv PROVE HandshakeSafe  OBVIOUS
<1>. USE DEF HandshakeInv
<1>1. client.state = "connected" =>
        /\ \A h \in Completed : h.session = client.session => h.connectID = client.connectID
  <2>. SUFFICES ASSUME client.state = "connected", NEW h \in Completed, h.session = client.session
                PROVE  h.connectID = client.connectID
    OBVIOUS
  <2>1. client.connectID = randomSeed /\ h.connectID <= randomSeed
    BY DEF ClientWaits, Issued, Completed
  <2>2. h.connectID \in Nat /\ h.session \in Nat /\ randomSeed \in Nat
    BY NumbersTyped DEF Completed
  <2>3. ~(h.connectID < client.connectID)  BY <2>2 DEF Grows
  <2>. QED  BY <2>1, <2>2, <2>3
<1>2. OwnDatagramsOnly
  <2>. SUFFICES ASSUME NEW h \in headers
                PROVE  /\ \A s \in Slots : slot[s].state = "connected" /\ SlotTakes(s, h) => h.connectID = slot[s].connectID
                       /\ client.state = "connected" /\ h.to = None /\ ClientTakes(h.session) => h.connectID = client.connectID
    BY DEF OwnDatagramsOnly
  <2>1. PICK g \in Completed : g.session = h.session /\ g.connectID = h.connectID  BY DEF Heard
  <2>2. client.state = "connected" => client.outgoingPeerID # None
    BY DEF ClientWaits, ClientHeader, Completed
  <2>. QED  BY <1>1, <2>1, <2>2, TakesOwn DEF ClientTakes
<1>3. EndsAgree
  <2>. DEFINE s == client.outgoingPeerID
  <2>. SUFFICES ASSUME client.state = "connected", slot[s].state = "connected"
                PROVE  slot[s].connectID = client.connectID /\ slot[s].session = client.session
    BY DEF EndsAgree
  <2>1. /\ ClientHeader(client) \in Completed /\ client.connectID = randomSeed
        /\ \A h \in Completed : h.connectID = randomSeed => h = ClientHeader(client)
    BY DEF ClientWaits
  <2>. DEFINE h == ClientHeader(client)
              v == [slot |-> h.to, session |-> h.session, connectID |-> h.connectID]
  <2>2. h.to = s /\ h.session = client.session /\ h.connectID = client.connectID  BY DEF ClientHeader
  <2>3. s \in Slots
    BY <2>1, <2>2 DEF Completed, HandshakeTypeOK
  <2>4. client.connectID <= slot[s].connectID
    <3>1. v \in verifies  BY <2>1 DEF Heard
    <3>2. v.slot = s /\ v.connectID = client.connectID  BY <2>2
    <3>. HIDE DEF v
    <3>. QED  BY <2>3, <3>1, <3>2 DEF NotBehind, Live
  <2>5. slot[s].connectID = randomSeed
    BY <2>1, <2>3, <2>4 DEF Issued, HandshakeTypeOK
  <2>. DEFINE g == [to |-> s, session |-> slot[s].session, connectID |-> slot[s].connectID]
  <2>6. g \in headers  BY <2>3 DEF Heard
  <2>7. g.to # None /\ g.connectID = randomSeed /\ g.session = slot[s].session  BY <2>3, <2>5, SlotsAreNumbers
  <2>8. g = ClientHeader(client)  BY <2>1, <2>6, <2>7 DEF Completed
  <2>. QED  BY <2>1, <2>2, <2>5, <2>7, <2>8
<1>4. NoGhostConnected
  <2>. SUFFICES ASSUME NEW s \in Slots, slot[s].state = "connected"
                PROVE  \E h \in headers : h.connectID = slot[s].connectID /\ h.to = s
    BY DEF NoGhostConnected
  <2>. DEFINE g == [to |-> s, session |-> slot[s].session, connectID |-> slot[s].connectID]
  <2>1. g \in headers  BY DEF Heard
  <2>2. g.connectID = slot[s].connectID /\ g.to = s  OBVIOUS
  <2>. QED  BY <2>1, <2>2
<1>. QED  BY <1>2, <1>3, <1>4 DEF HandshakeSafe

\* Connections are never mixed up while the session number has not come round:
\* no connected peer takes a datagram of another connection, no attempt holds
\* two slots, both ends mean the same connection, and the relay server's
\* program knows exactly the slots that are connected (protocol.c).
THEOREM HandshakeIsSafe ==
  ASSUME MaxConnects <= SessionCount
  PROVE  HandshakeSpec => []HandshakeSafe
<1>1. HandshakeInv /\ [HandshakeNext]_handshakeVars => HandshakeInv'  BY HandshakeNextInv
<1>. QED  BY <1>1, HandshakeInitInv, HandshakeInvSafe, PTL DEF HandshakeSpec

-----------------------------------------------------------------------------
(***************************************************************************)
(* ENet's channels, for any number of channels and packets, any windows    *)
(* and any lifetime that EnetChannelAssumption allows, and any number of   *)
(* commands at once.                                                       *)
(*                                                                         *)
(* Commands are told apart by numbers that come round.  What keeps them    *)
(* apart is a distance: with windows counted from the first on (WindowNo), *)
(* the sender is at most Free past each command it waits for and less than *)
(* Free past all that was delivered (SpreadInv), and no copy that is still *)
(* on its way is older than that (LateInv).  To pass a window the sender   *)
(* must know that half a round of them holds nothing it waits for, and     *)
(* that is worth something only because a command whose acknowledgement    *)
(* came is with the receiver for good (ForgottenInv, Safe).                *)
(***************************************************************************)
(* The numbers.                                                            *)

LEMMA Division ==
  ASSUME NEW a \in Int, NEW b \in Int, b > 0, a >= 0 PROVE a = b * (a \div b) + (a % b)
BY Z3

LEMMA DivMod ==
  ASSUME NEW a \in Nat, NEW b \in Nat \ {0}
  PROVE  a \div b \in Nat /\ a % b \in 0 .. b - 1 /\ a = b * (a \div b) + (a % b)
<1>1. a \div b \in Nat  OBVIOUS
<1>2. a % b \in 0 .. b - 1  OBVIOUS
<1>3. a = b * (a \div b) + (a % b)  BY Division
<1>. QED  BY <1>1, <1>2, <1>3

LEMMA Multiples ==
  ASSUME NEW b \in Nat \ {0}, NEW x \in Int, NEW y \in Int, x < y
  PROVE  b * x + b <= b * y
<1>1. PICK d \in Nat : y = x + 1 + d
  <2>1. y - x - 1 \in Nat /\ y = x + 1 + (y - x - 1)  OBVIOUS
  <2>. QED  BY <2>1
<1>2. b * y = b * x + b + b * d  BY <1>1
<1>3. b * d \in Nat  OBVIOUS
<1>. QED  BY <1>2, <1>3

LEMMA DivUnique ==
  ASSUME NEW b \in Nat \ {0}, NEW k \in Nat, NEW r \in 0 .. b - 1
  PROVE  (b * k + r) \div b = k /\ (b * k + r) % b = r
<1>. DEFINE a == b * k + r
<1>1. a \in Nat  OBVIOUS
<1>2. a \div b \in Nat /\ a % b \in 0 .. b - 1 /\ a = b * (a \div b) + (a % b)  BY <1>1, DivMod
<1>3. PICK x \in Nat, s \in 0 .. b - 1 : x = a \div b /\ s = a % b  BY <1>2
<1>4. b * x + s = b * k + r  BY <1>2, <1>3
<1>. HIDE DEF a
<1>5. ~(x < k)
  <2>. SUFFICES ASSUME x < k PROVE FALSE  OBVIOUS
  <2>1. b * x + b <= b * k  BY Multiples
  <2>. QED  BY <1>4, <2>1
<1>6. ~(k < x)
  <2>. SUFFICES ASSUME k < x PROVE FALSE  OBVIOUS
  <2>1. b * k + b <= b * x  BY Multiples
  <2>. QED  BY <1>4, <2>1
<1>7. x = k  BY <1>5, <1>6
<1>8. s = r  BY <1>4, <1>7
<1>. QED  BY <1>3, <1>7, <1>8 DEF a

\* Windows counted from the first on, without coming round.
WindowNo(n) == n \div WindowSize

Lap == Windows * WindowSize

LEMMA Sizes ==
  /\ WindowSize \in Nat \ {0} /\ Windows \in Nat \ {0} /\ Free \in Nat /\ Free >= 2
  /\ Windows = 2 * Free /\ Lap \in Nat \ {0} /\ Lap = WindowSize * Windows
BY EnetChannelAssumption DEF Lap

LEMMA WindowNoIs ==
  ASSUME NEW n \in Nat
  PROVE  /\ WindowNo(n) \in Nat
         /\ WindowSize * WindowNo(n) <= n /\ n < WindowSize * WindowNo(n) + WindowSize
BY Sizes, DivMod DEF WindowNo

\* Window numbers and their distances.
LEMMA WindowNoGrows ==
  ASSUME NEW m \in Nat, NEW n \in Nat, m <= n
  PROVE  WindowNo(m) <= WindowNo(n)
<1>. SUFFICES ASSUME WindowNo(n) < WindowNo(m) PROVE FALSE
  BY WindowNoIs
<1>1. WindowSize * WindowNo(n) + WindowSize <= WindowSize * WindowNo(m)
  BY Sizes, WindowNoIs, Multiples
<1>. QED  BY <1>1, WindowNoIs, Sizes

LEMMA WindowNoWithin ==
  ASSUME NEW m \in Nat, NEW n \in Nat, NEW k \in Nat, n <= m + k * WindowSize
  PROVE  WindowNo(n) <= WindowNo(m) + k
<1>. SUFFICES ASSUME WindowNo(m) + k < WindowNo(n) PROVE FALSE
  BY WindowNoIs
<1>1. WindowSize * (WindowNo(m) + k) + WindowSize <= WindowSize * WindowNo(n)
  <2>1. WindowNo(m) + k \in Int /\ WindowNo(n) \in Int  BY WindowNoIs
  <2>. QED  BY <2>1, Sizes, Multiples
<1>2. WindowSize * (WindowNo(m) + k) = WindowSize * WindowNo(m) + k * WindowSize
  BY WindowNoIs, Sizes
<1>. QED  BY <1>1, <1>2, WindowNoIs, Sizes

LEMMA WithinWindows ==
  ASSUME NEW m \in Nat, NEW n \in Nat, NEW k \in Nat, WindowNo(n) <= WindowNo(m) + k
  PROVE  n < m + k * WindowSize + WindowSize
<1>1. WindowSize * WindowNo(n) <= WindowSize * (WindowNo(m) + k)
  <2>1. CASE WindowNo(n) = WindowNo(m) + k  BY <2>1, Sizes, WindowNoIs
  <2>2. CASE WindowNo(n) < WindowNo(m) + k
    <3>1. WindowNo(m) + k \in Int /\ WindowNo(n) \in Int  BY WindowNoIs
    <3>2. WindowSize * WindowNo(n) + WindowSize <= WindowSize * (WindowNo(m) + k)
      BY <2>2, <3>1, Sizes, Multiples
    <3>3. WindowSize * WindowNo(n) \in Int /\ WindowSize * (WindowNo(m) + k) \in Int
      BY <3>1, Sizes
    <3>. QED  BY <3>2, <3>3, Sizes
  <2>. QED  BY <2>1, <2>2, WindowNoIs
<1>2. WindowSize * (WindowNo(m) + k) = WindowSize * WindowNo(m) + k * WindowSize
  BY WindowNoIs, Sizes
<1>. QED  BY <1>1, <1>2, WindowNoIs, Sizes

\* The number on the wire: how often it has come round, and its window.
LEMMA SeqNoIs ==
  ASSUME NEW n \in Nat
  PROVE  \E t \in Nat :
           /\ SeqNo(n) \in 0 .. Lap - 1 /\ n = Lap * t + SeqNo(n)
           /\ Window(SeqNo(n)) \in 0 .. Windows - 1
           /\ WindowNo(n) = Windows * t + Window(SeqNo(n))
<1>. DEFINE t == n \div Lap
            s == n % Lap
<1>1. t \in Nat /\ s \in 0 .. Lap - 1 /\ n = Lap * t + s
  BY Sizes, DivMod
<1>2. SeqNo(n) = s  BY DEF SeqNo, Lap
<1>. HIDE DEF t, s
<1>. DEFINE w == s \div WindowSize
            r == s % WindowSize
<1>3. w \in Nat /\ r \in 0 .. WindowSize - 1 /\ s = WindowSize * w + r
  <2>1. s \in Nat  BY <1>1, Sizes
  <2>2. \A a \in Nat : /\ a \div WindowSize \in Nat /\ a % WindowSize \in 0 .. WindowSize - 1
                     /\ a = WindowSize * (a \div WindowSize) + (a % WindowSize)
    BY Sizes, DivMod
  <2>. QED  BY <2>1, <2>2
<1>4. Window(SeqNo(n)) = w  BY <1>2 DEF Window
<1>. HIDE DEF w, r
<1>5. w < Windows
  <2>. SUFFICES ASSUME Windows <= w PROVE FALSE  BY <1>3, Sizes
  <2>1. WindowSize * Windows <= WindowSize * w
    <3>1. CASE Windows = w  BY <3>1, Sizes
    <3>2. CASE Windows < w
      <4>1. WindowSize * Windows + WindowSize <= WindowSize * w  BY <3>2, <1>3, Sizes, Multiples
      <4>2. WindowSize * Windows \in Int /\ WindowSize * w \in Int  BY <1>3, Sizes
      <4>. QED  BY <4>1, <4>2, Sizes
    <3>. QED  BY <3>1, <3>2, <1>3, Sizes
  <2>2. PICK x \in Nat : x = WindowSize * w  BY <1>3, Sizes
  <2>3. s < Lap /\ s \in Nat /\ Lap \in Nat  BY <1>1, Sizes
  <2>4. Lap <= x  BY <2>1, <2>2, Sizes
  <2>5. s = x + r /\ r \in Nat  BY <1>3, <2>2
  <2>. QED  BY <2>2, <2>3, <2>4, <2>5
<1>6. n = WindowSize * (Windows * t + w) + r
  <2>1. Lap * t = WindowSize * (Windows * t)  BY <1>1, Sizes
  <2>2. WindowSize * (Windows * t + w) = WindowSize * (Windows * t) + WindowSize * w
    BY <1>1, <1>3, Sizes
  <2>. QED  BY <1>1, <1>3, <2>1, <2>2, Sizes
<1>7. WindowNo(n) = Windows * t + w
  <2>1. Windows * t + w \in Nat  BY <1>1, <1>3, Sizes
  <2>. QED  BY <1>3, <1>6, <2>1, Sizes, DivUnique DEF WindowNo
<1>8. w \in 0 .. Windows - 1  BY <1>3, <1>5, Sizes
<1>. QED  BY <1>1, <1>2, <1>4, <1>7, <1>8

\* Less than a lap apart, the numbers on the wire tell the distance.
LEMMA Turns ==
  ASSUME NEW I \in Nat, NEW x \in Nat, I <= x, x < I + Lap
  PROVE  IF SeqNo(x) >= SeqNo(I)
         THEN /\ x - I = SeqNo(x) - SeqNo(I)
              /\ WindowNo(x) - WindowNo(I) = Window(SeqNo(x)) - Window(SeqNo(I))
         ELSE /\ x - I = Lap + SeqNo(x) - SeqNo(I)
              /\ WindowNo(x) - WindowNo(I) = Windows + Window(SeqNo(x)) - Window(SeqNo(I))
<1>1. PICK t \in Nat, s \in 0 .. Lap - 1, w \in 0 .. Windows - 1 :
        s = SeqNo(I) /\ I = Lap * t + s /\ w = Window(SeqNo(I)) /\ WindowNo(I) = Windows * t + w
  BY SeqNoIs
<1>2. PICK u \in Nat, r \in 0 .. Lap - 1, v \in 0 .. Windows - 1 :
        r = SeqNo(x) /\ x = Lap * u + r /\ v = Window(SeqNo(x)) /\ WindowNo(x) = Windows * u + v
  BY SeqNoIs
<1>3. PICK a \in Nat, b \in Nat : a = Lap * t /\ b = Lap * u  BY Sizes
<1>4. ~ (u < t)
  <2>. SUFFICES ASSUME u < t PROVE FALSE  OBVIOUS
  <2>1. Lap * u + Lap <= Lap * t  BY Sizes, Multiples
  <2>2. b + Lap <= a  BY <1>3, <2>1
  <2>. QED  BY <1>1, <1>2, <1>3, <2>2, Sizes
<1>5. ~ (t + 1 < u)
  <2>. SUFFICES ASSUME t + 1 < u PROVE FALSE  OBVIOUS
  <2>1. Lap * (t + 1) + Lap <= Lap * u  BY Sizes, Multiples
  <2>2. Lap * (t + 1) = a + Lap  BY <1>3, Sizes
  <2>3. a + Lap + Lap <= b  BY <1>3, <2>1, <2>2
  <2>. QED  BY <1>1, <1>2, <1>3, <2>3, Sizes
<1>6. CASE u = t
  <2>1. x - I = r - s /\ r >= s  BY <1>1, <1>2, <1>3, <1>6, Sizes
  <2>2. PICK c \in Nat : c = Windows * t  BY Sizes
  <2>3. WindowNo(x) - WindowNo(I) = v - w  BY <1>1, <1>2, <1>6, <2>2
  <2>. QED  BY <1>1, <1>2, <2>1, <2>3
<1>7. CASE u = t + 1
  <2>1. b = a + Lap  BY <1>3, <1>7, Sizes
  <2>2. x - I = Lap + r - s /\ ~(r >= s)  BY <1>1, <1>2, <1>3, <2>1, Sizes
  <2>3. PICK c \in Nat : c = Windows * t  BY Sizes
  <2>4. Windows * u = c + Windows  BY <1>7, <2>3, Sizes
  <2>5. WindowNo(x) - WindowNo(I) = Windows + v - w  BY <1>1, <1>2, <2>3, <2>4, Sizes
  <2>. QED  BY <1>1, <1>2, <2>2, <2>5
<1>. QED  BY <1>4, <1>5, <1>6, <1>7

LEMMA SeqNoTyped ==
  ASSUME NEW n \in Nat
  PROVE  SeqNo(n) \in 0 .. Lap - 1 /\ Window(SeqNo(n)) \in 0 .. Windows - 1
BY SeqNoIs

LEMMA SeqNoSame ==
  ASSUME NEW m \in Nat, NEW n \in Nat, m < n + Lap, n < m + Lap, SeqNo(m) = SeqNo(n)
  PROVE  m = n
<1>1. CASE m <= n  BY <1>1, Turns, SeqNoTyped, Sizes
<1>2. CASE n <= m  BY <1>2, Turns, SeqNoTyped, Sizes
<1>. QED  BY <1>1, <1>2

LEMMA AheadIs ==
  ASSUME NEW I \in Nat, NEW n \in Nat, I <= n, n < I + Lap
  PROVE  Ahead(SeqNo(n), SeqNo(I)) = WindowNo(n) - WindowNo(I)
BY Turns, SeqNoTyped, Sizes DEF Ahead

LEMMA BehindIs ==
  ASSUME NEW I \in Nat, NEW n \in Nat, n < I, I < n + Lap
  PROVE  Ahead(SeqNo(n), SeqNo(I)) = Windows - (WindowNo(I) - WindowNo(n))
<1>1. SeqNo(n) # SeqNo(I)  BY SeqNoSame, Sizes
<1>2. /\ SeqNo(n) \in Int /\ SeqNo(I) \in Int /\ Windows \in Int
      /\ Window(SeqNo(n)) \in Int /\ Window(SeqNo(I)) \in Int
  BY SeqNoTyped, Sizes
<1>3. WindowNo(n) \in Int /\ WindowNo(I) \in Int  BY WindowNoIs
<1>. QED  BY <1>1, <1>2, <1>3, Turns DEF Ahead

\* The comparison in Place: which of two commands still to come is the later.
LEMMA SeqNoOrder ==
  ASSUME NEW I \in Nat, NEW x \in Nat, NEW y \in Nat,
         I < x, x < I + Lap, I < y, y < I + Lap
  PROVE  x < y <=>
           \/ SeqNo(x) >= SeqNo(I) /\ SeqNo(y) < SeqNo(I)
           \/ ~(SeqNo(x) < SeqNo(I) /\ SeqNo(y) >= SeqNo(I)) /\ SeqNo(y) > SeqNo(x)
<1>1. /\ SeqNo(x) \in Int /\ SeqNo(I) \in Int /\ SeqNo(y) \in Int /\ Lap \in Int
  BY SeqNoTyped, Sizes
<1>2. IF SeqNo(x) >= SeqNo(I) THEN x - I = SeqNo(x) - SeqNo(I) ELSE x - I = Lap + SeqNo(x) - SeqNo(I)
  BY Turns
<1>3. IF SeqNo(y) >= SeqNo(I) THEN y - I = SeqNo(y) - SeqNo(I) ELSE y - I = Lap + SeqNo(y) - SeqNo(I)
  BY Turns
<1>4. SeqNo(x) < Lap /\ SeqNo(y) < Lap /\ SeqNo(I) < Lap /\ SeqNo(x) >= 0 /\ SeqNo(y) >= 0
  BY SeqNoTyped, Sizes
<1>. QED  BY <1>1, <1>2, <1>3, <1>4

\* The next command has the next number.
LEMMA SeqNoNext ==
  ASSUME NEW n \in Nat, NEW m \in Nat
  PROVE  SeqNo(SeqNo(n) + m) = SeqNo(n + m)
<1>1. PICK t \in Nat, s \in 0 .. Lap - 1 : s = SeqNo(n) /\ n = Lap * t + s  BY SeqNoIs
<1>2. PICK u \in Nat, r \in 0 .. Lap - 1 : r = SeqNo(s + m) /\ s + m = Lap * u + r
  <2>1. s + m \in Nat  BY Sizes
  <2>. QED  BY <2>1, SeqNoIs
<1>3. Lap * (t + u) = Lap * t + Lap * u  BY Sizes
<1>4. PICK a \in Nat, b \in Nat : a = Lap * t /\ b = Lap * u  BY Sizes
<1>5. n + m = Lap * (t + u) + r  BY <1>1, <1>2, <1>3, <1>4, Sizes
<1>6. (Lap * (t + u) + r) % Lap = r
  <2>1. PICK v \in Nat : v = t + u  OBVIOUS
  <2>2. (Lap * v + r) % Lap = r  BY Sizes, DivUnique
  <2>. QED  BY <2>1, <2>2
<1>. QED  BY <1>1, <1>2, <1>5, <1>6 DEF SeqNo, Lap

-----------------------------------------------------------------------------
(* Packets and their commands.                                             *)

LEMMA GreatestNumber ==
  ASSUME NEW n \in Nat, NEW S, S \subseteq 0 .. n, S # {}
  PROVE  Max(S) \in S /\ \A t \in S : t <= Max(S)
<1>. DEFINE T == {n - t : t \in S}
<1>1. T \subseteq Nat /\ T # {}
  <2>1. PICK s \in S : TRUE  OBVIOUS
  <2>2. n - s \in T  OBVIOUS
  <2>3. T \subseteq Nat  OBVIOUS
  <2>. QED  BY <2>2, <2>3
<1>2. PICK d \in T : \A e \in T : d <= e
  <2>. HIDE DEF T
  <2>. QED  BY <1>1, LeastNumber
<1>3. PICK m \in S : d = n - m  BY <1>2
<1>4. ASSUME NEW t \in S PROVE m >= t
  <2>1. n - t \in T  OBVIOUS
  <2>2. d <= n - t  BY <1>2, <2>1
  <2>. QED  BY <1>3, <2>2
<1>. QED  BY <1>4 DEF Max

LEMMA SmallestNumber ==
  ASSUME NEW S, S \subseteq Nat, S # {}
  PROVE  Min(S) \in S /\ \A t \in S : Min(S) <= t
BY LeastNumber DEF Min

Packets(c) == 1 .. Len(Ends[c])

LEMMA TotalIs ==
  ASSUME NEW c \in Channels
  PROVE  /\ Len(Ends[c]) \in Nat /\ DOMAIN Ends[c] = Packets(c)
         /\ Total(c, 0) = 0
         /\ \A p \in 0 .. Len(Ends[c]) : Total(c, p) \in Nat
         /\ \A p, r \in 0 .. Len(Ends[c]) : p < r => Total(c, p) < Total(c, r)
<1>. Ends[c] \in Seq(Nat \ {0}) /\ \A p, r \in DOMAIN Ends[c] : p < r => Ends[c][p] < Ends[c][r]
  BY EnetChannelAssumption
<1>. QED  BY DEF Total, Packets

LEMMA PacketIs ==
  ASSUME NEW c \in Channels, NEW p \in Packets(c)
  PROVE  /\ First(c, p) \in Nat \ {0} /\ Count(c, p) \in 1 .. WindowSize + 1
         /\ First(c, p) <= Total(c, p) /\ Total(c, p) = First(c, p) + Count(c, p) - 1
         /\ Total(c, p) \in 1 .. Total(c, Len(Ends[c])) /\ Total(c, p - 1) = First(c, p) - 1
         /\ p - 1 \in 0 .. Len(Ends[c]) /\ p \in 0 .. Len(Ends[c])
         /\ Lifetime + Count(c, p) <= (Free + 1) * WindowSize + 2
<1>1. /\ p - 1 \in 0 .. Len(Ends[c]) /\ p \in 0 .. Len(Ends[c]) /\ Len(Ends[c]) \in Nat
      /\ p - 1 < p /\ Len(Ends[c]) \in 0 .. Len(Ends[c])
  BY TotalIs DEF Packets
<1>2. Total(c, p - 1) \in Nat /\ Total(c, p) \in Nat /\ Total(c, p - 1) < Total(c, p)
  BY <1>1, TotalIs
<1>3. Total(c, p) <= Total(c, Len(Ends[c])) /\ Total(c, Len(Ends[c])) \in Nat
  <2>1. p = Len(Ends[c]) \/ p < Len(Ends[c])  BY <1>1
  <2>. QED  BY <1>1, <2>1, TotalIs
<1>4. Count(c, p) <= WindowSize + 1 /\ Lifetime + Count(c, p) <= (Free + 1) * WindowSize + 2
  BY EnetChannelAssumption, TotalIs DEF Packets
<1>5. /\ First(c, p) \in Nat \ {0} /\ Count(c, p) \in Nat \ {0}
      /\ First(c, p) <= Total(c, p) /\ Total(c, p) = First(c, p) + Count(c, p) - 1
      /\ Total(c, p - 1) = First(c, p) - 1
  BY <1>2 DEF First, Count
<1>. QED  BY <1>1, <1>2, <1>3, <1>4, <1>5, Sizes

LEMMA PacketOf ==
  ASSUME NEW c \in Channels, NEW p \in Packets(c), NEW n \in Fragments(c, p)
  PROVE  Packet(c, n) = p
<1>1. ASSUME NEW r \in Packets(c), n \in Fragments(c, r) PROVE r = p
  <2>1. /\ r \in 0 .. Len(Ends[c]) /\ p \in 0 .. Len(Ends[c])
        /\ r - 1 \in 0 .. Len(Ends[c]) /\ p - 1 \in 0 .. Len(Ends[c]) /\ r \in Nat /\ p \in Nat
    BY PacketIs DEF Packets
  <2>2. /\ Total(c, r - 1) < n /\ n <= Total(c, r) /\ Total(c, p - 1) < n /\ n <= Total(c, p)
        /\ n \in Nat /\ Total(c, r) \in Nat /\ Total(c, p) \in Nat /\ Total(c, r - 1) \in Nat /\ Total(c, p - 1) \in Nat
    <3>1. /\ Total(c, r) \in Nat /\ Total(c, p) \in Nat
          /\ Total(c, r - 1) \in Nat /\ Total(c, p - 1) \in Nat
      BY <2>1, TotalIs
    <3>. QED  BY <1>1, <3>1 DEF Fragments, First
  <2>3. ~ (r < p)
    <3>1. CASE r = p - 1  BY <2>2, <3>1
    <3>2. CASE r < p - 1
      <4>1. Total(c, r) < Total(c, p - 1)  BY <2>1, <3>2, TotalIs
      <4>. QED  BY <2>2, <4>1
    <3>. QED  BY <2>1, <3>1, <3>2
  <2>4. ~ (p < r)
    <3>1. CASE p = r - 1  BY <2>2, <3>1
    <3>2. CASE p < r - 1
      <4>1. Total(c, p) < Total(c, r - 1)  BY <2>1, <3>2, TotalIs
      <4>. QED  BY <2>2, <4>1
    <3>. QED  BY <2>1, <3>1, <3>2
  <2>. QED  BY <2>1, <2>3, <2>4
<1>. QED  BY <1>1, TotalIs DEF Packet

LEMMA PacketThere ==
  ASSUME NEW c \in Channels, NEW n \in 1 .. Total(c, Len(Ends[c]))
  PROVE  Packet(c, n) \in Packets(c) /\ n \in Fragments(c, Packet(c, n))
<1>. DEFINE S == {p \in 0 .. Len(Ends[c]) : n <= Total(c, p)}
<1>1. S \subseteq Nat /\ Len(Ends[c]) \in S  BY TotalIs
<1>2. PICK p \in S : \A r \in S : p <= r  BY <1>1, LeastNumber
<1>3. p # 0  BY TotalIs
<1>4. p \in Packets(c) /\ p - 1 \in 0 .. Len(Ends[c]) /\ p - 1 \notin S  BY <1>2, <1>3, TotalIs DEF Packets
<1>5. n \in Fragments(c, p)
  <2>1. Total(c, p - 1) \in Nat /\ Total(c, p) \in Nat /\ Total(c, Len(Ends[c])) \in Nat
    BY <1>4, TotalIs, PacketIs
  <2>. QED  BY <1>2, <1>4, <2>1 DEF Fragments, First
<1>. QED  BY <1>4, <1>5, PacketOf

-----------------------------------------------------------------------------
(* The lists.                                                              *)

Distinct(l) == \A i, j \in DOMAIN l : i # j => l[i] # l[j]

LEMMA RemoveAtIs ==
  ASSUME NEW X, NEW l \in Seq(X), NEW i \in DOMAIN l
  PROVE  /\ RemoveAt(l, i) \in Seq(X) /\ DOMAIN RemoveAt(l, i) = 1 .. Len(l) - 1
         /\ \A j \in 1 .. Len(l) - 1 : RemoveAt(l, i)[j] = l[IF j < i THEN j ELSE j + 1]
<1>. i \in 1 .. Len(l) /\ Len(l) \in Nat  OBVIOUS
<1>1. /\ SubSeq(l, 1, i - 1) \in Seq(X) /\ Len(SubSeq(l, 1, i - 1)) = i - 1
      /\ \A j \in 1 .. i - 1 : SubSeq(l, 1, i - 1)[j] = l[j]
  OBVIOUS
<1>2. /\ SubSeq(l, i + 1, Len(l)) \in Seq(X) /\ Len(SubSeq(l, i + 1, Len(l))) = Len(l) - i
      /\ \A j \in 1 .. Len(l) - i : SubSeq(l, i + 1, Len(l))[j] = l[i + j]
  OBVIOUS
<1>3. PICK a \in Seq(X), b \in Seq(X) :
        /\ a = SubSeq(l, 1, i - 1) /\ b = SubSeq(l, i + 1, Len(l))
        /\ Len(a) = i - 1 /\ Len(b) = Len(l) - i
        /\ \A j \in 1 .. i - 1 : a[j] = l[j]
        /\ \A j \in 1 .. Len(l) - i : b[j] = l[i + j]
  BY <1>1, <1>2
<1>4. RemoveAt(l, i) = a \o b  BY <1>3 DEF RemoveAt
<1>5. /\ a \o b \in Seq(X) /\ Len(a \o b) = Len(a) + Len(b)
      /\ \A j \in 1 .. Len(a) : (a \o b)[j] = a[j]
      /\ \A j \in Len(a) + 1 .. Len(a) + Len(b) : (a \o b)[j] = b[j - Len(a)]
  OBVIOUS
<1>6. ASSUME NEW j \in 1 .. Len(l) - 1 PROVE (a \o b)[j] = l[IF j < i THEN j ELSE j + 1]
  <2>1. CASE j < i  BY <1>3, <1>5, <2>1
  <2>2. CASE ~(j < i)
    <3>1. j \in Len(a) + 1 .. Len(a) + Len(b) /\ j - Len(a) = j - i + 1 /\ j - i + 1 \in 1 .. Len(l) - i
      <4>1. i \in Int /\ j \in Int /\ Len(l) \in Int /\ Len(a) = i - 1 /\ Len(b) = Len(l) - i
            /\ j >= i /\ j <= Len(l) - 1
        BY <1>3, <2>2
      <4>. QED  BY <4>1
    <3>2. (a \o b)[j] = b[j - Len(a)] /\ b[j - i + 1] = l[i + (j - i + 1)]
      BY <1>3, <1>5, <3>1
    <3>3. i + (j - i + 1) = j + 1  OBVIOUS
    <3>. QED  BY <2>2, <3>1, <3>2, <3>3
  <2>. QED  BY <2>1, <2>2
<1>7. DOMAIN (a \o b) = 1 .. Len(l) - 1  BY <1>3, <1>5
<1>. QED  BY <1>4, <1>5, <1>6, <1>7

LEMMA RemovedFrom ==
  ASSUME NEW X, NEW l \in Seq(X), Distinct(l), NEW i \in DOMAIN l
  PROVE  /\ Distinct(RemoveAt(l, i))
         /\ ToSet(RemoveAt(l, i)) = ToSet(l) \ {l[i]}
<1>. DEFINE r == RemoveAt(l, i)
<1>1. /\ DOMAIN r = 1 .. Len(l) - 1 /\ \A j \in 1 .. Len(l) - 1 : r[j] = l[IF j < i THEN j ELSE j + 1]
  BY RemoveAtIs
<1>2. i \in 1 .. Len(l) /\ Len(l) \in Nat /\ DOMAIN l = 1 .. Len(l)  OBVIOUS
<1>. HIDE DEF r
<1>3. Distinct(r)
  <2>. SUFFICES ASSUME NEW j \in DOMAIN r, NEW k \in DOMAIN r, j # k PROVE r[j] # r[k]
    BY DEF Distinct
  <2>1. /\ (IF j < i THEN j ELSE j + 1) # (IF k < i THEN k ELSE k + 1)
        /\ (IF j < i THEN j ELSE j + 1) \in DOMAIN l /\ (IF k < i THEN k ELSE k + 1) \in DOMAIN l
    BY <1>1, <1>2
  <2>. QED  BY <1>1, <2>1 DEF Distinct
<1>4. ASSUME NEW x \in ToSet(r) PROVE x \in ToSet(l) \ {l[i]}
  <2>1. PICK j \in DOMAIN r : x = r[j]  BY DEF ToSet
  <2>2. (IF j < i THEN j ELSE j + 1) \in DOMAIN l /\ (IF j < i THEN j ELSE j + 1) # i
    BY <1>1, <1>2
  <2>. QED  BY <1>1, <2>1, <2>2 DEF Distinct, ToSet
<1>5. ASSUME NEW x \in ToSet(l) \ {l[i]} PROVE x \in ToSet(r)
  <2>1. PICK j \in DOMAIN l : x = l[j] /\ j # i  BY DEF ToSet
  <2>2. CASE j < i
    <3>1. j \in DOMAIN r /\ r[j] = l[j]  BY <1>1, <1>2, <2>2
    <3>. QED  BY <2>1, <3>1 DEF ToSet
  <2>3. CASE i < j
    <3>1. j - 1 \in DOMAIN r /\ r[j - 1] = l[(j - 1) + 1] /\ (j - 1) + 1 = j  BY <1>1, <1>2, <2>3
    <3>. QED  BY <2>1, <3>1 DEF ToSet
  <2>. QED  BY <1>2, <2>1, <2>2, <2>3
<1>. QED  BY <1>3, <1>4, <1>5 DEF r

LEMMA Joined ==
  ASSUME NEW X, NEW k \in Seq(X), NEW l \in Seq(X)
  PROVE  /\ k \o l \in Seq(X) /\ DOMAIN (k \o l) = 1 .. Len(k) + Len(l)
         /\ \A i \in 1 .. Len(k) : (k \o l)[i] = k[i]
         /\ \A i \in Len(k) + 1 .. Len(k) + Len(l) : (k \o l)[i] = l[i - Len(k)] /\ i - Len(k) \in DOMAIN l
         /\ ToSet(k \o l) = ToSet(k) \cup ToSet(l)
         /\ Distinct(k) /\ Distinct(l) /\ ToSet(k) \cap ToSet(l) = {} => Distinct(k \o l)
<1>. DEFINE m == k \o l
<1>1. /\ m \in Seq(X) /\ DOMAIN m = 1 .. Len(k) + Len(l) /\ Len(k) \in Nat /\ Len(l) \in Nat
      /\ DOMAIN k = 1 .. Len(k) /\ DOMAIN l = 1 .. Len(l)
  OBVIOUS
<1>2. \A i \in 1 .. Len(k) : m[i] = k[i]  OBVIOUS
<1>3. \A i \in Len(k) + 1 .. Len(k) + Len(l) : m[i] = l[i - Len(k)] /\ i - Len(k) \in DOMAIN l  OBVIOUS
<1>. HIDE DEF m
<1>4. \A x \in ToSet(m) : x \in ToSet(k) \cup ToSet(l)
  <2>. SUFFICES ASSUME NEW i \in DOMAIN m PROVE m[i] \in ToSet(k) \cup ToSet(l)  BY DEF ToSet
  <2>1. CASE i <= Len(k)  BY <1>1, <1>2, <2>1 DEF ToSet
  <2>2. CASE i > Len(k)
    <3>1. i \in Len(k) + 1 .. Len(k) + Len(l)  BY <1>1, <2>2
    <3>. QED  BY <1>3, <3>1 DEF ToSet
  <2>. QED  BY <1>1, <2>1, <2>2
<1>5. \A x \in ToSet(k) : x \in ToSet(m)
  <2>. SUFFICES ASSUME NEW i \in DOMAIN k PROVE k[i] \in ToSet(m)  BY DEF ToSet
  <2>1. i \in DOMAIN m /\ m[i] = k[i]  BY <1>1, <1>2
  <2>. QED  BY <2>1 DEF ToSet
<1>6. \A x \in ToSet(l) : x \in ToSet(m)
  <2>. SUFFICES ASSUME NEW i \in DOMAIN l PROVE l[i] \in ToSet(m)  BY DEF ToSet
  <2>. DEFINE j == i + Len(k)
  <2>1. j \in Len(k) + 1 .. Len(k) + Len(l) /\ j \in DOMAIN m /\ j - Len(k) = i  BY <1>1
  <2>. HIDE DEF j
  <2>2. m[j] = l[j - Len(k)]  BY <1>3, <2>1
  <2>. QED  BY <2>1, <2>2 DEF ToSet
<1>7. ASSUME Distinct(k), Distinct(l), ToSet(k) \cap ToSet(l) = {}, NEW i \in DOMAIN m, NEW j \in DOMAIN m, i < j
      PROVE  m[i] # m[j]
  <2>1. CASE j <= Len(k)
    <3>1. i \in DOMAIN k /\ j \in DOMAIN k /\ m[i] = k[i] /\ m[j] = k[j]  BY <1>1, <1>2, <1>7, <2>1
    <3>. QED  BY <1>1, <1>7, <3>1 DEF Distinct
  <2>2. CASE i <= Len(k) /\ j > Len(k)
    <3>1. i \in DOMAIN k /\ j - Len(k) \in DOMAIN l /\ m[i] = k[i] /\ m[j] = l[j - Len(k)]
      <4>1. j \in Len(k) + 1 .. Len(k) + Len(l)  BY <1>1, <2>2
      <4>. QED  BY <1>1, <1>2, <1>3, <2>2, <4>1
    <3>. QED  BY <1>7, <3>1 DEF ToSet
  <2>3. CASE i > Len(k)
    <3>1. i \in Len(k) + 1 .. Len(k) + Len(l) /\ j \in Len(k) + 1 .. Len(k) + Len(l)  BY <1>1, <1>7, <2>3
    <3>2. i - Len(k) \in DOMAIN l /\ j - Len(k) \in DOMAIN l /\ m[i] = l[i - Len(k)] /\ m[j] = l[j - Len(k)]
      BY <1>3, <3>1
    <3>3. i - Len(k) # j - Len(k)  BY <1>1, <1>7
    <3>. QED  BY <1>7, <3>2, <3>3 DEF Distinct
  <2>. QED  BY <1>1, <1>7, <2>1, <2>2, <2>3
<1>8. Distinct(k) /\ Distinct(l) /\ ToSet(k) \cap ToSet(l) = {} => Distinct(m)
  <2>. SUFFICES ASSUME Distinct(k), Distinct(l), ToSet(k) \cap ToSet(l) = {},
                       NEW i \in DOMAIN m, NEW j \in DOMAIN m, i # j
                PROVE  m[i] # m[j]
    BY DEF Distinct
  <2>. QED  BY <1>1, <1>7
<1>. QED  BY <1>1, <1>2, <1>3, <1>4, <1>5, <1>6, <1>8 DEF m

\* The places of a list that are in I, by how many are up to each.
LEMMA Ranks ==
  ASSUME NEW n \in Nat, NEW I \in SUBSET (1 .. n)
  PROVE  /\ Cardinality(I) \in Nat
         /\ \A i \in I : Cardinality({j \in I : j <= i}) \in 1 .. Cardinality(I)
         /\ \A i, k \in I : i # k => Cardinality({j \in I : j <= i}) # Cardinality({j \in I : j <= k})
         /\ \A r \in 1 .. Cardinality(I) : \E i \in I : Cardinality({j \in I : j <= i}) = r
<1>. DEFINE Rank(i) == Cardinality({j \in I : j <= i})
<1>1. IsFiniteSet(I) /\ Cardinality(I) \in Nat
  <2>1. IsFiniteSet(1 .. n)  BY FS_Interval
  <2>2. IsFiniteSet(I)  BY <2>1, FS_Subset
  <2>. QED  BY <2>2, FS_CardinalityType
<1>2. ASSUME NEW i \in I PROVE Rank(i) \in 1 .. Cardinality(I)
  <2>1. {j \in I : j <= i} \subseteq I /\ i \in {j \in I : j <= i}  OBVIOUS
  <2>2. /\ IsFiniteSet({j \in I : j <= i}) /\ Rank(i) \in Nat /\ Rank(i) <= Cardinality(I)
    BY <1>1, <2>1, FS_Subset, FS_CardinalityType
  <2>3. Rank(i) # 0  BY <2>1, <2>2, FS_EmptySet
  <2>. QED  BY <1>1, <2>2, <2>3
<1>3. ASSUME NEW i \in I, NEW k \in I, i < k PROVE Rank(i) < Rank(k)
  <2>1. {j \in I : j <= i} \subseteq {j \in I : j <= k} /\ {j \in I : j <= i} # {j \in I : j <= k}
        /\ {j \in I : j <= k} \subseteq I
    <3>1. k \in {j \in I : j <= k} /\ k \notin {j \in I : j <= i}  BY <1>3
    <3>2. \A j \in I : j <= i => j <= k  BY <1>3
    <3>. QED  BY <3>1, <3>2
  <2>2. IsFiniteSet({j \in I : j <= k})  BY <1>1, <2>1, FS_Subset
  <2>3. /\ Cardinality({j \in I : j <= i}) <= Cardinality({j \in I : j <= k})
        /\ Cardinality({j \in I : j <= i}) # Cardinality({j \in I : j <= k})
    BY <2>1, <2>2, FS_Subset
  <2>4. Rank(i) \in Nat /\ Rank(k) \in Nat  BY <1>1, <1>2
  <2>. QED  BY <2>3, <2>4
<1>4. \A i, k \in I : i # k => Rank(i) # Rank(k)
  <2>. HIDE DEF Rank
  <2>. SUFFICES ASSUME NEW i \in I, NEW k \in I, i # k PROVE Rank(i) # Rank(k)  OBVIOUS
  <2>1. Rank(i) \in Nat /\ Rank(k) \in Nat /\ (i < k \/ k < i)  BY <1>1, <1>2
  <2>. QED  BY <1>3, <2>1
<1>5. ASSUME NEW r \in 1 .. Cardinality(I) PROVE \E i \in I : Rank(i) = r
  <2>. DEFINE f == [i \in I |-> Rank(i)]
  <2>1. f \in Injection(I, 1 .. Cardinality(I))
    <3>. HIDE DEF Rank
    <3>1. f \in [I -> 1 .. Cardinality(I)]  BY <1>2
    <3>2. \A i, k \in I : f[i] = f[k] => i = k  BY <1>4
    <3>. QED  BY <3>1, <3>2 DEF Injection, IsInjective
  <2>2. IsFiniteSet(1 .. Cardinality(I)) /\ Cardinality(1 .. Cardinality(I)) = Cardinality(I)
    BY <1>1, FS_Interval
  <2>3. f \in Surjection(I, 1 .. Cardinality(I))
    BY <1>1, <2>1, <2>2, FS_Injection
  <2>. QED  BY <2>3 DEF Surjection
<1>. QED  BY <1>1, <1>2, <1>4, <1>5

LEMMA OnlyIs ==
  ASSUME NEW X, NEW l \in Seq(X), Distinct(l), NEW S
  PROVE  /\ Only(l, S) \in Seq(X) /\ Distinct(Only(l, S))
         /\ ToSet(Only(l, S)) = ToSet(l) \cap S
<1>. DEFINE I == {i \in DOMAIN l : l[i] \in S}
            N == Cardinality(I)
            Rank(i) == Cardinality({j \in I : j <= i})
            At(k) == CHOOSE i \in I : Rank(i) = k
            m == [k \in 1 .. N |-> l[At(k)]]
<1>1. Only(l, S) = m  BY DEF Only
<1>2. I \in SUBSET (1 .. Len(l)) /\ Len(l) \in Nat  OBVIOUS
<1>. HIDE DEF I
<1>3. /\ N \in Nat /\ \A i \in I : Rank(i) \in 1 .. N
      /\ \A r \in 1 .. N : \E i \in I : Rank(i) = r
      /\ \A i, k \in I : i # k => Rank(i) # Rank(k)
  BY <1>2, Ranks
<1>. HIDE DEF N, Rank
<1>4. \A k \in 1 .. N : At(k) \in I /\ Rank(At(k)) = k  BY <1>3
<1>5. \A i \in I : At(Rank(i)) = i
  <2>. SUFFICES ASSUME NEW i \in I PROVE At(Rank(i)) = i  OBVIOUS
  <2>1. Rank(i) \in 1 .. N  BY <1>3
  <2>2. At(Rank(i)) \in I /\ Rank(At(Rank(i))) = Rank(i)  BY <1>4, <2>1
  <2>. HIDE DEF At
  <2>. QED  BY <1>3, <2>2
<1>. HIDE DEF At
<1>6. \A i \in I : i \in DOMAIN l /\ l[i] \in S /\ l[i] \in X  BY DEF I
<1>7. m \in Seq(X) /\ DOMAIN m = 1 .. N /\ \A k \in 1 .. N : m[k] = l[At(k)]
  <2>1. \A k \in 1 .. N : l[At(k)] \in X  BY <1>4, <1>6
  <2>. QED  BY <1>3, <2>1
<1>. HIDE DEF m
<1>8. Distinct(m)
  <2>. SUFFICES ASSUME NEW j \in 1 .. N, NEW k \in 1 .. N, j # k PROVE m[j] # m[k]
    BY <1>7 DEF Distinct
  <2>1. At(j) # At(k) /\ At(j) \in DOMAIN l /\ At(k) \in DOMAIN l  BY <1>4, <1>6
  <2>. QED  BY <1>7, <2>1 DEF Distinct
<1>9. \A x \in ToSet(m) : x \in ToSet(l) \cap S
  BY <1>4, <1>6, <1>7 DEF ToSet
<1>10. \A x \in ToSet(l) \cap S : x \in ToSet(m)
  <2>. SUFFICES ASSUME NEW i \in DOMAIN l, l[i] \in S PROVE l[i] \in ToSet(m)  BY DEF ToSet
  <2>1. i \in I  BY DEF I
  <2>2. Rank(i) \in DOMAIN m /\ m[Rank(i)] = l[i]  BY <1>3, <1>5, <1>7, <2>1
  <2>. QED  BY <2>2 DEF ToSet
<1>. QED  BY <1>1, <1>7, <1>8, <1>9, <1>10

-----------------------------------------------------------------------------
(* The invariant, and the sender's lists.                                  *)

\* The last command delivered.
Done(c) == Total(c, Len(delivered[c]))

EntryType == [start : Nat, count : Nat, have : SUBSET Nat]

ChannelTypes ==
  /\ queued \in [Channels -> Nat] /\ \A c \in Channels : queued[c] \in 0 .. Len(Ends[c])
  /\ outgoing \in Seq(Commands) /\ sentCommands \in Seq(Commands)
  /\ started \in [Channels -> Nat]
  /\ reliableWindows \in [Channels -> [0 .. Windows - 1 -> Nat]]
  /\ wire \in SUBSET Commands /\ acks \in SUBSET Commands
  /\ incoming \in [Channels -> 0 .. Lap - 1]
  /\ held \in [Channels -> Seq(EntryType)]
  /\ delivered \in [Channels -> Seq(SUBSET Nat)]
  /\ \A c \in Channels : Len(delivered[c]) <= queued[c]

\* What has never been sent waits in the order of its numbers.
NewInOrder ==
  \A i, j \in DOMAIN outgoing :
    /\ i < j /\ outgoing[i].ch = outgoing[j].ch
    /\ outgoing[i].n > started[outgoing[i].ch] /\ outgoing[j].n > started[outgoing[j].ch]
    => outgoing[i].n < outgoing[j].n

\* The sender's lists hold each command once; they hold every command that was
\* never sent, and no other is to be sent for the first time.
ListsInv ==
  /\ Distinct(outgoing) /\ Distinct(sentCommands)
  /\ ToSet(outgoing) \cap ToSet(sentCommands) = {}
  /\ \A m \in ToSet(sentCommands) : m.n <= started[m.ch]
  /\ \A m \in ToSet(outgoing) : m.n <= Total(m.ch, queued[m.ch])
  /\ \A c \in Channels :
       /\ started[c] <= Total(c, queued[c])
       /\ \A n \in started[c] + 1 .. Total(c, queued[c]) : [ch |-> c, n |-> n] \in ToSet(outgoing)
  /\ NewInOrder

LEMMA CommandIs ==
  /\ \A m \in Commands : /\ m.ch \in Channels /\ m.n \in 1 .. Total(m.ch, Len(Ends[m.ch]))
                         /\ m.n \in Nat /\ m = [ch |-> m.ch, n |-> m.n]
  /\ \A c \in Channels : \A n \in 1 .. Total(c, Len(Ends[c])) : [ch |-> c, n |-> n] \in Commands
BY DEF Commands

LEMMA InLists ==
  ASSUME NEW l \in Seq(Commands)
  PROVE  /\ ToSet(l) \subseteq Commands
         /\ \A i \in DOMAIN l : l[i] \in ToSet(l) /\ l[i] \in Commands
BY DEF ToSet

LEMMA SendKeepsLists ==
  ASSUME ChannelTypes, ListsInv, NEW c \in Channels, Send(c)
  PROVE  /\ ListsInv' /\ outgoing' \in Seq(Commands)
         /\ queued' \in [Channels -> Nat] /\ \A d \in Channels : queued'[d] \in 0 .. Len(Ends[d]) /\ queued[d] <= queued'[d]
         /\ \A d \in Channels : Outstanding(d)' = Outstanding(d)
<1>. DEFINE p == queued[c] + 1
            new == [i \in 1 .. Count(c, p) |-> [ch |-> c, n |-> First(c, p) + i - 1]]
<1>1. /\ queued' = [queued EXCEPT ![c] = @ + 1] /\ outgoing' = outgoing \o new
      /\ UNCHANGED <<sentCommands, started>> /\ queued[c] < Len(Ends[c])
  BY DEF Send
<1>2. p \in Packets(c) /\ p - 1 = queued[c] /\ queued'[c] = p /\ queued[c] \in 0 .. Len(Ends[c])
  BY <1>1, TotalIs DEF ChannelTypes, Packets
<1>3. /\ queued' \in [Channels -> Nat] /\ \A d \in Channels : d # c => queued'[d] = queued[d]
      /\ \A d \in Channels : queued'[d] \in 0 .. Len(Ends[d]) /\ queued[d] <= queued'[d]
  <2>1. \A d \in Channels : queued[d] \in Nat /\ queued[d] \in 0 .. Len(Ends[d]) /\ Len(Ends[d]) \in Nat
    BY TotalIs DEF ChannelTypes
  <2>2. queued \in [Channels -> Nat]  BY DEF ChannelTypes
  <2>3. \A d \in Channels : queued'[d] = IF d = c THEN queued[c] + 1 ELSE queued[d]  BY <1>1, <2>2
  <2>4. queued' \in [Channels -> Nat]  BY <1>1, <2>1, <2>2
  <2>. QED  BY <1>1, <2>1, <2>3, <2>4
<1>. HIDE DEF p
<1>4. PICK f \in Nat \ {0}, k \in Nat \ {0} :
        /\ f = First(c, p) /\ k = Count(c, p) /\ Total(c, p) = f + k - 1 /\ Total(c, p - 1) = f - 1
        /\ f + k - 1 <= Total(c, Len(Ends[c]))
  BY <1>2, PacketIs, Sizes
<1>5. /\ new \in Seq(Commands) /\ DOMAIN new = 1 .. k /\ Len(new) = k
      /\ \A i \in 1 .. k : new[i] = [ch |-> c, n |-> f + i - 1] /\ new[i].ch = c /\ new[i].n = f + i - 1
  <2>1. \A i \in 1 .. k : [ch |-> c, n |-> f + i - 1] \in Commands
    <3>. SUFFICES ASSUME NEW i \in 1 .. k PROVE f + i - 1 \in 1 .. Total(c, Len(Ends[c]))  BY CommandIs
    <3>1. Total(c, Len(Ends[c])) \in Nat  BY TotalIs
    <3>. QED  BY <1>4, <3>1
  <2>. QED  BY <1>4, <2>1
<1>. HIDE DEF new
<1>6. Distinct(new)  BY <1>5 DEF Distinct
<1>7. /\ \A m \in ToSet(outgoing) : m.ch = c => m.n <= f - 1
      /\ \A m \in ToSet(sentCommands) : m.ch = c => m.n <= f - 1
      /\ started[c] <= f - 1 /\ f - 1 = Total(c, queued[c])
  <2>1. Total(c, queued[c]) = f - 1  BY <1>2, <1>4
  <2>2. \A m \in ToSet(sentCommands) : m.ch = c => m.n <= started[c] /\ m.n \in Nat
    BY InLists, CommandIs DEF ListsInv, ChannelTypes
  <2>3. started[c] \in Nat  BY DEF ChannelTypes
  <2>. QED  BY <2>1, <2>2, <2>3 DEF ListsInv
<1>8. \A m \in ToSet(new) : m.ch = c /\ m.n \in f .. f + k - 1
  BY <1>5 DEF ToSet
<1>9. ToSet(new) \cap (ToSet(outgoing) \cup ToSet(sentCommands)) = {}
  BY <1>7, <1>8
<1>10. /\ outgoing' \in Seq(Commands) /\ Distinct(outgoing') /\ ToSet(outgoing') = ToSet(outgoing) \cup ToSet(new)
       /\ DOMAIN outgoing' = 1 .. Len(outgoing) + k /\ Len(outgoing) \in Nat
       /\ DOMAIN outgoing = 1 .. Len(outgoing)
       /\ \A i \in 1 .. Len(outgoing) : outgoing'[i] = outgoing[i]
       /\ \A i \in Len(outgoing) + 1 .. Len(outgoing) + k :
             outgoing'[i] = new[i - Len(outgoing)] /\ i - Len(outgoing) \in DOMAIN new
  <2>1. outgoing \in Seq(Commands) /\ Distinct(outgoing)  BY DEF ListsInv, ChannelTypes
  <2>2. ToSet(outgoing) \cap ToSet(new) = {}  BY <1>9
  <2>3. Len(outgoing) \in Nat /\ DOMAIN outgoing = 1 .. Len(outgoing)  BY <2>1
  <2>4. Distinct(outgoing \o new)  BY <1>5, <1>6, <2>1, <2>2, Joined
  <2>5. /\ outgoing \o new \in Seq(Commands) /\ ToSet(outgoing \o new) = ToSet(outgoing) \cup ToSet(new)
        /\ DOMAIN (outgoing \o new) = 1 .. Len(outgoing) + Len(new)
        /\ \A i \in 1 .. Len(outgoing) : (outgoing \o new)[i] = outgoing[i]
        /\ \A i \in Len(outgoing) + 1 .. Len(outgoing) + Len(new) :
              (outgoing \o new)[i] = new[i - Len(outgoing)] /\ i - Len(outgoing) \in DOMAIN new
    <3>1. new \in Seq(Commands)  BY <1>5
    <3>2. outgoing \in Seq(Commands)  BY <2>1
    <3>. QED  BY ONLY <3>1, <3>2, Joined
  <2>. QED  BY <1>1, <1>5, <2>3, <2>4, <2>5
<1>11. ToSet(outgoing') \cap ToSet(sentCommands') = {}
  BY <1>1, <1>9, <1>10 DEF ListsInv
<1>12. \A m \in ToSet(sentCommands') : m.n <= started'[m.ch]
  BY <1>1 DEF ListsInv
<1>13. \A d \in Channels : Total(d, queued[d]) <= Total(d, queued'[d]) /\ Total(d, queued[d]) \in Nat /\ Total(d, queued'[d]) \in Nat
  <2>1. Total(c, queued'[c]) = f + k - 1 /\ Total(c, queued[c]) = f - 1  BY <1>2, <1>4
  <2>2. \A d \in Channels : d # c => Total(d, queued[d]) = Total(d, queued'[d])  BY <1>3
  <2>3. \A d \in Channels : Total(d, queued[d]) \in Nat  BY TotalIs DEF ChannelTypes
  <2>. QED  BY <1>4, <2>1, <2>2, <2>3
<1>14. \A m \in ToSet(outgoing') : m.n <= Total(m.ch, queued'[m.ch])
  <2>1. \A m \in ToSet(outgoing) : m.ch \in Channels /\ m.n \in Nat /\ m.n <= Total(m.ch, queued[m.ch])
    BY InLists, CommandIs DEF ListsInv, ChannelTypes
  <2>2. \A m \in ToSet(new) : m.n <= Total(m.ch, queued'[m.ch])
    BY <1>2, <1>4, <1>8
  <2>. QED  BY <1>10, <1>13, <2>1, <2>2
<1>15. ASSUME NEW d \in Channels
       PROVE  /\ started'[d] <= Total(d, queued'[d])
              /\ \A n \in started'[d] + 1 .. Total(d, queued'[d]) : [ch |-> d, n |-> n] \in ToSet(outgoing')
  <2>1. started[d] \in Nat /\ started[d] <= Total(d, queued[d]) /\ started' = started
    BY <1>1 DEF ChannelTypes, ListsInv
  <2>2. started'[d] <= Total(d, queued'[d])  BY <1>13, <2>1
  <2>3. ASSUME NEW n \in started[d] + 1 .. Total(d, queued'[d]) PROVE [ch |-> d, n |-> n] \in ToSet(outgoing')
    <3>1. CASE n <= Total(d, queued[d])
      BY <1>10, <1>13, <2>1, <3>1 DEF ListsInv
    <3>2. CASE n > Total(d, queued[d])
      <4>1. d = c  BY <1>3, <1>13, <3>2
      <4>2. n \in f .. f + k - 1  BY <1>2, <1>4, <1>7, <2>1, <3>2, <4>1
      <4>3. n - f + 1 \in 1 .. k /\ f + (n - f + 1) - 1 = n  BY <4>2
      <4>4. new[n - f + 1] = [ch |-> c, n |-> n] /\ n - f + 1 \in DOMAIN new  BY <1>5, <4>3
      <4>. QED  BY <1>10, <4>1, <4>4 DEF ToSet
    <3>. QED  BY <1>13, <2>1, <3>1, <3>2
  <2>. QED  BY <2>1, <2>2, <2>3
<1>16. NewInOrder'
  <2>. SUFFICES ASSUME NEW i \in DOMAIN outgoing', NEW j \in DOMAIN outgoing', i < j,
                       outgoing'[i].ch = outgoing'[j].ch,
                       outgoing'[i].n > started[outgoing'[i].ch], outgoing'[j].n > started[outgoing'[j].ch]
                PROVE  outgoing'[i].n < outgoing'[j].n
    BY <1>1 DEF NewInOrder
  <2>1. CASE j <= Len(outgoing)
    <3>1. i \in DOMAIN outgoing /\ j \in DOMAIN outgoing /\ outgoing'[i] = outgoing[i] /\ outgoing'[j] = outgoing[j]
      BY <1>10, <2>1
    <3>. QED  BY <1>1, <3>1 DEF ListsInv, NewInOrder
  <2>2. CASE i <= Len(outgoing) /\ j > Len(outgoing)
    <3>1. i \in DOMAIN outgoing /\ outgoing'[i] = outgoing[i]
      BY <1>10, <2>2
    <3>2. j \in Len(outgoing) + 1 .. Len(outgoing) + k  BY <1>10, <2>2
    <3>3. outgoing'[j] = new[j - Len(outgoing)] /\ j - Len(outgoing) \in 1 .. k  BY <1>5, <1>10, <3>2
    <3>4. outgoing'[j].ch = c /\ outgoing'[j].n >= f /\ outgoing'[j].n \in Nat
      BY <1>5, <3>3
    <3>5. outgoing'[i].n <= f - 1 /\ outgoing'[i].n \in Nat
      <4>1. outgoing[i] \in ToSet(outgoing) /\ outgoing[i].n \in Nat
        BY <3>1, InLists, CommandIs DEF ChannelTypes
      <4>. QED  BY <1>7, <3>1, <3>4, <4>1
    <3>. QED  BY <3>4, <3>5
  <2>3. CASE i > Len(outgoing)
    <3>1. i \in Len(outgoing) + 1 .. Len(outgoing) + k /\ j \in Len(outgoing) + 1 .. Len(outgoing) + k
      BY <1>10, <2>3
    <3>2. /\ outgoing'[i] = new[i - Len(outgoing)] /\ i - Len(outgoing) \in 1 .. k
          /\ outgoing'[j] = new[j - Len(outgoing)] /\ j - Len(outgoing) \in 1 .. k
      BY <1>5, <1>10, <3>1
    <3>3. outgoing'[i].n = f + (i - Len(outgoing)) - 1 /\ outgoing'[j].n = f + (j - Len(outgoing)) - 1
      BY <1>5, <3>2
    <3>. QED  BY <1>10, <3>1, <3>3
  <2>. QED  BY <1>10, <2>1, <2>2, <2>3
<1>17. ListsInv'
  BY <1>1, <1>10, <1>11, <1>12, <1>14, <1>15, <1>16 DEF ListsInv
<1>18. ASSUME NEW d \in Channels PROVE Outstanding(d)' = Outstanding(d)
  <2>1. \A m \in ToSet(new) : ~(m.ch = d /\ m.n <= started[d])
    BY <1>7, <1>8 DEF ChannelTypes
  <2>. QED  BY <1>1, <1>10, <2>1 DEF Outstanding
<1>. QED  BY <1>3, <1>10, <1>17, <1>18

LEMMA HeadTail ==
  ASSUME NEW X, NEW l \in Seq(X), l # <<>>, Distinct(l)
  PROVE  /\ Head(l) \in X /\ Head(l) = l[1] /\ Head(l) \in ToSet(l)
         /\ Tail(l) \in Seq(X) /\ DOMAIN Tail(l) = 1 .. Len(l) - 1 /\ DOMAIN l = 1 .. Len(l) /\ Len(l) \in Nat \ {0}
         /\ \A i \in 1 .. Len(l) - 1 : Tail(l)[i] = l[i + 1]
         /\ ToSet(Tail(l)) = ToSet(l) \ {Head(l)} /\ Distinct(Tail(l))
<1>1. /\ Head(l) \in X /\ Head(l) = l[1] /\ Len(l) \in Nat \ {0} /\ DOMAIN l = 1 .. Len(l)
      /\ Tail(l) \in Seq(X) /\ DOMAIN Tail(l) = 1 .. Len(l) - 1
      /\ \A i \in 1 .. Len(l) - 1 : Tail(l)[i] = l[i + 1]
  OBVIOUS
<1>2. Head(l) \in ToSet(l)  BY <1>1 DEF ToSet
<1>3. ASSUME NEW x \in ToSet(Tail(l)) PROVE x \in ToSet(l) \ {Head(l)}
  <2>1. PICK i \in 1 .. Len(l) - 1 : x = l[i + 1]  BY <1>1 DEF ToSet
  <2>2. i + 1 \in DOMAIN l /\ i + 1 # 1 /\ 1 \in DOMAIN l  BY <1>1
  <2>. QED  BY <1>1, <2>1, <2>2 DEF ToSet, Distinct
<1>4. ASSUME NEW x \in ToSet(l), x # Head(l) PROVE x \in ToSet(Tail(l))
  <2>1. PICK i \in DOMAIN l : x = l[i]  BY DEF ToSet
  <2>2. i - 1 \in DOMAIN Tail(l) /\ Tail(l)[i - 1] = l[(i - 1) + 1] /\ (i - 1) + 1 = i
    BY <1>1, <1>4, <2>1
  <2>. QED  BY <2>1, <2>2 DEF ToSet
<1>5. Distinct(Tail(l))
  <2>. SUFFICES ASSUME NEW i \in 1 .. Len(l) - 1, NEW j \in 1 .. Len(l) - 1, i # j PROVE Tail(l)[i] # Tail(l)[j]
    BY <1>1 DEF Distinct
  <2>1. i + 1 \in DOMAIN l /\ j + 1 \in DOMAIN l /\ i + 1 # j + 1  BY <1>1
  <2>. QED  BY <1>1, <2>1 DEF Distinct
<1>. QED  BY <1>1, <1>2, <1>3, <1>4, <1>5

LEMMA Appended ==
  ASSUME NEW X, NEW l \in Seq(X), Distinct(l), NEW x \in X, x \notin ToSet(l)
  PROVE  /\ Append(l, x) \in Seq(X) /\ Distinct(Append(l, x)) /\ ToSet(Append(l, x)) = ToSet(l) \cup {x}
<1>1. <<x>> \in Seq(X) /\ ToSet(<<x>>) = {x}  BY DEF ToSet
<1>2. Distinct(<<x>>)  BY DEF Distinct
<1>3. Append(l, x) = l \o <<x>>  OBVIOUS
<1>4. ToSet(l) \cap ToSet(<<x>>) = {}  BY <1>1
<1>5. l \o <<x>> \in Seq(X) /\ ToSet(l \o <<x>>) = ToSet(l) \cup ToSet(<<x>>) /\ Distinct(l \o <<x>>)
  <2>1. Distinct(l \o <<x>>)  BY <1>1, <1>2, <1>4, Joined
  <2>2. ASSUME NEW k \in Seq(X)
        PROVE  l \o k \in Seq(X) /\ ToSet(l \o k) = ToSet(l) \cup ToSet(k)
    BY Joined
  <2>. QED  BY <1>1, <2>1, <2>2
<1>. QED  BY <1>1, <1>3, <1>5

\* What happens to the sender's books as m is sent, again or for the first time.
SentAgain(m) ==
  /\ m \in Outstanding(m.ch) /\ UNCHANGED <<started, reliableWindows>>
  /\ \A d \in Channels : Outstanding(d)' = Outstanding(d)

SentFirst(m) ==
  /\ m.n = started[m.ch] + 1 /\ started' = [started EXCEPT ![m.ch] = m.n]
  /\ m \notin Outstanding(m.ch) /\ Outstanding(m.ch)' = Outstanding(m.ch) \cup {m}
  /\ \A d \in Channels : d # m.ch => Outstanding(d)' = Outstanding(d)
  /\ reliableWindows' = [reliableWindows EXCEPT ![m.ch][Window(SeqNo(m.n))] = @ + 1]

\* What is sent for the first time is the command after the last one sent.
LEMMA TransmitKeepsLists ==
  ASSUME ChannelTypes, ListsInv, Transmit
  PROVE  \E m \in Commands :
    /\ ~ WindowWrap(m.ch, m.n)
    /\ ListsInv' /\ outgoing' \in Seq(Commands) /\ sentCommands' \in Seq(Commands)
    /\ wire' = Expire(wire) \cup {m} /\ acks' = Expire(acks)
    /\ UNCHANGED <<queued, incoming, held, delivered>>
    /\ SentAgain(m) \/ SentFirst(m)
<1>. DEFINE h == Head(outgoing)
<1>1. outgoing \in Seq(Commands) /\ outgoing # <<>> /\ Distinct(outgoing) /\ sentCommands \in Seq(Commands) /\ Distinct(sentCommands)
  BY DEF Transmit, ChannelTypes, ListsInv
<1>2. /\ h \in Commands /\ h = outgoing[1] /\ h \in ToSet(outgoing)
      /\ Tail(outgoing) \in Seq(Commands) /\ DOMAIN Tail(outgoing) = 1 .. Len(outgoing) - 1
      /\ DOMAIN outgoing = 1 .. Len(outgoing) /\ Len(outgoing) \in Nat \ {0}
      /\ \A i \in 1 .. Len(outgoing) - 1 : Tail(outgoing)[i] = outgoing[i + 1]
      /\ ToSet(Tail(outgoing)) = ToSet(outgoing) \ {h} /\ Distinct(Tail(outgoing))
  BY <1>1, HeadTail
<1>3. PICK m \in Commands : m = h  BY <1>2
<1>4. /\ ~ WindowWrap(m.ch, m.n)
      /\ started' = [started EXCEPT ![m.ch] = IF m.n > @ THEN m.n ELSE @]
      /\ reliableWindows' = IF m.n > started[m.ch]
              THEN [reliableWindows EXCEPT ![m.ch][Window(SeqNo(m.n))] = @ + 1]
              ELSE reliableWindows
      /\ outgoing' = Tail(outgoing) /\ sentCommands' = Append(sentCommands, m)
      /\ wire' = Expire(wire) \cup {m} /\ acks' = Expire(acks)
      /\ UNCHANGED <<queued, incoming, held, delivered>>
  BY <1>3 DEF Transmit, Counts, receiverVars
<1>. HIDE DEF h
<1>5. m.ch \in Channels /\ m.n \in Nat /\ m.n >= 1 /\ m = [ch |-> m.ch, n |-> m.n] /\ started[m.ch] \in Nat
      /\ m \in ToSet(outgoing) /\ m \notin ToSet(sentCommands) /\ m = outgoing[1]
  BY <1>2, <1>3, CommandIs DEF ChannelTypes, ListsInv
<1>6. /\ sentCommands' \in Seq(Commands) /\ Distinct(sentCommands') /\ ToSet(sentCommands') = ToSet(sentCommands) \cup {m}
  BY <1>1, <1>4, <1>5, Appended
<1>7. /\ outgoing' \in Seq(Commands) /\ Distinct(outgoing') /\ ToSet(outgoing') = ToSet(outgoing) \ {m}
  BY <1>2, <1>3, <1>4
<1>8. /\ \A d \in Channels : started'[d] \in Nat /\ started'[d] = IF d = m.ch /\ m.n > started[d] THEN m.n ELSE started[d]
      /\ \A d \in Channels : started[d] <= started'[d] /\ started[d] \in Nat
  <2>1. started \in [Channels -> Nat]  BY DEF ChannelTypes
  <2>2. \A d \in Channels : started'[d] = IF d = m.ch /\ m.n > started[d] THEN m.n ELSE started[d]
    BY <1>4, <1>5, <2>1
  <2>. QED  BY <1>5, <2>1, <2>2
<1>9. m.n > started[m.ch] => m.n = started[m.ch] + 1
  <2>. SUFFICES ASSUME m.n > started[m.ch], m.n # started[m.ch] + 1 PROVE FALSE  OBVIOUS
  <2>. DEFINE k == started[m.ch] + 1
  <2>1. k \in started[m.ch] + 1 .. Total(m.ch, queued[m.ch]) /\ k < m.n
    <3>1. m.n <= Total(m.ch, queued[m.ch])  BY <1>5 DEF ListsInv
    <3>2. Total(m.ch, queued[m.ch]) \in Nat  BY <1>5, TotalIs DEF ChannelTypes
    <3>. QED  BY <1>5, <3>1, <3>2
  <2>2. [ch |-> m.ch, n |-> k] \in ToSet(outgoing)  BY <1>5, <2>1 DEF ListsInv
  <2>3. PICK j \in DOMAIN outgoing : outgoing[j] = [ch |-> m.ch, n |-> k]  BY <2>2 DEF ToSet
  <2>4. outgoing[j].ch = m.ch /\ outgoing[j].n = k /\ j # 1  BY <1>5, <2>1, <2>3
  <2>5. 1 \in DOMAIN outgoing /\ 1 < j  BY <1>2, <2>4
  <2>6. outgoing[1].n < outgoing[j].n
    <3>1. outgoing[j].n > started[m.ch]  BY <1>5, <2>4
    <3>. QED  BY <1>5, <2>4, <2>5, <3>1 DEF ListsInv, NewInOrder
  <2>. QED  BY <1>5, <2>1, <2>4, <2>6
<1>10. ListsInv'
  <2>1. ToSet(outgoing') \cap ToSet(sentCommands') = {}
    BY <1>6, <1>7 DEF ListsInv
  <2>2. \A x \in ToSet(sentCommands') : x.n <= started'[x.ch]
    <3>1. \A x \in ToSet(sentCommands) : x.ch \in Channels /\ x.n \in Nat /\ x.n <= started[x.ch]
      BY <1>1, InLists, CommandIs DEF ListsInv
    <3>2. m.n <= started'[m.ch]  BY <1>5, <1>8
    <3>3. \A x \in ToSet(sentCommands) : x.n <= started'[x.ch]  BY <1>8, <3>1
    <3>. QED  BY <1>6, <3>2, <3>3
  <2>3. \A x \in ToSet(outgoing') : x.n <= Total(x.ch, queued'[x.ch])
    BY <1>4, <1>7 DEF ListsInv
  <2>4. ASSUME NEW d \in Channels
        PROVE  /\ started'[d] <= Total(d, queued'[d])
               /\ \A n \in started'[d] + 1 .. Total(d, queued'[d]) : [ch |-> d, n |-> n] \in ToSet(outgoing')
    <3>1. m.n <= Total(m.ch, queued[m.ch])  BY <1>5 DEF ListsInv
    <3>2. started'[d] <= Total(d, queued'[d])  BY <1>4, <1>8, <3>1 DEF ListsInv
    <3>3. ASSUME NEW n \in started'[d] + 1 .. Total(d, queued'[d]) PROVE [ch |-> d, n |-> n] \in ToSet(outgoing')
      <4>1. Total(d, queued[d]) \in Nat  BY TotalIs DEF ChannelTypes
      <4>2. n \in started[d] + 1 .. Total(d, queued[d]) /\ n \in Nat  BY <1>4, <1>8, <4>1
      <4>3. [ch |-> d, n |-> n] \in ToSet(outgoing)  BY <4>2 DEF ListsInv
      <4>4. [ch |-> d, n |-> n] # m
        <5>. SUFFICES ASSUME [ch |-> d, n |-> n] = m PROVE FALSE  OBVIOUS
        <5>1. m.ch = d /\ m.n = n  OBVIOUS
        <5>. QED  BY <1>5, <1>8, <4>2, <5>1
      <4>. QED  BY <1>7, <4>3, <4>4
    <3>. QED  BY <3>2, <3>3
  <2>5. NewInOrder'
    <3>. SUFFICES ASSUME NEW i \in DOMAIN outgoing', NEW j \in DOMAIN outgoing', i < j,
                         outgoing'[i].ch = outgoing'[j].ch,
                         outgoing'[i].n > started'[outgoing'[i].ch], outgoing'[j].n > started'[outgoing'[j].ch]
                  PROVE  outgoing'[i].n < outgoing'[j].n
      BY DEF NewInOrder
    <3>1. /\ i + 1 \in DOMAIN outgoing /\ j + 1 \in DOMAIN outgoing /\ i + 1 < j + 1
          /\ outgoing'[i] = outgoing[i + 1] /\ outgoing'[j] = outgoing[j + 1]
      BY <1>2, <1>4
    <3>2. /\ outgoing[i + 1].ch \in Channels /\ outgoing[i + 1].n \in Nat
          /\ outgoing[j + 1].ch \in Channels /\ outgoing[j + 1].n \in Nat
      BY <1>1, <3>1, InLists, CommandIs
    <3>3. outgoing[i + 1].n > started[outgoing[i + 1].ch] /\ outgoing[j + 1].n > started[outgoing[j + 1].ch]
      BY <1>8, <3>1, <3>2
    <3>. QED  BY <3>1, <3>3 DEF ListsInv, NewInOrder
  <2>. QED  BY <1>6, <1>7, <2>1, <2>2, <2>3, <2>4, <2>5 DEF ListsInv
<1>11. ToSet(sentCommands') \cup ToSet(outgoing') = ToSet(sentCommands) \cup ToSet(outgoing)
  BY <1>5, <1>6, <1>7
<1>12. CASE m.n <= started[m.ch]
  <2>1. UNCHANGED <<started, reliableWindows>>
    BY <1>4, <1>5, <1>12 DEF ChannelTypes
  <2>2. m \in Outstanding(m.ch)  BY <1>5, <1>12 DEF Outstanding
  <2>3. \A d \in Channels : Outstanding(d)' = Outstanding(d)  BY <1>11, <2>1 DEF Outstanding
  <2>4. SentAgain(m)  BY <2>1, <2>2, <2>3 DEF SentAgain
  <2>. QED  BY <1>4, <1>6, <1>7, <1>10, <2>4
<1>13. CASE m.n > started[m.ch]
  <2>1. /\ m.n = started[m.ch] + 1 /\ started' = [started EXCEPT ![m.ch] = m.n]
        /\ reliableWindows' = [reliableWindows EXCEPT ![m.ch][Window(SeqNo(m.n))] = @ + 1]
    BY <1>4, <1>9, <1>13
  <2>2. m \notin Outstanding(m.ch)  BY <1>5, <1>13 DEF Outstanding
  <2>3. ASSUME NEW x \in ToSet(sentCommands) \cup ToSet(outgoing), x.ch = m.ch
        PROVE  x.n <= started'[m.ch] <=> x.n <= started[m.ch] \/ x = m
    <3>1. x.n \in Nat /\ x = [ch |-> x.ch, n |-> x.n]  BY <1>1, InLists, CommandIs
    <3>2. started'[m.ch] = started[m.ch] + 1  BY <1>5, <1>8, <1>13, <2>1
    <3>. QED  BY <1>5, <2>1, <2>3, <3>1, <3>2
  <2>4. Outstanding(m.ch)' = Outstanding(m.ch) \cup {m}
    <3>1. m \in ToSet(sentCommands) \cup ToSet(outgoing) /\ m.ch = m.ch  BY <1>5
    <3>. QED  BY <1>11, <2>3, <3>1 DEF Outstanding
  <2>5. \A d \in Channels : d # m.ch => started'[d] = started[d]  BY <1>8
  <2>6. \A d \in Channels : d # m.ch => Outstanding(d)' = Outstanding(d)
    BY <1>11, <2>5 DEF Outstanding
  <2>7. SentFirst(m)  BY <2>1, <2>2, <2>4, <2>6 DEF SentFirst
  <2>. QED  BY <1>4, <1>6, <1>7, <1>10, <2>7
<1>. QED  BY <1>5, <1>12, <1>13

LEMMA TimeoutKeepsLists ==
  ASSUME ChannelTypes, ListsInv, NEW S, Timeout(S)
  PROVE  /\ ListsInv' /\ outgoing' \in Seq(Commands) /\ sentCommands' \in Seq(Commands)
         /\ \A d \in Channels : Outstanding(d)' = Outstanding(d)
<1>1. outgoing \in Seq(Commands) /\ Distinct(outgoing) /\ sentCommands \in Seq(Commands) /\ Distinct(sentCommands)
  BY DEF ChannelTypes, ListsInv
<1>. DEFINE again == Only(sentCommands, S)
            rest  == Only(sentCommands, ToSet(sentCommands) \ S)
<1>2. /\ outgoing' = again \o outgoing /\ sentCommands' = rest /\ UNCHANGED <<queued, started>>
      /\ \A m \in ToSet(outgoing) : m.n > started[m.ch]
      /\ S \subseteq ToSet(sentCommands)
  BY DEF Timeout
<1>3. /\ again \in Seq(Commands) /\ Distinct(again) /\ ToSet(again) = ToSet(sentCommands) \cap S
      /\ rest \in Seq(Commands) /\ Distinct(rest) /\ ToSet(rest) = ToSet(sentCommands) \cap (ToSet(sentCommands) \ S)
  BY <1>1, OnlyIs
<1>. HIDE DEF again, rest
<1>4. ToSet(again) \cap ToSet(outgoing) = {}  BY <1>3 DEF ListsInv
<1>5. Distinct(outgoing')  BY <1>1, <1>2, <1>3, <1>4, Joined
<1>6. /\ outgoing' \in Seq(Commands) /\ ToSet(outgoing') = ToSet(again) \cup ToSet(outgoing)
      /\ DOMAIN outgoing' = 1 .. Len(again) + Len(outgoing)
      /\ \A i \in 1 .. Len(again) : outgoing'[i] = again[i]
      /\ \A i \in Len(again) + 1 .. Len(again) + Len(outgoing) :
            outgoing'[i] = outgoing[i - Len(again)] /\ i - Len(again) \in DOMAIN outgoing
  <2>1. again \in Seq(Commands)  BY <1>3
  <2>2. outgoing \in Seq(Commands)  BY <1>1
  <2>3. outgoing' = again \o outgoing  BY <1>2
  <2>. QED  BY ONLY <2>1, <2>2, <2>3, Joined
<1>7. \A m \in ToSet(again) : m.n <= started[m.ch] /\ m.ch \in Channels /\ m.n \in Nat
  BY <1>1, <1>3, InLists, CommandIs DEF ListsInv
<1>8. NewInOrder'
  <2>. SUFFICES ASSUME NEW i \in DOMAIN outgoing', NEW j \in DOMAIN outgoing', i < j,
                       outgoing'[i].ch = outgoing'[j].ch,
                       outgoing'[i].n > started[outgoing'[i].ch], outgoing'[j].n > started[outgoing'[j].ch]
                PROVE  outgoing'[i].n < outgoing'[j].n
    BY <1>2 DEF NewInOrder
  <2>0. Len(again) \in Nat /\ Len(outgoing) \in Nat /\ DOMAIN again = 1 .. Len(again)  BY <1>1, <1>3
  <2>1. i > Len(again)
    <3>. SUFFICES ASSUME ~(i > Len(again)) PROVE FALSE  OBVIOUS
    <3>1. i \in DOMAIN again /\ outgoing'[i] = again[i]  BY <1>6, <2>0
    <3>2. again[i] \in ToSet(again)  BY <3>1 DEF ToSet
    <3>3. started[again[i].ch] \in Nat  BY <1>7, <3>2 DEF ChannelTypes
    <3>. QED  BY <1>7, <3>1, <3>2, <3>3
  <2>2. i \in Len(again) + 1 .. Len(again) + Len(outgoing) /\ j \in Len(again) + 1 .. Len(again) + Len(outgoing)
    BY <1>6, <2>0, <2>1
  <2>3. /\ i - Len(again) \in DOMAIN outgoing /\ j - Len(again) \in DOMAIN outgoing /\ i - Len(again) < j - Len(again)
        /\ outgoing'[i] = outgoing[i - Len(again)] /\ outgoing'[j] = outgoing[j - Len(again)]
    BY <1>6, <2>0, <2>2
  <2>. QED  BY <2>3 DEF ListsInv, NewInOrder
<1>9. ListsInv'
  <2>1. ToSet(outgoing') \cap ToSet(sentCommands') = {}  BY <1>2, <1>3, <1>6 DEF ListsInv
  <2>2. \A m \in ToSet(sentCommands') : m.n <= started'[m.ch]  BY <1>2, <1>3 DEF ListsInv
  <2>3. \A m \in ToSet(outgoing') : m.n <= Total(m.ch, queued'[m.ch])
    <3>1. ASSUME NEW m \in ToSet(again) PROVE m.n <= Total(m.ch, queued[m.ch])
      <4>1. started[m.ch] <= Total(m.ch, queued[m.ch]) /\ Total(m.ch, queued[m.ch]) \in Nat /\ started[m.ch] \in Nat
        BY <1>7, TotalIs DEF ListsInv, ChannelTypes
      <4>. QED  BY <1>7, <4>1
    <3>. QED  BY <1>2, <1>6, <3>1 DEF ListsInv
  <2>4. \A c \in Channels :
          /\ started'[c] <= Total(c, queued'[c])
          /\ \A n \in started'[c] + 1 .. Total(c, queued'[c]) : [ch |-> c, n |-> n] \in ToSet(outgoing')
    BY <1>2, <1>6 DEF ListsInv
  <2>. QED  BY <1>2, <1>3, <1>5, <1>8, <2>1, <2>2, <2>3, <2>4 DEF ListsInv
<1>10. ToSet(sentCommands') \cup ToSet(outgoing') = ToSet(sentCommands) \cup ToSet(outgoing)
  BY <1>2, <1>3, <1>6
<1>11. \A d \in Channels : Outstanding(d)' = Outstanding(d)  BY <1>2, <1>10 DEF Outstanding
<1>. QED  BY <1>2, <1>3, <1>6, <1>9, <1>11

-----------------------------------------------------------------------------
(* What is on its way and what is not acknowledged.                        *)

\* The receiver has command n for good.
Safe(c, n) ==
  \/ n <= Done(c)
  \/ n \in Kept(c) /\ WindowNo(n) <= WindowNo(Done(c)) + Free - 2

\* No copy on its way is of a command the sender has gone too far past, and an
\* acknowledgement is only for what the receiver has for good.
LateInv ==
  /\ \A m \in wire \cup acks : m.n <= started[m.ch] /\ started[m.ch] < m.n + Lap
  /\ \A m \in wire :
       WindowNo(started[m.ch]) <= WindowNo(First(m.ch, Packet(m.ch, m.n))) + Free + 1
  /\ \A m \in acks : Safe(m.ch, m.n)

ForgottenInv ==
  \A c \in Channels : \A n \in 1 .. started[c] :
    [ch |-> c, n |-> n] \in Outstanding(c) \/ Safe(c, n)

\* The sender is at most half a round of the windows past what it waits for and
\* less than that past what the receiver has delivered.
SpreadInv ==
  \A c \in Channels :
    /\ \A m \in Outstanding(c) : WindowNo(started[c]) <= WindowNo(m.n) + Free
    /\ WindowNo(started[c]) <= WindowNo(Done(c)) + Free - 1

LEMMA FarApart ==
  ASSUME NEW m \in Nat, NEW n \in Nat, WindowNo(n) <= WindowNo(m) + Free + 1
  PROVE  n < m + Lap
<1>1. n < m + (Free + 1) * WindowSize + WindowSize
  <2>1. Free + 1 \in Nat /\ WindowNo(m) \in Nat /\ WindowNo(n) \in Nat  BY Sizes, WindowNoIs
  <2>2. WindowNo(n) <= WindowNo(m) + (Free + 1)  BY <2>1, Sizes
  <2>. QED  BY <2>1, <2>2, WithinWindows
<1>2. PICK d \in Nat : Free = d + 2
  <2>1. Free - 2 \in Nat /\ Free = (Free - 2) + 2  BY Sizes
  <2>. QED  BY <2>1
<1>3. PICK b \in Nat \ {0} : b = WindowSize  BY Sizes
<1>4. (Free + 1) * WindowSize + WindowSize <= Lap
  <2>1. Lap = b * (2 * (d + 2))  BY <1>2, <1>3, Sizes
  <2>2. PICK x \in Nat : x = b * d  BY <1>3
  <2>3. b * (2 * (d + 2)) = 2 * x + 4 * b  BY <2>2
  <2>4. (d + 2 + 1) * b + b = x + 4 * b  BY <2>2
  <2>. QED  BY <1>2, <1>3, <2>1, <2>2, <2>3, <2>4
<1>5. PICK x \in Nat : x = (Free + 1) * WindowSize  BY Sizes
<1>6. Lap \in Nat /\ WindowSize \in Nat  BY Sizes
<1>7. n < m + x + WindowSize /\ x + WindowSize <= Lap  BY <1>1, <1>4, <1>5
<1>. QED  BY <1>6, <1>7

\* All the commands that are outstanding have numbers of their own.
LEMMA OutstandingIs ==
  ASSUME ChannelTypes, SpreadInv, NEW c \in Channels, NEW m \in Outstanding(c)
  PROVE  /\ m \in Commands /\ m = [ch |-> c, n |-> m.n] /\ m.n \in Nat \ {0} /\ m.n <= started[c]
         /\ m.ch = c /\ started[c] < m.n + Lap
<1>1. m \in Commands /\ m.ch = c /\ m.n <= started[c]
  BY InLists DEF Outstanding, ChannelTypes
<1>2. m.n \in Nat \ {0} /\ m = [ch |-> c, n |-> m.n] /\ started[c] \in Nat
  BY <1>1, CommandIs, TotalIs DEF ChannelTypes
<1>3. WindowNo(started[c]) <= WindowNo(m.n) + Free  BY DEF SpreadInv
<1>4. WindowNo(started[c]) <= WindowNo(m.n) + Free + 1
  <2>1. WindowNo(started[c]) \in Nat /\ WindowNo(m.n) \in Nat  BY <1>2, WindowNoIs
  <2>. QED  BY <1>3, <2>1, Sizes
<1>5. started[c] < m.n + Lap  BY <1>2, <1>4, FarApart
<1>. QED  BY <1>1, <1>2, <1>5

\* An acknowledgement is taken for that of its own command, or of none.
LEMMA GotAckKeepsLists ==
  ASSUME ChannelTypes, ListsInv, SpreadInv, LateInv, NEW a \in acks, GotAck(a)
  PROVE  /\ ListsInv' /\ outgoing' \in Seq(Commands) /\ sentCommands' \in Seq(Commands)
         /\ \/ /\ a \in Outstanding(a.ch) /\ Outstanding(a.ch)' = Outstanding(a.ch) \ {a}
               /\ \A d \in Channels : d # a.ch => Outstanding(d)' = Outstanding(d)
               /\ LET w == Window(SeqNo(a.n))
                  IN  reliableWindows' = IF reliableWindows[a.ch][w] > 0
                        THEN [reliableWindows EXCEPT ![a.ch][w] = @ - 1] ELSE reliableWindows
            \/ /\ \A d \in Channels : Outstanding(d)' = Outstanding(d)
               /\ UNCHANGED reliableWindows
<1>. DEFINE s == SeqNo(a.n)
            hits == Matches(sentCommands, a.ch, s)
            again == MatchesAgain(a.ch, s)
<1>1. /\ a \in Commands /\ a.ch \in Channels /\ a.n \in Nat /\ a = [ch |-> a.ch, n |-> a.n]
      /\ a.n <= started[a.ch] /\ started[a.ch] < a.n + Lap /\ started[a.ch] \in Nat
  BY CommandIs DEF ChannelTypes, LateInv
<1>2. outgoing \in Seq(Commands) /\ Distinct(outgoing) /\ sentCommands \in Seq(Commands) /\ Distinct(sentCommands)
  BY DEF ChannelTypes, ListsInv
<1>3. /\ sentCommands' = IF hits = {} THEN sentCommands ELSE RemoveAt(sentCommands, Min(hits))
      /\ outgoing' = IF hits # {} \/ again = {} THEN outgoing ELSE RemoveAt(outgoing, Min(again))
      /\ reliableWindows' = IF hits \cup again # {} /\ reliableWindows[a.ch][Window(s)] > 0
              THEN [reliableWindows EXCEPT ![a.ch][Window(s)] = @ - 1] ELSE reliableWindows
      /\ UNCHANGED <<queued, started, wire, acks>>
  BY DEF GotAck
<1>4. ASSUME NEW m \in Outstanding(a.ch), SeqNo(m.n) = s PROVE m = a
  <2>1. /\ m.n \in Nat /\ m.n <= started[a.ch] /\ started[a.ch] < m.n + Lap /\ m = [ch |-> a.ch, n |-> m.n]
    BY <1>1, OutstandingIs
  <2>2. Lap \in Nat  BY Sizes
  <2>3. m.n < a.n + Lap /\ a.n < m.n + Lap  BY <1>1, <2>1, <2>2
  <2>4. m.n = a.n  BY <1>1, <1>4, <2>1, <2>3, SeqNoSame
  <2>. QED  BY <1>1, <2>1, <2>4
<1>5. /\ hits \subseteq DOMAIN sentCommands /\ \A i \in hits : sentCommands[i] = a
      /\ hits # {} <=> a \in ToSet(sentCommands)
  <2>1. ASSUME NEW i \in hits PROVE sentCommands[i] = a
    <3>1. i \in DOMAIN sentCommands /\ sentCommands[i].ch = a.ch /\ SeqNo(sentCommands[i].n) = s
      BY DEF Matches
    <3>2. sentCommands[i] \in Outstanding(a.ch)
      <4>1. sentCommands[i] \in ToSet(sentCommands)  BY <3>1 DEF ToSet
      <4>. QED  BY <3>1, <4>1 DEF Outstanding, ListsInv
    <3>. QED  BY <1>4, <3>1, <3>2
  <2>2. ASSUME NEW i \in DOMAIN sentCommands, sentCommands[i] = a PROVE i \in hits
    BY <2>2 DEF Matches
  <2>3. hits \subseteq DOMAIN sentCommands  BY DEF Matches
  <2>. HIDE DEF hits
  <2>. QED  BY <2>1, <2>2, <2>3 DEF ToSet
<1>6. /\ again \subseteq DOMAIN outgoing /\ \A i \in again : outgoing[i] = a
      /\ again # {} <=> a \in ToSet(outgoing)
  <2>1. ASSUME NEW i \in again PROVE outgoing[i] = a
    <3>1. i \in DOMAIN outgoing /\ outgoing[i].ch = a.ch /\ SeqNo(outgoing[i].n) = s /\ outgoing[i].n <= started[a.ch]
      BY DEF Matches, MatchesAgain
    <3>2. outgoing[i] \in Outstanding(a.ch)
      <4>1. outgoing[i] \in ToSet(outgoing)  BY <3>1 DEF ToSet
      <4>. QED  BY <3>1, <4>1 DEF Outstanding
    <3>. QED  BY <1>4, <3>1, <3>2
  <2>2. ASSUME NEW i \in DOMAIN outgoing, outgoing[i] = a PROVE i \in again
    BY <1>1, <2>2 DEF Matches, MatchesAgain
  <2>3. again \subseteq DOMAIN outgoing  BY DEF Matches, MatchesAgain
  <2>. HIDE DEF again
  <2>. QED  BY <2>1, <2>2, <2>3 DEF ToSet
<1>. HIDE DEF hits, again
<1>7. hits \subseteq Nat /\ again \subseteq Nat
  <2>1. DOMAIN outgoing \subseteq Nat /\ DOMAIN sentCommands \subseteq Nat  BY <1>2
  <2>. QED  BY <1>5, <1>6, <2>1
<1>8. /\ sentCommands' \in Seq(Commands) /\ Distinct(sentCommands') /\ ToSet(sentCommands') = ToSet(sentCommands) \ {a}
  <2>1. CASE hits = {}  BY <1>2, <1>3, <1>5, <2>1
  <2>2. CASE hits # {}
    <3>1. PICK i \in DOMAIN sentCommands : i = Min(hits) /\ sentCommands[i] = a
      BY <1>5, <1>7, <2>2, SmallestNumber
    <3>2. sentCommands' = RemoveAt(sentCommands, i)  BY <1>3, <2>2, <3>1
    <3>. QED  BY <1>2, <3>1, <3>2, RemoveAtIs, RemovedFrom
  <2>. QED  BY <2>1, <2>2
<1>9. /\ outgoing' \in Seq(Commands) /\ Distinct(outgoing') /\ ToSet(outgoing') = ToSet(outgoing) \ {a}
      /\ \/ outgoing' = outgoing
         \/ \E i \in DOMAIN outgoing :
              /\ DOMAIN outgoing' = 1 .. Len(outgoing) - 1
              /\ \A j \in 1 .. Len(outgoing) - 1 : outgoing'[j] = outgoing[IF j < i THEN j ELSE j + 1]
  <2>1. CASE hits # {} \/ again = {}
    <3>1. a \notin ToSet(outgoing)  BY <1>5, <1>6, <2>1 DEF ListsInv
    <3>2. outgoing' = outgoing  BY <1>3, <2>1
    <3>. QED  BY <1>2, <3>1, <3>2
  <2>2. CASE ~(hits # {} \/ again = {})
    <3>1. PICK i \in DOMAIN outgoing : i = Min(again) /\ outgoing[i] = a
      BY <1>6, <1>7, <2>2, SmallestNumber
    <3>2. outgoing' = RemoveAt(outgoing, i)  BY <1>3, <2>2, <3>1
    <3>. QED  BY <1>2, <3>1, <3>2, RemoveAtIs, RemovedFrom
  <2>. QED  BY <2>1, <2>2
<1>10. NewInOrder'
  <2>1. CASE outgoing' = outgoing
    BY <1>3, <2>1 DEF ListsInv, NewInOrder
  <2>2. CASE \E i \in DOMAIN outgoing :
              /\ DOMAIN outgoing' = 1 .. Len(outgoing) - 1
              /\ \A j \in 1 .. Len(outgoing) - 1 : outgoing'[j] = outgoing[IF j < i THEN j ELSE j + 1]
    <3>1. PICK k \in DOMAIN outgoing :
              /\ DOMAIN outgoing' = 1 .. Len(outgoing) - 1
              /\ \A j \in 1 .. Len(outgoing) - 1 : outgoing'[j] = outgoing[IF j < k THEN j ELSE j + 1]
      BY <2>2
    <3>. SUFFICES ASSUME NEW i \in DOMAIN outgoing', NEW j \in DOMAIN outgoing', i < j,
                         outgoing'[i].ch = outgoing'[j].ch,
                         outgoing'[i].n > started[outgoing'[i].ch], outgoing'[j].n > started[outgoing'[j].ch]
                  PROVE  outgoing'[i].n < outgoing'[j].n
      BY <1>3 DEF NewInOrder
    <3>2. k \in 1 .. Len(outgoing) /\ Len(outgoing) \in Nat /\ DOMAIN outgoing = 1 .. Len(outgoing)  BY <1>2
    <3>3. PICK x \in DOMAIN outgoing, y \in DOMAIN outgoing :
            x = (IF i < k THEN i ELSE i + 1) /\ y = (IF j < k THEN j ELSE j + 1)
      <4>1. (IF i < k THEN i ELSE i + 1) \in DOMAIN outgoing  BY <3>1, <3>2
      <4>2. (IF j < k THEN j ELSE j + 1) \in DOMAIN outgoing  BY <3>1, <3>2
      <4>. QED  BY <4>1, <4>2
    <3>4. x < y  BY <3>1, <3>2, <3>3
    <3>5. outgoing'[i] = outgoing[x] /\ outgoing'[j] = outgoing[y]  BY <3>1, <3>3
    <3>. QED  BY <3>4, <3>5 DEF ListsInv, NewInOrder
  <2>. QED  BY <1>9, <2>1, <2>2
<1>11. ListsInv'
  <2>1. ToSet(outgoing') \cap ToSet(sentCommands') = {}  BY <1>8, <1>9 DEF ListsInv
  <2>2. \A m \in ToSet(sentCommands') : m.n <= started'[m.ch]  BY <1>3, <1>8 DEF ListsInv
  <2>3. \A m \in ToSet(outgoing') : m.n <= Total(m.ch, queued'[m.ch])  BY <1>3, <1>9 DEF ListsInv
  <2>4. ASSUME NEW c \in Channels
        PROVE  /\ started'[c] <= Total(c, queued'[c])
               /\ \A n \in started'[c] + 1 .. Total(c, queued'[c]) : [ch |-> c, n |-> n] \in ToSet(outgoing')
    <3>1. started'[c] <= Total(c, queued'[c])  BY <1>3 DEF ListsInv
    <3>2. ASSUME NEW n \in started[c] + 1 .. Total(c, queued[c]) PROVE [ch |-> c, n |-> n] \in ToSet(outgoing')
      <4>1. [ch |-> c, n |-> n] \in ToSet(outgoing)  BY DEF ListsInv
      <4>2. [ch |-> c, n |-> n] # a
        <5>. SUFFICES ASSUME [ch |-> c, n |-> n] = a PROVE FALSE  OBVIOUS
        <5>1. a.ch = c /\ a.n = n  OBVIOUS
        <5>. QED  BY <1>1, <5>1
      <4>. QED  BY <1>9, <4>1, <4>2
    <3>. QED  BY <1>3, <3>1, <3>2
  <2>. QED  BY <1>8, <1>9, <1>10, <2>1, <2>2, <2>3, <2>4 DEF ListsInv
<1>12. ToSet(sentCommands') \cup ToSet(outgoing') = (ToSet(sentCommands) \cup ToSet(outgoing)) \ {a}
  BY <1>8, <1>9
<1>13. \A d \in Channels : Outstanding(d)' = Outstanding(d) \ {a}
  BY <1>3, <1>12 DEF Outstanding
<1>14. \A d \in Channels : d # a.ch => a \notin Outstanding(d)  BY DEF Outstanding
<1>15. CASE a \in Outstanding(a.ch)
  <2>1. hits \cup again # {}  BY <1>5, <1>6, <1>15 DEF Outstanding
  <2>2. /\ Outstanding(a.ch)' = Outstanding(a.ch) \ {a}
        /\ \A d \in Channels : d # a.ch => Outstanding(d)' = Outstanding(d)
    <3>1. Outstanding(a.ch)' = Outstanding(a.ch) \ {a}  BY <1>1, <1>13
    <3>. QED  BY <1>13, <1>14, <3>1
  <2>. QED  BY <1>3, <1>8, <1>9, <1>11, <1>15, <2>1, <2>2
<1>16. CASE a \notin Outstanding(a.ch)
  <2>1. hits = {} /\ again = {}  BY <1>1, <1>5, <1>6, <1>16 DEF Outstanding
  <2>2. \A d \in Channels : Outstanding(d)' = Outstanding(d)
    BY <1>13, <1>14, <1>16
  <2>3. UNCHANGED reliableWindows  BY <1>3, <2>1
  <2>. QED  BY <1>8, <1>9, <1>11, <2>2, <2>3
<1>. QED  BY <1>15, <1>16

-----------------------------------------------------------------------------
(* The windows.                                                            *)

LEMMA ModSum ==
  ASSUME NEW a \in Nat, NEW m \in Nat, NEW b \in Nat \ {0}
  PROVE  ((a % b) + m) % b = (a + m) % b
<1>1. PICK t \in Nat, s \in 0 .. b - 1 : s = a % b /\ a = b * t + s
  <2>1. a \div b \in Nat /\ a % b \in 0 .. b - 1 /\ a = b * (a \div b) + (a % b)  BY DivMod
  <2>. QED  BY <2>1
<1>2. PICK u \in Nat, r \in 0 .. b - 1 : r = (s + m) % b /\ s + m = b * u + r
  <2>1. s + m \in Nat  OBVIOUS
  <2>2. (s + m) \div b \in Nat /\ (s + m) % b \in 0 .. b - 1 /\ s + m = b * ((s + m) \div b) + ((s + m) % b)
    BY <2>1, DivMod
  <2>. QED  BY <2>2
<1>3. PICK v \in Nat, x \in Nat, y \in Nat : v = t + u /\ x = b * t /\ y = b * u  OBVIOUS
<1>4. b * v = x + y  BY <1>3
<1>5. a + m = b * v + r  BY <1>1, <1>2, <1>3, <1>4
<1>6. (b * v + r) % b = r  BY DivUnique
<1>. QED  BY <1>1, <1>2, <1>5, <1>6

LEMMA ModTurn ==
  ASSUME NEW a \in Nat, NEW b \in Nat \ {0}
  PROVE  (a + b) % b = a % b
<1>1. a \div b \in Nat /\ a % b \in 0 .. b - 1 /\ a = b * (a \div b) + (a % b)  BY DivMod
<1>2. PICK t \in Nat, s \in 0 .. b - 1 : t = a \div b /\ s = a % b /\ a = b * t + s  BY <1>1
<1>3. b * (t + 1) = b * t + b  OBVIOUS
<1>4. PICK x \in Nat : x = b * t  OBVIOUS
<1>5. a + b = b * (t + 1) + s  BY <1>2, <1>3, <1>4
<1>6. PICK v \in Nat : v = t + 1  OBVIOUS
<1>7. (b * v + s) % b = s  BY DivUnique
<1>. QED  BY <1>2, <1>5, <1>6, <1>7

LEMMA ModClose ==
  ASSUME NEW a \in Nat, NEW e \in Nat, NEW b \in Nat \ {0}, a <= e, e < a + b, a % b = e % b
  PROVE  a = e
<1>1. a \div b \in Nat /\ a % b \in 0 .. b - 1 /\ a = b * (a \div b) + (a % b)  BY DivMod
<1>2. e \div b \in Nat /\ e % b \in 0 .. b - 1 /\ e = b * (e \div b) + (e % b)  BY DivMod
<1>3. PICK t \in Nat, u \in Nat, s \in 0 .. b - 1 : a = b * t + s /\ e = b * u + s
  BY <1>1, <1>2
<1>4. PICK x \in Nat, y \in Nat : x = b * t /\ y = b * u  OBVIOUS
<1>5. ~(t < u)
  <2>. SUFFICES ASSUME t < u PROVE FALSE  OBVIOUS
  <2>1. b * t + b <= b * u  BY Multiples
  <2>. QED  BY <1>3, <1>4, <2>1
<1>6. ~(u < t)
  <2>. SUFFICES ASSUME u < t PROVE FALSE  OBVIOUS
  <2>1. b * u + b <= b * t  BY Multiples
  <2>. QED  BY <1>3, <1>4, <2>1
<1>7. t = u  BY <1>5, <1>6
<1>. QED  BY <1>3, <1>7

\* Where a command stands in its window, and which window of the round that is.
LEMMA SeqNoPhase ==
  ASSUME NEW n \in Nat
  PROVE  /\ SeqNo(n) % WindowSize = n % WindowSize
         /\ Window(SeqNo(n)) = WindowNo(n) % Windows
<1>1. PICK t \in Nat, s \in Nat, w \in 0 .. Windows - 1 :
        /\ s = SeqNo(n) /\ n = Lap * t + s /\ w = Window(SeqNo(n)) /\ WindowNo(n) = Windows * t + w
  <2>1. SeqNo(n) \in Nat  BY SeqNoTyped, Sizes
  <2>2. PICK t \in Nat : /\ n = Lap * t + SeqNo(n) /\ Window(SeqNo(n)) \in 0 .. Windows - 1
                         /\ WindowNo(n) = Windows * t + Window(SeqNo(n))
    BY SeqNoIs
  <2>. QED  BY <2>1, <2>2
<1>2. Window(SeqNo(n)) = WindowNo(n) % Windows
  <2>1. (Windows * t + w) % Windows = w  BY Sizes, DivUnique
  <2>. QED  BY <1>1, <2>1
<1>3. PICK a \in Nat, r \in 0 .. WindowSize - 1 : r = s % WindowSize /\ s = WindowSize * a + r
  <2>1. s \div WindowSize \in Nat /\ s % WindowSize \in 0 .. WindowSize - 1
        /\ s = WindowSize * (s \div WindowSize) + (s % WindowSize)
    BY Sizes, DivMod
  <2>. QED  BY <2>1
<1>4. PICK z \in Nat : z = Windows * t + a  BY Sizes
<1>5. n = WindowSize * z + r
  <2>1. Lap * t = WindowSize * (Windows * t)  BY Sizes
  <2>2. WindowSize * z = WindowSize * (Windows * t) + WindowSize * a  BY <1>4, Sizes
  <2>3. PICK x \in Nat, y \in Nat : x = WindowSize * (Windows * t) /\ y = WindowSize * a  BY Sizes
  <2>. QED  BY <1>1, <1>3, <2>1, <2>2, <2>3
<1>6. (WindowSize * z + r) % WindowSize = r  BY Sizes, DivUnique
<1>. QED  BY <1>1, <1>2, <1>3, <1>5, <1>6

\* The next command is in the same window, or begins the next.
LEMMA NextWindow ==
  ASSUME NEW n \in Nat
  PROVE  IF (n + 1) % WindowSize # 0 THEN WindowNo(n + 1) = WindowNo(n)
         ELSE WindowNo(n + 1) = WindowNo(n) + 1 /\ n + 1 = WindowSize * WindowNo(n + 1)
<1>1. PICK w \in Nat, r \in 0 .. WindowSize - 1 : n = WindowSize * w + r /\ w = WindowNo(n)
  <2>1. n \div WindowSize \in Nat /\ n % WindowSize \in 0 .. WindowSize - 1
        /\ n = WindowSize * (n \div WindowSize) + (n % WindowSize)
    BY Sizes, DivMod
  <2>. QED  BY <2>1 DEF WindowNo
<1>2. CASE r + 1 < WindowSize
  <2>1. PICK q \in 0 .. WindowSize - 1 : q = r + 1  BY <1>2, Sizes
  <2>2. (WindowSize * w + q) \div WindowSize = w /\ (WindowSize * w + q) % WindowSize = q
    BY Sizes, DivUnique
  <2>3. PICK x \in Nat : x = WindowSize * w  BY Sizes
  <2>4. n + 1 = WindowSize * w + q  BY <1>1, <2>1, <2>3
  <2>. QED  BY <1>1, <2>1, <2>2, <2>4 DEF WindowNo
<1>3. CASE r + 1 = WindowSize
  <2>1. PICK v \in Nat : v = w + 1  OBVIOUS
  <2>2. PICK x \in Nat : x = WindowSize * w  BY Sizes
  <2>3. WindowSize * v = x + WindowSize  BY <2>1, <2>2, Sizes
  <2>4. n + 1 = WindowSize * v + 0  BY <1>1, <1>3, <2>2, <2>3, Sizes
  <2>5. (WindowSize * v + 0) \div WindowSize = v /\ (WindowSize * v + 0) % WindowSize = 0
    <3>1. 0 \in 0 .. WindowSize - 1  BY Sizes
    <3>. QED  BY <3>1, Sizes, DivUnique
  <2>6. WindowSize * v + 0 = WindowSize * v  BY Sizes
  <2>. QED  BY <1>1, <2>1, <2>4, <2>5, <2>6 DEF WindowNo
<1>. QED  BY <1>1, <1>2, <1>3, Sizes

InWindow(S, w) == {x \in S : Window(SeqNo(x.n)) = w}

LEMMA CountedWith ==
  ASSUME NEW S, IsFiniteSet(S), NEW m, m \notin S, NEW w
  PROVE  /\ IsFiniteSet(InWindow(S, w)) /\ Cardinality(InWindow(S, w)) \in Nat
         /\ Cardinality(InWindow(S \cup {m}, w)) =
              IF Window(SeqNo(m.n)) = w THEN Cardinality(InWindow(S, w)) + 1 ELSE Cardinality(InWindow(S, w))
<1>1. IsFiniteSet(InWindow(S, w)) /\ Cardinality(InWindow(S, w)) \in Nat
  <2>1. InWindow(S, w) \subseteq S  BY DEF InWindow
  <2>. QED  BY <2>1, FS_Subset, FS_CardinalityType
<1>2. CASE Window(SeqNo(m.n)) = w
  <2>1. InWindow(S \cup {m}, w) = InWindow(S, w) \cup {m} /\ m \notin InWindow(S, w)  BY <1>2 DEF InWindow
  <2>. QED  BY <1>1, <1>2, <2>1, FS_AddElement
<1>3. CASE Window(SeqNo(m.n)) # w
  <2>1. InWindow(S \cup {m}, w) = InWindow(S, w)  BY <1>3 DEF InWindow
  <2>. QED  BY <1>1, <1>3, <2>1
<1>. QED  BY <1>2, <1>3, <1>1

LEMMA OutstandingFinite ==
  ASSUME ChannelTypes, SpreadInv, NEW c \in Channels
  PROVE  /\ IsFiniteSet(Outstanding(c))
         /\ \A w : IsFiniteSet(InWindow(Outstanding(c), w))
<1>. DEFINE f == [k \in 1 .. started[c] |-> [ch |-> c, n |-> k]]
<1>1. started[c] \in Nat  BY DEF ChannelTypes
<1>2. IsFiniteSet({f[k] : k \in 1 .. started[c]})
  <2>1. IsFiniteSet(1 .. started[c])  BY <1>1, FS_Interval
  <2>2. f \in Surjection(1 .. started[c], {f[k] : k \in 1 .. started[c]})
    BY DEF Surjection
  <2>3. PICK D, R : D = 1 .. started[c] /\ R = {f[k] : k \in 1 .. started[c]}  OBVIOUS
  <2>4. IsFiniteSet(D) /\ f \in Surjection(D, R)  BY <2>1, <2>2, <2>3
  <2>. HIDE DEF f
  <2>5. IsFiniteSet(R)  BY <2>4, FS_Surjection
  <2>. QED  BY <2>3, <2>5
<1>3. Outstanding(c) \subseteq {f[k] : k \in 1 .. started[c]}
  <2>. SUFFICES ASSUME NEW m \in Outstanding(c) PROVE m \in {f[k] : k \in 1 .. started[c]}  OBVIOUS
  <2>1. m = [ch |-> c, n |-> m.n] /\ m.n \in 1 .. started[c]  BY <1>1, OutstandingIs
  <2>2. f[m.n] = m  BY <2>1
  <2>. QED  BY <2>1, <2>2
<1>4. IsFiniteSet(Outstanding(c))  BY <1>2, <1>3, FS_Subset
<1>5. \A w : InWindow(Outstanding(c), w) \subseteq Outstanding(c)  BY DEF InWindow
<1>. QED  BY <1>4, <1>5, FS_Subset

LEMMA RoundIs ==
  ASSUME NEW W \in Nat
  PROVE  W % Windows \in 0 .. Windows - 1
<1>1. \A b \in Nat \ {0} : W % b \in 0 .. b - 1  BY DivMod
<1>. QED  BY <1>1, Sizes

LEMMA DoneIs ==
  ASSUME ChannelTypes, NEW c \in Channels
  PROVE  /\ Len(delivered[c]) \in 0 .. Len(Ends[c]) /\ Len(delivered[c]) \in Nat /\ Done(c) \in Nat
         /\ started[c] \in Nat /\ WindowNo(Done(c)) \in Nat /\ WindowNo(started[c]) \in Nat
<1>1. Len(delivered[c]) \in Nat /\ Len(delivered[c]) <= queued[c] /\ queued[c] \in 0 .. Len(Ends[c])
  <2>1. delivered[c] \in Seq(SUBSET Nat)  BY DEF ChannelTypes
  <2>. QED  BY <2>1 DEF ChannelTypes
<1>2. Len(delivered[c]) \in 0 .. Len(Ends[c])  BY <1>1, TotalIs
<1>3. Done(c) \in Nat  BY <1>2, TotalIs DEF Done
<1>4. started[c] \in Nat  BY DEF ChannelTypes
<1>. QED  BY <1>1, <1>2, <1>3, <1>4, WindowNoIs

\* A window that is not full of outstanding commands holds one that is safe.
LEMMA NotFull ==
  ASSUME ChannelTypes, ForgottenInv, SpreadInv, NEW c \in Channels, NEW W \in Nat, W >= 1,
         WindowSize * W + WindowSize - 1 <= started[c],
         Cardinality(InWindow(Outstanding(c), W % Windows)) < WindowSize
  PROVE  \E n \in WindowSize * W .. WindowSize * W + WindowSize - 1 : Safe(c, n)
<1>. SUFFICES ASSUME \A n \in WindowSize * W .. WindowSize * W + WindowSize - 1 : ~Safe(c, n) PROVE FALSE
  OBVIOUS
<1>1. PICK b \in Nat \ {0}, x \in Nat : b = WindowSize /\ x = WindowSize * W /\ x >= b
  <2>1. PICK v \in Nat : W = v + 1
    <3>1. W - 1 \in Nat /\ W = (W - 1) + 1  OBVIOUS
    <3>. QED  BY <3>1
  <2>2. WindowSize * W = WindowSize * v + WindowSize /\ WindowSize * v \in Nat  BY <2>1, Sizes
  <2>. QED  BY <2>2, Sizes
<1>2. started[c] \in Nat /\ x + b - 1 <= started[c]  BY <1>1 DEF ChannelTypes
<1>. DEFINE f == [k \in x .. x + b - 1 |-> [ch |-> c, n |-> k]]
            T == InWindow(Outstanding(c), W % Windows)
<1>3. ASSUME NEW k \in x .. x + b - 1 PROVE f[k] \in T
  <2>1. k \in 1 .. started[c] /\ k \in Nat  BY <1>1, <1>2
  <2>2. [ch |-> c, n |-> k] \in Outstanding(c)  BY <1>1, <2>1 DEF ForgottenInv
  <2>3. WindowNo(k) = W
    <3>1. PICK r \in 0 .. WindowSize - 1 : r = k - x /\ k = WindowSize * W + r
      <4>1. k - x \in 0 .. WindowSize - 1 /\ k = x + (k - x)  BY <1>1
      <4>. QED  BY <1>1, <4>1
    <3>2. (WindowSize * W + r) \div WindowSize = W  BY Sizes, DivUnique
    <3>. QED  BY <3>1, <3>2 DEF WindowNo
  <2>4. Window(SeqNo(k)) = W % Windows  BY <2>1, <2>3, SeqNoPhase
  <2>. QED  BY <2>2, <2>4 DEF InWindow
<1>4. IsFiniteSet(T)  BY OutstandingFinite
<1>. HIDE DEF T
<1>5. f \in Injection(x .. x + b - 1, T)
  <2>1. f \in [x .. x + b - 1 -> T]  BY <1>3
  <2>2. \A j, k \in x .. x + b - 1 : f[j] = f[k] => j = k
    <3>. SUFFICES ASSUME NEW j \in x .. x + b - 1, NEW k \in x .. x + b - 1, f[j] = f[k] PROVE j = k  OBVIOUS
    <3>1. f[j].n = j /\ f[k].n = k  OBVIOUS
    <3>. QED  BY <3>1
  <2>. HIDE DEF f
  <2>. QED  BY <2>1, <2>2 DEF Injection, IsInjective
<1>6. Cardinality(x .. x + b - 1) = b
  <2>1. x \in Int /\ x + b - 1 \in Int /\ x <= x + b - 1  BY <1>1
  <2>2. Cardinality(x .. x + b - 1) = (x + b - 1) - x + 1  BY <2>1, FS_Interval
  <2>. QED  BY <1>1, <2>2
<1>7. Cardinality(x .. x + b - 1) <= Cardinality(T)  BY <1>4, <1>5, FS_Injection
<1>8. Cardinality(T) \in Nat  BY <1>4, FS_CardinalityType
<1>. QED  BY <1>1, <1>6, <1>7, <1>8 DEF T

\* What holding back the command that begins a window is for.
LEMMA WindowBegun ==
  ASSUME ChannelTypes, ForgottenInv, SpreadInv, WindowsCounted, NEW c \in Channels, NEW n \in Nat,
         n = started[c] + 1, n % WindowSize = 0, ~ WindowWrap(c, n)
  PROVE  /\ WindowNo(n) = WindowNo(started[c]) + 1
         /\ WindowNo(n) <= WindowNo(Done(c)) + Free - 1
         /\ \A m \in Outstanding(c) : WindowNo(n) <= WindowNo(m.n) + Free
<1>. DEFINE w == Window(SeqNo(n))
<1>1. /\ started[c] \in Nat /\ Done(c) \in Nat /\ WindowNo(Done(c)) \in Nat
      /\ WindowNo(started[c]) \in Nat
  BY DoneIs
<1>2. PICK W \in Nat : W = WindowNo(started[c])  BY <1>1
<1>3. WindowNo(n) = W + 1 /\ n = WindowSize * (W + 1)  BY <1>1, <1>2, NextWindow
<1>4. w = (W + 1) % Windows /\ w \in 0 .. Windows - 1 /\ SeqNo(n) % WindowSize = 0
  BY <1>3, SeqNoPhase, SeqNoTyped
<1>5. /\ ~(reliableWindows[c][(w + Windows - 1) % Windows] >= WindowSize)
      /\ \A v \in Barred(c, w) : ~(reliableWindows[c][v] > 0)
  BY <1>1, <1>4 DEF WindowWrap
<1>. HIDE DEF w
<1>6. ASSUME NEW v \in 0 .. Windows - 1
      PROVE  /\ reliableWindows[c][v] = Cardinality(InWindow(Outstanding(c), v)) /\ reliableWindows[c][v] \in Nat
  <2>1. reliableWindows[c] \in [0 .. Windows - 1 -> Nat]  BY DEF ChannelTypes
  <2>. QED  BY <2>1 DEF WindowsCounted, InWindow
<1>7. PICK d \in Nat, N \in Nat \ {0} : Free = d + 2 /\ N = Windows /\ N = 2 * (d + 2)
  <2>1. Free - 2 \in Nat /\ Free = (Free - 2) + 2  BY Sizes
  <2>. QED  BY <2>1, Sizes
<1>8. W + 1 <= WindowNo(Done(c)) + Free - 1
  <2>1. CASE W = 0  BY <1>1, <1>7, <2>1
  <2>2. CASE W # 0
    <3>1. (w + Windows - 1) % Windows = W % Windows
      <4>1. PICK k \in Nat : k = N - 1  BY <1>7
      <4>2. (((W + 1) % N) + k) % N = (W + 1 + k) % N
        <5>1. PICK a \in Nat : a = W + 1  OBVIOUS
        <5>2. ((a % N) + k) % N = (a + k) % N  BY ModSum
        <5>. QED  BY <5>1, <5>2
      <4>3. (W + N) % N = W % N  BY ModTurn
      <4>4. W + 1 + k = W + N  BY <4>1
      <4>5. w + N - 1 = w + k  BY <1>4, <1>7, <4>1
      <4>. QED  BY <1>4, <1>7, <4>2, <4>3, <4>4, <4>5
    <3>2. W % Windows \in 0 .. Windows - 1  BY RoundIs
    <3>3. Cardinality(InWindow(Outstanding(c), W % Windows)) < WindowSize
      BY <1>5, <1>6, <3>1, <3>2, Sizes
    <3>4. WindowSize * W + WindowSize - 1 <= started[c]
      <4>1. WindowSize * (W + 1) = WindowSize * W + WindowSize  BY Sizes
      <4>2. PICK x \in Nat : x = WindowSize * W  BY Sizes
      <4>. QED  BY <1>1, <1>3, <4>1, <4>2, Sizes
    <3>5. PICK k \in WindowSize * W .. WindowSize * W + WindowSize - 1 : Safe(c, k)
      BY <2>2, <3>3, <3>4, NotFull
    <3>6. k \in Nat /\ WindowNo(k) = W
      <4>1. PICK x \in Nat : x = WindowSize * W  BY Sizes
      <4>2. PICK r \in 0 .. WindowSize - 1 : k = WindowSize * W + r
        <5>1. k - x \in 0 .. WindowSize - 1 /\ k = x + (k - x)  BY <4>1, Sizes
        <5>. QED  BY <4>1, <5>1
      <4>3. (WindowSize * W + r) \div WindowSize = W  BY Sizes, DivUnique
      <4>. QED  BY <4>1, <4>2, <4>3 DEF WindowNo
    <3>7. CASE k <= Done(c)
      <4>1. W <= WindowNo(Done(c))  BY <1>1, <3>6, <3>7, WindowNoGrows
      <4>. QED  BY <1>1, <1>7, <4>1
    <3>8. CASE WindowNo(k) <= WindowNo(Done(c)) + Free - 2
      BY <1>1, <1>7, <3>6, <3>8
    <3>. QED  BY <3>5, <3>7, <3>8 DEF Safe
  <2>. QED  BY <2>1, <2>2
<1>9. ASSUME NEW m \in Outstanding(c) PROVE W + 1 <= WindowNo(m.n) + Free
  <2>1. m.n \in Nat /\ WindowNo(m.n) \in Nat /\ W <= WindowNo(m.n) + Free
    <3>1. m.n \in Nat  BY OutstandingIs
    <3>. QED  BY <1>2, <3>1, WindowNoIs DEF SpreadInv
  <2>. SUFFICES ASSUME W = WindowNo(m.n) + Free PROVE FALSE
    BY <1>7, <2>1
  <2>2. PICK u \in Nat, k \in Nat : u = WindowNo(m.n) /\ k = Free - 1 /\ W + 1 + k = u + N
    <3>1. Free - 1 \in Nat /\ W + 1 + (Free - 1) = WindowNo(m.n) + N  BY <1>7, <2>1
    <3>. QED  BY <2>1, <3>1
  <2>3. (w + k) % Windows = u % Windows
    <3>1. (((W + 1) % N) + k) % N = (W + 1 + k) % N
      <4>1. PICK a \in Nat : a = W + 1  OBVIOUS
      <4>2. ((a % N) + k) % N = (a + k) % N  BY ModSum
      <4>. QED  BY <4>1, <4>2
    <3>2. (u + N) % N = u % N  BY ModTurn
    <3>. QED  BY <1>4, <1>7, <2>2, <3>1, <3>2
  <2>4. (w + k) % Windows \in Barred(c, w)
    <3>1. k \in 0 .. Free - 1  BY <1>7, <2>2
    <3>. QED  BY <3>1 DEF Barred
  <2>5. m \in InWindow(Outstanding(c), u % Windows)
    <3>1. Window(SeqNo(m.n)) = u % Windows  BY <2>1, <2>2, SeqNoPhase
    <3>. QED  BY <3>1 DEF InWindow
  <2>6. u % Windows \in 0 .. Windows - 1  BY RoundIs
  <2>7. IsFiniteSet(InWindow(Outstanding(c), u % Windows))  BY OutstandingFinite
  <2>8. Cardinality(InWindow(Outstanding(c), u % Windows)) # 0  BY <2>5, <2>7, FS_EmptySet
  <2>9. ~(reliableWindows[c][u % Windows] > 0)  BY <1>5, <2>3, <2>4
  <2>. QED  BY <1>6, <2>6, <2>8, <2>9
<1>. QED  BY <1>2, <1>3, <1>8, <1>9

-----------------------------------------------------------------------------
(* The sender's steps.                                                     *)

\* A command and the first of its packet.
LEMMA FirstIs ==
  ASSUME NEW m \in Commands
  PROVE  /\ m.ch \in Channels /\ Packet(m.ch, m.n) \in Packets(m.ch) /\ m.n \in Fragments(m.ch, Packet(m.ch, m.n))
         /\ m.n \in Nat \ {0} /\ First(m.ch, Packet(m.ch, m.n)) \in Nat \ {0}
         /\ First(m.ch, Packet(m.ch, m.n)) <= m.n
         /\ WindowNo(m.n) <= WindowNo(First(m.ch, Packet(m.ch, m.n))) + 1
         /\ m.n + Lifetime <= First(m.ch, Packet(m.ch, m.n)) + (Free + 1) * WindowSize + 1
<1>1. m.ch \in Channels /\ m.n \in 1 .. Total(m.ch, Len(Ends[m.ch])) /\ m.n \in Nat  BY CommandIs
<1>2. PICK p : p = Packet(m.ch, m.n) /\ p \in Packets(m.ch) /\ m.n \in Fragments(m.ch, p)
  BY <1>1, PacketThere
<1>3. PICK f \in Nat \ {0}, k \in 1 .. WindowSize + 1 :
        /\ f = First(m.ch, p) /\ k = Count(m.ch, p) /\ Total(m.ch, p) = f + k - 1
        /\ Lifetime + k <= (Free + 1) * WindowSize + 2
  BY <1>1, <1>2, PacketIs
<1>4. f <= m.n /\ m.n <= f + k - 1  BY <1>1, <1>2, <1>3 DEF Fragments
<1>0. PICK n \in Nat, b \in Nat \ {0}, L \in Nat : n = m.n /\ b = WindowSize /\ L = Lifetime
  BY <1>1, Sizes, EnetChannelAssumption
<1>5. m.n <= f + 1 * WindowSize
  <2>1. n <= f + k - 1 /\ k <= b + 1 /\ k \in Nat  BY <1>0, <1>3, <1>4
  <2>2. n <= f + 1 * b  BY <2>1
  <2>. QED  BY <1>0, <2>2
<1>6. WindowNo(m.n) <= WindowNo(f) + 1  BY <1>1, <1>3, <1>5, WindowNoWithin
<1>7. m.n + Lifetime <= f + (Free + 1) * WindowSize + 1
  <2>1. PICK x \in Nat : x = (Free + 1) * WindowSize  BY Sizes
  <2>2. k \in Nat /\ n <= f + k - 1 /\ L + k <= x + 2  BY <1>0, <1>3, <1>4, <2>1
  <2>3. n + L <= f + x + 1  BY <2>2
  <2>. QED  BY <1>0, <2>1, <2>3
<1>. QED  BY <1>1, <1>2, <1>3, <1>4, <1>6, <1>7

\* What is not too late to be received is near enough to be told apart.
LEMMA InTime ==
  ASSUME NEW m \in Commands, NEW s \in Nat, s < m.n + Lifetime
  PROVE  s < m.n + Lap /\ WindowNo(s) <= WindowNo(First(m.ch, Packet(m.ch, m.n))) + Free + 1
<1>1. PICK f \in Nat \ {0} : /\ f = First(m.ch, Packet(m.ch, m.n)) /\ f <= m.n
                            /\ m.n + Lifetime <= f + (Free + 1) * WindowSize + 1
  BY FirstIs
<1>2. m.n \in Nat /\ Lifetime \in Nat  BY FirstIs, EnetChannelAssumption
<1>3. PICK k \in Nat : k = Free + 1  BY Sizes
<1>4. s <= f + k * WindowSize
  <2>1. PICK x \in Nat : x = k * WindowSize  BY Sizes
  <2>2. m.n + Lifetime <= f + x + 1  BY <1>1, <1>3, <2>1
  <2>. QED  BY <1>1, <1>2, <2>1, <2>2
<1>5. WindowNo(s) <= WindowNo(f) + k  BY <1>1, <1>4, WindowNoWithin
<1>6. WindowNo(s) \in Nat /\ WindowNo(f) \in Nat /\ WindowNo(m.n) \in Nat /\ WindowNo(f) <= WindowNo(m.n)
  BY <1>1, <1>2, WindowNoIs, WindowNoGrows
<1>7. WindowNo(s) <= WindowNo(m.n) + Free + 1 /\ WindowNo(s) <= WindowNo(f) + Free + 1
  BY <1>3, <1>5, <1>6, Sizes
<1>8. s < m.n + Lap  BY <1>2, <1>7, FarApart
<1>. QED  BY <1>1, <1>7, <1>8

LEMMA OneChanged ==
  ASSUME NEW A, NEW B, NEW F \in [A -> [B -> Nat]], NEW c \in A, NEW w \in B, NEW x \in Nat,
         NEW G, G = [F EXCEPT ![c][w] = x]
  PROVE  /\ G \in [A -> [B -> Nat]]
         /\ \A d \in A, v \in B : G[d][v] = IF d = c /\ v = w THEN x ELSE F[d][v]
<1>1. [F[c] EXCEPT ![w] = x] \in [B -> Nat]  OBVIOUS
<1>2. G = [F EXCEPT ![c] = [F[c] EXCEPT ![w] = x]]  OBVIOUS
<1>3. G \in [A -> [B -> Nat]]  BY <1>1, <1>2
<1>4. G[c] = [F[c] EXCEPT ![w] = x] /\ \A d \in A : d # c => G[d] = F[d]  BY <1>2
<1>. QED  BY <1>3, <1>4

LEMMA TransmitKeepsBooks ==
  ASSUME ChannelTypes, ListsInv, LateInv, ForgottenInv, SpreadInv, WindowsCounted, Transmit
  PROVE  /\ ListsInv' /\ LateInv' /\ ForgottenInv' /\ SpreadInv' /\ WindowsCounted'
         /\ outgoing' \in Seq(Commands) /\ sentCommands' \in Seq(Commands)
         /\ wire' \subseteq Commands /\ acks' \subseteq Commands
         /\ started' \in [Channels -> Nat] /\ \A c \in Channels : started[c] <= started'[c]
         /\ reliableWindows' \in [Channels -> [0 .. Windows - 1 -> Nat]]
<1>1. PICK m \in Commands :
        /\ ~ WindowWrap(m.ch, m.n)
        /\ ListsInv' /\ outgoing' \in Seq(Commands) /\ sentCommands' \in Seq(Commands)
        /\ wire' = Expire(wire) \cup {m} /\ acks' = Expire(acks)
        /\ UNCHANGED <<queued, incoming, held, delivered>>
        /\ SentAgain(m) \/ SentFirst(m)
  BY TransmitKeepsLists
<1>2. m.ch \in Channels /\ m.n \in Nat \ {0} /\ m = [ch |-> m.ch, n |-> m.n]
  BY CommandIs, FirstIs
<1>3. \A c \in Channels : started[c] \in Nat /\ started \in [Channels -> Nat]  BY DEF ChannelTypes
<1>4. /\ started' \in [Channels -> Nat] /\ \A c \in Channels : started[c] <= started'[c] /\ started'[c] \in Nat
      /\ m.n <= started'[m.ch]
  <2>1. CASE SentAgain(m)
    <3>1. started' = started /\ m.n <= started[m.ch]  BY <2>1 DEF SentAgain, Outstanding
    <3>. QED  BY <1>2, <1>3, <3>1
  <2>2. CASE SentFirst(m)
    <3>1. started' = [started EXCEPT ![m.ch] = m.n] /\ m.n = started[m.ch] + 1  BY <2>2 DEF SentFirst
    <3>2. \A c \in Channels : started'[c] = IF c = m.ch THEN m.n ELSE started[c]  BY <1>2, <1>3, <3>1
    <3>. QED  BY <1>2, <1>3, <3>1, <3>2
  <2>. QED  BY <1>1, <2>1, <2>2
<1>5. /\ Expire(wire) \subseteq wire /\ Expire(acks) \subseteq acks
      /\ \A x \in Expire(wire) \cup Expire(acks) : started'[x.ch] < x.n + Lifetime
  BY DEF Expire
<1>6. \A x \in wire \cup acks : x \in Commands /\ x.ch \in Channels /\ x.n \in Nat /\ x.n <= started[x.ch]
  BY CommandIs DEF ChannelTypes, LateInv
<1>7. ASSUME NEW x \in Expire(wire) \cup Expire(acks)
      PROVE  /\ x.n <= started'[x.ch] /\ started'[x.ch] < x.n + Lap
             /\ WindowNo(started'[x.ch]) <= WindowNo(First(x.ch, Packet(x.ch, x.n))) + Free + 1
  <2>1. x \in Commands /\ x.ch \in Channels /\ x.n \in Nat /\ x.n <= started[x.ch]  BY <1>5, <1>6
  <2>2. started'[x.ch] < x.n + Lifetime  BY <1>5
  <2>. QED  BY <1>3, <1>4, <2>1, <2>2, InTime
<1>8. \A c \in Channels : Done(c)' = Done(c) /\ Kept(c)' = Kept(c)
  BY <1>1 DEF Done, Kept
<1>9. \A c \in Channels, n \in Nat : Safe(c, n)' <=> Safe(c, n)
  BY <1>8 DEF Safe
<1>10. wire' \subseteq Commands /\ acks' \subseteq Commands  BY <1>1, <1>5, <1>6
<1>11. ASSUME started'[m.ch] < m.n + Lap, WindowNo(started'[m.ch]) <= WindowNo(First(m.ch, Packet(m.ch, m.n))) + Free + 1
       PROVE  LateInv'
  <2>1. \A x \in wire' \cup acks' : x.n <= started'[x.ch] /\ started'[x.ch] < x.n + Lap
    BY <1>1, <1>4, <1>7, <1>11
  <2>2. \A x \in wire' : WindowNo(started'[x.ch]) <= WindowNo(First(x.ch, Packet(x.ch, x.n))) + Free + 1
    BY <1>1, <1>7, <1>11
  <2>3. \A x \in acks' : Safe(x.ch, x.n)'
    <3>1. \A x \in acks' : x \in acks /\ x.ch \in Channels /\ x.n \in Nat  BY <1>1, <1>5, <1>6
    <3>2. \A x \in acks' : Safe(x.ch, x.n)  BY <3>1 DEF LateInv
    <3>. QED  BY <1>9, <3>1, <3>2
  <2>. QED  BY <2>1, <2>2, <2>3 DEF LateInv
<1>12. PICK f \in Nat \ {0} : /\ f = First(m.ch, Packet(m.ch, m.n)) /\ f <= m.n /\ WindowNo(m.n) <= WindowNo(f) + 1
  BY FirstIs
<1>13. WindowNo(f) \in Nat /\ WindowNo(m.n) \in Nat /\ WindowNo(f) <= WindowNo(m.n) /\ WindowNo(started[m.ch]) \in Nat
  BY <1>2, <1>3, <1>12, WindowNoIs, WindowNoGrows
<1>14. CASE SentAgain(m)
  <2>1. m \in Outstanding(m.ch) /\ started' = started /\ reliableWindows' = reliableWindows
        /\ \A d \in Channels : Outstanding(d)' = Outstanding(d)
    BY <1>14 DEF SentAgain
  <2>2. LateInv'
    <3>1. WindowNo(started[m.ch]) <= WindowNo(m.n) + Free  BY <1>2, <2>1 DEF SpreadInv
    <3>2. WindowNo(started[m.ch]) <= WindowNo(f) + Free + 1  BY <1>12, <1>13, <3>1, Sizes
    <3>3. started[m.ch] < m.n + Lap  BY <1>2, <2>1, OutstandingIs
    <3>. QED  BY <1>11, <1>12, <2>1, <3>2, <3>3
  <2>3. ForgottenInv'
    <3>. SUFFICES ASSUME NEW c \in Channels, NEW n \in 1 .. started[c] PROVE [ch |-> c, n |-> n] \in Outstanding(c)' \/ Safe(c, n)'
      BY <2>1 DEF ForgottenInv
    <3>1. n \in Nat  BY <1>3
    <3>. QED  BY <1>9, <2>1, <3>1 DEF ForgottenInv
  <2>4. SpreadInv'  BY <1>8, <2>1 DEF SpreadInv
  <2>5. WindowsCounted'  BY <2>1 DEF WindowsCounted
  <2>6. reliableWindows' \in [Channels -> [0 .. Windows - 1 -> Nat]]  BY <2>1 DEF ChannelTypes
  <2>. QED  BY <1>1, <1>4, <1>10, <2>2, <2>3, <2>4, <2>5, <2>6
<1>15. CASE SentFirst(m)
  <2>. DEFINE c == m.ch
              w == Window(SeqNo(m.n))
  <2>1. /\ m.n = started[c] + 1 /\ started' = [started EXCEPT ![c] = m.n]
        /\ m \notin Outstanding(c) /\ Outstanding(c)' = Outstanding(c) \cup {m}
        /\ \A d \in Channels : d # c => Outstanding(d)' = Outstanding(d)
        /\ reliableWindows' = [reliableWindows EXCEPT ![c][w] = @ + 1]
    BY <1>15 DEF SentFirst
  <2>2. /\ started'[c] = m.n /\ \A d \in Channels : d # c => started'[d] = started[d]
        /\ c \in Channels /\ w \in 0 .. Windows - 1
    BY <1>2, <1>3, <2>1, SeqNoTyped
  <2>3. /\ WindowNo(m.n) <= WindowNo(Done(c)) + Free - 1
        /\ \A x \in Outstanding(c) : WindowNo(m.n) <= WindowNo(x.n) + Free
    <3>1. CASE m.n % WindowSize # 0
      <4>0. PICK s \in Nat : s = started[c] /\ m.n = s + 1  BY <1>3, <2>1, <2>2
      <4>1. WindowNo(m.n) = WindowNo(started[c])  BY <3>1, <4>0, NextWindow
      <4>. QED  BY <2>2, <4>1 DEF SpreadInv
    <3>2. CASE m.n % WindowSize = 0
      BY <1>1, <1>2, <2>1, <2>2, <3>2, WindowBegun
    <3>. QED  BY <3>1, <3>2
  <2>4. LateInv'
    <3>1. WindowNo(started'[c]) <= WindowNo(f) + Free + 1  BY <1>12, <1>13, <2>2, Sizes
    <3>2. started'[c] < m.n + Lap  BY <1>2, <2>2, Sizes
    <3>. QED  BY <1>11, <1>12, <3>1, <3>2
  <2>5. SpreadInv'
    <3>. SUFFICES ASSUME NEW d \in Channels
                  PROVE  /\ \A x \in Outstanding(d)' : WindowNo(started'[d]) <= WindowNo(x.n) + Free
                         /\ WindowNo(started'[d]) <= WindowNo(Done(d)) + Free - 1
      BY <1>8 DEF SpreadInv
    <3>1. CASE d = c
      <4>1. WindowNo(m.n) <= WindowNo(m.n) + Free  BY <1>13, Sizes
      <4>. QED  BY <2>1, <2>2, <2>3, <3>1, <4>1
    <3>2. CASE d # c  BY <2>1, <2>2, <3>2 DEF SpreadInv
    <3>. QED  BY <3>1, <3>2
  <2>6. ForgottenInv'
    <3>. SUFFICES ASSUME NEW d \in Channels, NEW n \in 1 .. started'[d] PROVE [ch |-> d, n |-> n] \in Outstanding(d)' \/ Safe(d, n)'
      BY DEF ForgottenInv
    <3>1. n \in Nat  BY <1>4
    <3>2. CASE n <= started[d]
      <4>1. n \in 1 .. started[d]  BY <1>3, <3>2
      <4>2. [ch |-> d, n |-> n] \in Outstanding(d) \/ Safe(d, n)  BY <4>1 DEF ForgottenInv
      <4>3. Outstanding(d) \subseteq Outstanding(d)'  BY <2>1
      <4>. QED  BY <1>9, <3>1, <4>2, <4>3
    <3>3. CASE ~(n <= started[d])
      <4>1. d = c /\ n = m.n  BY <1>3, <1>4, <2>1, <2>2, <3>1, <3>3
      <4>. QED  BY <1>2, <2>1, <4>1
    <3>. QED  BY <3>2, <3>3
  <2>7. \A d \in Channels : reliableWindows[d] \in [0 .. Windows - 1 -> Nat]
    BY DEF ChannelTypes
  <2>8. /\ \A d \in Channels, v \in 0 .. Windows - 1 :
             reliableWindows'[d][v] = IF d = c /\ v = w THEN reliableWindows[d][v] + 1 ELSE reliableWindows[d][v]
        /\ reliableWindows' \in [Channels -> [0 .. Windows - 1 -> Nat]]
    <3>1. reliableWindows \in [Channels -> [0 .. Windows - 1 -> Nat]]  BY DEF ChannelTypes
    <3>. HIDE DEF w, c
    <3>2. reliableWindows[c] \in [0 .. Windows - 1 -> Nat] /\ w \in 0 .. Windows - 1  BY <2>2, <2>7
    <3>3. reliableWindows[c][w] \in Nat  BY <3>2
    <3>4. PICK x \in Nat : x = reliableWindows[c][w] + 1  BY <3>3
    <3>5. reliableWindows' = [reliableWindows EXCEPT ![c][w] = x]  BY <2>1, <3>4
    <3>6. /\ reliableWindows' \in [Channels -> [0 .. Windows - 1 -> Nat]]
          /\ \A d \in Channels, v \in 0 .. Windows - 1 :
               reliableWindows'[d][v] = IF d = c /\ v = w THEN x ELSE reliableWindows[d][v]
      BY <2>2, <3>1, <3>5, OneChanged
    <3>. QED  BY <3>4, <3>6
  <2>9. WindowsCounted'
    <3>. SUFFICES ASSUME NEW d \in Channels, NEW v \in 0 .. Windows - 1
                  PROVE  reliableWindows'[d][v] = Cardinality(InWindow(Outstanding(d)', v))
      BY DEF WindowsCounted, InWindow
    <3>1. reliableWindows[d][v] = Cardinality(InWindow(Outstanding(d), v))  BY DEF WindowsCounted, InWindow
    <3>2. CASE d = c
      <4>1. IsFiniteSet(Outstanding(c))  BY <2>2, OutstandingFinite
      <4>2. Cardinality(InWindow(Outstanding(c) \cup {m}, v)) =
              IF w = v THEN Cardinality(InWindow(Outstanding(c), v)) + 1 ELSE Cardinality(InWindow(Outstanding(c), v))
        BY <2>1, <4>1, CountedWith
      <4>. QED  BY <2>1, <2>8, <3>1, <3>2, <4>2
    <3>3. CASE d # c  BY <2>1, <2>8, <3>1, <3>3
    <3>. QED  BY <3>2, <3>3
  <2>. QED  BY <1>1, <1>4, <1>10, <2>4, <2>5, <2>6, <2>8, <2>9
<1>. QED  BY <1>1, <1>14, <1>15

SenderInv == ListsInv /\ LateInv /\ ForgottenInv /\ SpreadInv /\ WindowsCounted

\* Neither the numbers nor what is outstanding changes.
LEMMA SameBooks ==
  ASSUME ChannelTypes, LateInv, ForgottenInv, SpreadInv, WindowsCounted,
         UNCHANGED <<started, reliableWindows, wire, acks, incoming, held, delivered>>,
         \A d \in Channels : Outstanding(d)' = Outstanding(d)
  PROVE  LateInv' /\ ForgottenInv' /\ SpreadInv' /\ WindowsCounted'
<1>1. \A c \in Channels : Done(c)' = Done(c) /\ Kept(c)' = Kept(c)  BY DEF Done, Kept
<1>2. \A c \in Channels, n \in Nat : Safe(c, n)' <=> Safe(c, n)  BY <1>1 DEF Safe
<1>3. LateInv'
  <2>1. \A a \in acks : a.ch \in Channels /\ a.n \in Nat  BY CommandIs DEF ChannelTypes
  <2>2. \A a \in acks' : Safe(a.ch, a.n)'  BY <1>2, <2>1 DEF LateInv
  <2>. QED  BY <2>2 DEF LateInv
<1>4. ForgottenInv'
  <2>1. \A c \in Channels : \A n \in 1 .. started[c] : n \in Nat  BY DEF ChannelTypes
  <2>. QED  BY <1>2, <2>1 DEF ForgottenInv
<1>5. SpreadInv'  BY <1>1 DEF SpreadInv
<1>6. WindowsCounted'  BY DEF WindowsCounted
<1>. QED  BY <1>3, <1>4, <1>5, <1>6

LEMMA SendKeepsBooks ==
  ASSUME ChannelTypes, SenderInv, NEW c \in Channels, Send(c)
  PROVE  ChannelTypes' /\ SenderInv' /\ UNCHANGED <<started, incoming, held, delivered>>
         /\ \A d \in Channels : queued[d] <= queued'[d]
<1>1. /\ ListsInv' /\ outgoing' \in Seq(Commands)
      /\ queued' \in [Channels -> Nat]
      /\ \A d \in Channels : queued'[d] \in 0 .. Len(Ends[d]) /\ queued[d] <= queued'[d]
      /\ \A d \in Channels : Outstanding(d)' = Outstanding(d)
  BY SendKeepsLists DEF SenderInv
<1>2. UNCHANGED <<sentCommands, started, reliableWindows, wire, acks, incoming, held, delivered>>
  BY DEF Send, receiverVars
<1>3. LateInv' /\ ForgottenInv' /\ SpreadInv' /\ WindowsCounted'
  BY <1>1, <1>2, SameBooks DEF SenderInv
<1>4. \A d \in Channels : Len(delivered'[d]) <= queued'[d]
  <2>1. \A d \in Channels : Len(delivered[d]) \in Nat /\ Len(delivered[d]) <= queued[d] /\ queued[d] \in Nat
    BY DoneIs DEF ChannelTypes
  <2>2. \A d \in Channels : queued'[d] \in Nat  BY <1>1
  <2>. QED  BY <1>1, <1>2, <2>1, <2>2
<1>5. ChannelTypes'  BY <1>1, <1>2, <1>4 DEF ChannelTypes
<1>. QED  BY <1>1, <1>2, <1>3, <1>5 DEF SenderInv

LEMMA TimeoutKeepsBooks ==
  ASSUME ChannelTypes, SenderInv, NEW S, Timeout(S)
  PROVE  ChannelTypes' /\ SenderInv' /\ UNCHANGED <<queued, started, incoming, held, delivered>>
<1>1. /\ ListsInv' /\ outgoing' \in Seq(Commands) /\ sentCommands' \in Seq(Commands)
      /\ \A d \in Channels : Outstanding(d)' = Outstanding(d)
  BY TimeoutKeepsLists DEF SenderInv
<1>2. UNCHANGED <<queued, started, reliableWindows, wire, acks, incoming, held, delivered>>
  BY DEF Timeout, receiverVars
<1>3. LateInv' /\ ForgottenInv' /\ SpreadInv' /\ WindowsCounted'
  BY <1>1, <1>2, SameBooks DEF SenderInv
<1>4. ChannelTypes'  BY <1>1, <1>2 DEF ChannelTypes
<1>. QED  BY <1>1, <1>2, <1>3, <1>4 DEF SenderInv

LEMMA TransmitKeepsSender ==
  ASSUME ChannelTypes, SenderInv, Transmit
  PROVE  ChannelTypes' /\ SenderInv' /\ UNCHANGED <<queued, incoming, held, delivered>>
         /\ \A d \in Channels : started[d] <= started'[d]
<1>1. /\ SenderInv' /\ outgoing' \in Seq(Commands) /\ sentCommands' \in Seq(Commands)
      /\ wire' \subseteq Commands /\ acks' \subseteq Commands
      /\ started' \in [Channels -> Nat] /\ \A c \in Channels : started[c] <= started'[c]
      /\ reliableWindows' \in [Channels -> [0 .. Windows - 1 -> Nat]]
  BY TransmitKeepsBooks DEF SenderInv
<1>2. UNCHANGED <<queued, incoming, held, delivered>>  BY DEF Transmit, receiverVars
<1>3. ChannelTypes'  BY <1>1, <1>2 DEF ChannelTypes
<1>. QED  BY <1>1, <1>2, <1>3

LEMMA GotAckKeepsBooks ==
  ASSUME ChannelTypes, SenderInv, NEW a \in acks, GotAck(a)
  PROVE  ChannelTypes' /\ SenderInv' /\ UNCHANGED <<queued, started, incoming, held, delivered>>
<1>. DEFINE w == Window(SeqNo(a.n))
<1>1. /\ ListsInv' /\ outgoing' \in Seq(Commands) /\ sentCommands' \in Seq(Commands)
      /\ \/ /\ a \in Outstanding(a.ch) /\ Outstanding(a.ch)' = Outstanding(a.ch) \ {a}
            /\ \A d \in Channels : d # a.ch => Outstanding(d)' = Outstanding(d)
            /\ reliableWindows' = IF reliableWindows[a.ch][w] > 0
                  THEN [reliableWindows EXCEPT ![a.ch][w] = @ - 1] ELSE reliableWindows
         \/ /\ \A d \in Channels : Outstanding(d)' = Outstanding(d)
            /\ UNCHANGED reliableWindows
  BY GotAckKeepsLists DEF SenderInv
<1>2. UNCHANGED <<queued, started, wire, acks, incoming, held, delivered>>
  BY DEF GotAck, receiverVars
<1>3. a \in Commands /\ a.ch \in Channels /\ a.n \in Nat /\ a = [ch |-> a.ch, n |-> a.n] /\ w \in 0 .. Windows - 1
      /\ Safe(a.ch, a.n)
  BY CommandIs, SeqNoTyped DEF ChannelTypes, SenderInv, LateInv
<1>. HIDE DEF w
<1>4. \A d \in Channels : reliableWindows[d] \in [0 .. Windows - 1 -> Nat]  BY DEF ChannelTypes
<1>5. CASE \A d \in Channels : Outstanding(d)' = Outstanding(d) /\ UNCHANGED reliableWindows
  <2>0. UNCHANGED reliableWindows  BY <1>3, <1>5
  <2>1. LateInv' /\ ForgottenInv' /\ SpreadInv' /\ WindowsCounted'
    BY <1>2, <1>5, <2>0, SameBooks DEF SenderInv
  <2>2. ChannelTypes'  BY <1>1, <1>2, <2>0 DEF ChannelTypes
  <2>. QED  BY <1>1, <1>2, <2>1, <2>2 DEF SenderInv
<1>6. CASE /\ a \in Outstanding(a.ch) /\ Outstanding(a.ch)' = Outstanding(a.ch) \ {a}
           /\ \A d \in Channels : d # a.ch => Outstanding(d)' = Outstanding(d)
           /\ reliableWindows' = IF reliableWindows[a.ch][w] > 0
                THEN [reliableWindows EXCEPT ![a.ch][w] = @ - 1] ELSE reliableWindows
  <2>. DEFINE c == a.ch
  <2>1. \A d \in Channels : Outstanding(d)' \subseteq Outstanding(d)  BY <1>6
  <2>2. \A d \in Channels : Done(d)' = Done(d) /\ Kept(d)' = Kept(d)  BY <1>2 DEF Done, Kept
  <2>3. \A d \in Channels, n \in Nat : Safe(d, n)' <=> Safe(d, n)  BY <2>2 DEF Safe
  <2>4. LateInv'
    <3>1. \A x \in acks : x.ch \in Channels /\ x.n \in Nat  BY CommandIs DEF ChannelTypes
    <3>2. \A x \in acks' : Safe(x.ch, x.n)'  BY <1>2, <2>3, <3>1 DEF LateInv, SenderInv
    <3>. QED  BY <1>2, <3>2 DEF LateInv, SenderInv
  <2>5. SpreadInv'  BY <1>2, <2>1, <2>2 DEF SpreadInv, SenderInv
  <2>6. ForgottenInv'
    <3>. SUFFICES ASSUME NEW d \in Channels, NEW n \in 1 .. started[d]
                  PROVE  [ch |-> d, n |-> n] \in Outstanding(d)' \/ Safe(d, n)'
      BY <1>2 DEF ForgottenInv
    <3>1. n \in Nat  BY DEF ChannelTypes
    <3>2. CASE [ch |-> d, n |-> n] = a
      <4>1. a.ch = d /\ a.n = n  BY <3>2
      <4>. QED  BY <1>3, <2>3, <3>1, <4>1
    <3>3. CASE [ch |-> d, n |-> n] # a
      <4>1. [ch |-> d, n |-> n] \in Outstanding(d) => [ch |-> d, n |-> n] \in Outstanding(d)'
        BY <1>6, <3>3
      <4>. QED  BY <2>3, <3>1, <4>1 DEF ForgottenInv, SenderInv
    <3>. QED  BY <3>2, <3>3
  <2>7. IsFiniteSet(Outstanding(c)')
    <3>1. IsFiniteSet(Outstanding(c))  BY <1>3, OutstandingFinite DEF SenderInv
    <3>. QED  BY <1>3, <2>1, <3>1, FS_Subset
  <2>8. ASSUME NEW v \in 0 .. Windows - 1
        PROVE  /\ Cardinality(InWindow(Outstanding(c)', v)) \in Nat
               /\ reliableWindows[c][v] =
                    IF w = v THEN Cardinality(InWindow(Outstanding(c)', v)) + 1
                    ELSE Cardinality(InWindow(Outstanding(c)', v))
    <3>1. Outstanding(c) = Outstanding(c)' \cup {a} /\ a \notin Outstanding(c)'  BY <1>6
    <3>2. PICK T : T = Outstanding(c)'  OBVIOUS
    <3>3. /\ Cardinality(InWindow(T, v)) \in Nat
          /\ Cardinality(InWindow(T \cup {a}, v)) =
                    IF w = v THEN Cardinality(InWindow(T, v)) + 1 ELSE Cardinality(InWindow(T, v))
      BY <2>7, <3>1, <3>2, CountedWith DEF w
    <3>4. reliableWindows[c][v] = Cardinality(InWindow(Outstanding(c), v))
      BY <1>3 DEF WindowsCounted, InWindow, SenderInv
    <3>. QED  BY <3>1, <3>2, <3>3, <3>4
  <2>9. reliableWindows[c][w] > 0 /\ reliableWindows[c][w] - 1 \in Nat  BY <1>3, <2>8
  <2>10. /\ reliableWindows' \in [Channels -> [0 .. Windows - 1 -> Nat]]
         /\ \A d \in Channels, v \in 0 .. Windows - 1 :
              reliableWindows'[d][v] = IF d = c /\ v = w THEN reliableWindows[c][w] - 1 ELSE reliableWindows[d][v]
    <3>1. PICK x \in Nat : x = reliableWindows[c][w] - 1  BY <2>9
    <3>2. reliableWindows' = [reliableWindows EXCEPT ![c][w] = x]  BY <1>6, <2>9, <3>1
    <3>3. reliableWindows \in [Channels -> [0 .. Windows - 1 -> Nat]]  BY DEF ChannelTypes
    <3>4. /\ reliableWindows' \in [Channels -> [0 .. Windows - 1 -> Nat]]
          /\ \A d \in Channels, v \in 0 .. Windows - 1 :
               reliableWindows'[d][v] = IF d = c /\ v = w THEN x ELSE reliableWindows[d][v]
      <4>1. c \in Channels /\ w \in 0 .. Windows - 1  BY <1>3
      <4>. HIDE DEF c
      <4>. QED  BY <3>2, <3>3, <4>1, OneChanged
    <3>. QED  BY <3>1, <3>4
  <2>11. WindowsCounted'
    <3>. SUFFICES ASSUME NEW d \in Channels, NEW v \in 0 .. Windows - 1
                  PROVE  reliableWindows'[d][v] = Cardinality(InWindow(Outstanding(d)', v))
      BY DEF WindowsCounted, InWindow
    <3>1. CASE d = c
      <4>1. reliableWindows'[c][v] = IF v = w THEN reliableWindows[c][w] - 1 ELSE reliableWindows[c][v]
        BY <1>3, <2>10
      <4>2. PICK x \in Nat : x = Cardinality(InWindow(Outstanding(c)', v))  BY <2>8
      <4>3. reliableWindows[c][v] = IF w = v THEN x + 1 ELSE x  BY <2>8, <4>2
      <4>4. reliableWindows'[c][v] = x  BY <4>1, <4>3
      <4>. QED  BY <3>1, <4>2, <4>4
    <3>2. CASE d # c
      <4>1. reliableWindows[d][v] = Cardinality(InWindow(Outstanding(d), v))
        BY DEF WindowsCounted, InWindow, SenderInv
      <4>. QED  BY <1>6, <2>10, <3>2, <4>1
    <3>. QED  BY <3>1, <3>2
  <2>12. ChannelTypes'  BY <1>1, <1>2, <2>10 DEF ChannelTypes
  <2>. QED  BY <1>1, <1>2, <2>4, <2>5, <2>6, <2>11, <2>12 DEF SenderInv
<1>. QED  BY <1>1, <1>5, <1>6

-----------------------------------------------------------------------------
(* The receiver's list.                                                    *)

\* List l holds entries of the packets P, in their order; d packets were
\* delivered, and s is the last command that was sent.
EntryOf(c, e, p, s) ==
  /\ e.start = SeqNo(First(c, p)) /\ e.count = Count(c, p)
  /\ e.have # {} /\ e.have \subseteq Fragments(c, p) /\ e.have \subseteq 1 .. s

Waits(c, l, P, d, s) ==
  /\ P \in [DOMAIN l -> d + 1 .. Len(Ends[c])]
  /\ \A i \in DOMAIN l :
       EntryOf(c, l[i], P[i], s) /\ WindowNo(First(c, P[i])) <= WindowNo(Total(c, d)) + Free - 2
  /\ \A i, j \in DOMAIN l : i < j => P[i] < P[j]

LEMMA FirstOrder ==
  ASSUME NEW c \in Channels, NEW p \in Packets(c), NEW r \in Packets(c)
  PROVE  p < r <=> First(c, p) < First(c, r)
<1>1. /\ p - 1 \in 0 .. Len(Ends[c]) /\ r - 1 \in 0 .. Len(Ends[c]) /\ p \in Nat /\ r \in Nat
  BY PacketIs DEF Packets
<1>2. Total(c, p - 1) \in Nat /\ Total(c, r - 1) \in Nat  BY <1>1, TotalIs
<1>3. p < r => Total(c, p - 1) < Total(c, r - 1)
  <2>1. p < r => p - 1 < r - 1  BY <1>1
  <2>. QED  BY <1>1, <2>1, TotalIs
<1>4. r < p => Total(c, r - 1) < Total(c, p - 1)
  <2>1. r < p => r - 1 < p - 1  BY <1>1
  <2>. QED  BY <1>1, <2>1, TotalIs
<1>5. r = p => Total(c, r - 1) = Total(c, p - 1)  OBVIOUS
<1>. QED  BY <1>1, <1>2, <1>3, <1>4, <1>5 DEF First

\* What is kept is less than a lap past what was delivered.
LEMMA Near ==
  ASSUME NEW D \in Nat, NEW n \in Nat, WindowNo(n) <= WindowNo(D) + Free - 1
  PROVE  n < D + Lap
<1>1. WindowNo(n) \in Nat /\ WindowNo(D) \in Nat  BY WindowNoIs
<1>2. WindowNo(n) <= WindowNo(D) + Free + 1  BY <1>1, Sizes
<1>. QED  BY <1>2, FarApart

LEMMA WaitsFirst ==
  ASSUME NEW c \in Channels, NEW d \in 0 .. Len(Ends[c]), NEW p \in d + 1 .. Len(Ends[c])
  PROVE  /\ p \in Packets(c) /\ First(c, p) \in Nat \ {0} /\ Total(c, d) \in Nat
         /\ Total(c, d) < First(c, p) /\ d \in Nat
<1>1. Len(Ends[c]) \in Nat  BY TotalIs
<1>2. p \in Packets(c) /\ p - 1 \in 0 .. Len(Ends[c]) /\ d \in Nat /\ d <= p - 1 /\ p \in Nat
  BY <1>1 DEF Packets
<1>3. Total(c, d) \in Nat /\ Total(c, p - 1) \in Nat  BY <1>2, TotalIs
<1>4. Total(c, d) <= Total(c, p - 1)
  <2>1. CASE d = p - 1  BY <1>3, <2>1
  <2>2. CASE d < p - 1
    <3>1. Total(c, d) < Total(c, p - 1)  BY <1>2, <2>2, TotalIs
    <3>. QED  BY <1>3, <3>1
  <2>. QED  BY <1>2, <2>1, <2>2
<1>. QED  BY <1>2, <1>3, <1>4 DEF First

\* Where the search for a packet's place stops: at its own entry or at the last
\* of an earlier one.
LEMMA PlaceIs ==
  ASSUME NEW c \in Channels, NEW d \in 0 .. Len(Ends[c]), NEW l \in Seq(EntryType), NEW P, NEW s,
         Waits(c, l, P, d, s), NEW p \in d + 1 .. Len(Ends[c]),
         WindowNo(First(c, p)) <= WindowNo(Total(c, d)) + Free - 2,
         NEW i, i = Place(l, SeqNo(First(c, p)), SeqNo(Total(c, d)))
  PROVE  /\ i \in 0 .. Len(l)
         /\ \A j \in DOMAIN l : j <= i => P[j] <= p
         /\ \A j \in DOMAIN l : j > i => P[j] > p
         /\ i > 0 => (l[i].start = SeqNo(First(c, p)) <=> P[i] = p)
<1>. DEFINE D == Total(c, d)
            inc == SeqNo(D)
            x == SeqNo(First(c, p))
            Passed(e) == \/ x >= inc /\ e.start < inc
                         \/ ~(x < inc /\ e.start >= inc) /\ e.start > x
            S == {0} \cup {j \in DOMAIN l : ~Passed(l[j])}
<1>1. p \in Packets(c) /\ First(c, p) \in Nat /\ D \in Nat /\ D < First(c, p) /\ First(c, p) < D + Lap /\ p \in Nat
      /\ d \in Nat
  <2>1. p \in Packets(c) /\ First(c, p) \in Nat /\ D \in Nat /\ D < First(c, p) /\ p \in Nat /\ d \in Nat
    BY WaitsFirst DEF Packets
  <2>2. WindowNo(First(c, p)) \in Nat /\ WindowNo(D) \in Nat  BY <2>1, WindowNoIs
  <2>3. WindowNo(First(c, p)) <= WindowNo(D) + Free - 1  BY <2>2, Sizes
  <2>. QED  BY <2>1, <2>3, Near
<1>2. ASSUME NEW j \in DOMAIN l
      PROVE  /\ P[j] \in Packets(c) /\ P[j] \in Nat /\ First(c, P[j]) \in Nat /\ D < First(c, P[j])
             /\ First(c, P[j]) < D + Lap /\ l[j].start = SeqNo(First(c, P[j]))
  <2>1. P[j] \in d + 1 .. Len(Ends[c]) /\ l[j].start = SeqNo(First(c, P[j]))
        /\ WindowNo(First(c, P[j])) <= WindowNo(D) + Free - 2
    BY DEF Waits, EntryOf
  <2>2. P[j] \in Packets(c) /\ First(c, P[j]) \in Nat /\ D < First(c, P[j]) /\ P[j] \in Nat
    BY <2>1, WaitsFirst DEF Packets
  <2>3. WindowNo(First(c, P[j])) \in Nat /\ WindowNo(D) \in Nat  BY <1>1, <2>2, WindowNoIs
  <2>4. WindowNo(First(c, P[j])) <= WindowNo(D) + Free - 1  BY <2>1, <2>3, Sizes
  <2>. QED  BY <1>1, <2>1, <2>2, <2>4, Near
<1>3. ASSUME NEW j \in DOMAIN l PROVE Passed(l[j]) <=> p < P[j]
  <2>1. Passed(l[j]) <=> First(c, p) < First(c, P[j])
    <3>1. PICK y \in Nat, z \in Nat : y = First(c, p) /\ z = First(c, P[j])  BY <1>1, <1>2
    <3>2. y < z <=> \/ SeqNo(y) >= inc /\ SeqNo(z) < inc
                    \/ ~(SeqNo(y) < inc /\ SeqNo(z) >= inc) /\ SeqNo(z) > SeqNo(y)
      BY <1>1, <1>2, <3>1, SeqNoOrder
    <3>. QED  BY <1>2, <3>1, <3>2
  <2>. QED  BY <1>1, <1>2, <2>1, FirstOrder
<1>4. i = Max(S)  BY DEF Place
<1>5. DOMAIN l = 1 .. Len(l) /\ Len(l) \in Nat  OBVIOUS
<1>. HIDE DEF Passed
<1>6. S \subseteq 0 .. Len(l) /\ S # {}  BY <1>5
<1>7. i \in S /\ \A t \in S : t <= i
  <2>. HIDE DEF S
  <2>. QED  BY <1>4, <1>5, <1>6, GreatestNumber
<1>8. i \in 0 .. Len(l)  BY <1>6, <1>7
<1>9. \A j \in DOMAIN l : j > i => P[j] > p
  <2>. SUFFICES ASSUME NEW j \in DOMAIN l, j > i PROVE P[j] > p  OBVIOUS
  <2>1. j \notin S  BY <1>5, <1>7, <1>8
  <2>2. Passed(l[j])  BY <2>1
  <2>. QED  BY <1>1, <1>2, <1>3, <2>2
<1>10. i > 0 => P[i] <= p /\ i \in DOMAIN l
  <2>. SUFFICES ASSUME i > 0 PROVE P[i] <= p /\ i \in DOMAIN l  OBVIOUS
  <2>1. i \in DOMAIN l /\ ~Passed(l[i])  BY <1>5, <1>7, <1>8
  <2>. QED  BY <1>1, <1>2, <1>3, <2>1
<1>11. \A j \in DOMAIN l : j <= i => P[j] <= p
  <2>. SUFFICES ASSUME NEW j \in DOMAIN l, j <= i PROVE P[j] <= p  OBVIOUS
  <2>1. i > 0 /\ i \in DOMAIN l  BY <1>5, <1>8
  <2>2. j = i \/ P[j] < P[i]  BY <1>5, <1>8, <2>1 DEF Waits
  <2>. QED  BY <1>1, <1>2, <1>10, <2>1, <2>2
<1>12. i > 0 => (l[i].start = x <=> P[i] = p)
  <2>. SUFFICES ASSUME i > 0, l[i].start = x PROVE P[i] = p  BY <1>2, <1>10
  <2>1. PICK y \in Nat, z \in Nat : /\ y = First(c, p) /\ z = First(c, P[i]) /\ SeqNo(y) = SeqNo(z)
                                   /\ y < z + Lap /\ z < y + Lap
    BY <1>1, <1>2, <1>10, Sizes
  <2>2. y = z  BY <2>1, SeqNoSame
  <2>3. ~(p < P[i]) /\ ~(P[i] < p)
    <3>1. PICK r \in Packets(c) : r = P[i]  BY <1>2, <1>10
    <3>2. (p < r <=> First(c, p) < First(c, r)) /\ p \in Packets(c)  BY <1>1, FirstOrder
    <3>3. r < p <=> First(c, r) < First(c, p)  BY <3>2, FirstOrder
    <3>4. First(c, p) = z /\ First(c, r) = z  BY <2>1, <2>2, <3>1
    <3>5. ~(z < z)  OBVIOUS
    <3>. QED  BY <3>1, <3>2, <3>3, <3>4, <3>5
  <2>. QED  BY <1>1, <1>2, <1>10, <2>3
<1>. QED  BY <1>8, <1>9, <1>11, <1>12

HaveOf(l) == UNION {l[i].have : i \in DOMAIN l}

LEMMA InsertedIs ==
  ASSUME NEW X, NEW l \in Seq(X), NEW i \in 0 .. Len(l), NEW e \in X
  PROVE  /\ Inserted(l, i, e) \in Seq(X) /\ DOMAIN Inserted(l, i, e) = 1 .. Len(l) + 1
         /\ \A j \in 1 .. Len(l) + 1 :
              Inserted(l, i, e)[j] = IF j <= i THEN l[j] ELSE IF j = i + 1 THEN e ELSE l[j - 1]
<1>1. PICK n \in Nat : n = Len(l) /\ i \in 0 .. n /\ i \in Nat  OBVIOUS
<1>2. PICK a \in Seq(X) : a = SubSeq(l, 1, i) /\ Len(a) = i /\ \A j \in 1 .. i : a[j] = l[j]
  <2>1. SubSeq(l, 1, i) \in Seq(X) /\ Len(SubSeq(l, 1, i)) = i /\ \A j \in 1 .. i : SubSeq(l, 1, i)[j] = l[j]
    BY <1>1
  <2>. QED  BY <2>1
<1>3. PICK b \in Seq(X) : b = SubSeq(l, i + 1, n) /\ Len(b) = n - i /\ \A j \in 1 .. n - i : b[j] = l[i + j]
  <2>1. SubSeq(l, i + 1, n) \in Seq(X) /\ Len(SubSeq(l, i + 1, n)) = n - i
        /\ \A j \in 1 .. n - i : SubSeq(l, i + 1, n)[j] = l[i + j]
    BY <1>1
  <2>. QED  BY <2>1
<1>4. PICK u \in Seq(X) : /\ u = a \o <<e>> /\ Len(u) = i + 1 /\ u[i + 1] = e
                          /\ \A j \in 1 .. i : u[j] = a[j]
  <2>1. a \o <<e>> = Append(a, e) /\ Append(a, e) \in Seq(X) /\ Len(Append(a, e)) = Len(a) + 1
        /\ Append(a, e)[Len(a) + 1] = e /\ \A j \in 1 .. Len(a) : Append(a, e)[j] = a[j]
    OBVIOUS
  <2>2. PICK u : u = Append(a, e)  OBVIOUS
  <2>3. u = a \o <<e>> /\ u \in Seq(X) /\ Len(u) = Len(a) + 1 /\ u[Len(a) + 1] = e /\ \A j \in 1 .. Len(a) : u[j] = a[j]
    BY <2>1, <2>2
  <2>. QED  BY <1>2, <2>3
<1>5. PICK m \in Seq(X) : /\ m = u \o b /\ DOMAIN m = 1 .. n + 1
                          /\ \A j \in 1 .. i + 1 : m[j] = u[j]
                          /\ \A j \in i + 2 .. n + 1 : m[j] = b[j - (i + 1)]
  <2>0. /\ u \o b \in Seq(X) /\ DOMAIN (u \o b) = 1 .. Len(u) + Len(b)
        /\ \A j \in 1 .. Len(u) : (u \o b)[j] = u[j]
        /\ \A j \in Len(u) + 1 .. Len(u) + Len(b) : (u \o b)[j] = b[j - Len(u)]
    BY Joined
  <2>1. PICK m \in Seq(X) : /\ m = u \o b /\ DOMAIN m = 1 .. Len(u) + Len(b)
                            /\ \A j \in 1 .. Len(u) : m[j] = u[j]
                            /\ \A j \in Len(u) + 1 .. Len(u) + Len(b) : m[j] = b[j - Len(u)]
    <3>1. PICK m : m = u \o b  OBVIOUS
    <3>. QED  BY <2>0, <3>1, Zenon
  <2>2. Len(u) = i + 1 /\ Len(b) = n - i  BY <1>3, <1>4
  <2>3. Len(u) + Len(b) = n + 1 /\ Len(u) + 1 = i + 2  BY <1>1, <2>2
  <2>4. DOMAIN m = 1 .. n + 1 /\ \A j \in 1 .. i + 1 : m[j] = u[j]  BY Zenon, <2>1, <2>2, <2>3
  <2>5. \A j \in i + 2 .. n + 1 : m[j] = b[j - (i + 1)]  BY Zenon, <2>1, <2>2, <2>3
  <2>. QED  BY Zenon, <2>1, <2>4, <2>5
<1>6. Inserted(l, i, e) = m
  <2>1. (i + 1) - 1 = i  BY <1>1
  <2>. QED  BY <1>1, <1>2, <1>3, <1>4, <1>5, <2>1 DEF Inserted, InsertAt
<1>7. \A j \in i + 2 .. n + 1 : b[j - (i + 1)] = l[j - 1]
  <2>. SUFFICES ASSUME NEW j \in i + 2 .. n + 1 PROVE b[j - (i + 1)] = l[j - 1]  OBVIOUS
  <2>1. PICK k \in 1 .. n - i : k = j - (i + 1) /\ i + k = j - 1
    <3>1. j - (i + 1) \in 1 .. n - i /\ i + (j - (i + 1)) = j - 1  BY <1>1
    <3>. QED  BY <3>1
  <2>. QED  BY <1>3, <2>1
<1>8. ASSUME NEW j \in 1 .. n + 1
      PROVE  m[j] = IF j <= i THEN l[j] ELSE IF j = i + 1 THEN e ELSE l[j - 1]
  <2>1. CASE j <= i
    <3>1. j \in 1 .. i /\ j \in 1 .. i + 1  BY <1>1, <2>1
    <3>. QED  BY <1>2, <1>4, <1>5, <2>1, <3>1
  <2>2. CASE j = i + 1
    <3>1. j \in 1 .. i + 1 /\ ~(j <= i)  BY <1>1, <2>2
    <3>. QED  BY <1>4, <1>5, <2>2, <3>1
  <2>3. CASE j > i + 1
    <3>1. j \in i + 2 .. n + 1 /\ ~(j <= i) /\ j # i + 1  BY <1>1, <2>3
    <3>. QED  BY <1>5, <1>7, <3>1
  <2>. QED  BY <1>1, <2>1, <2>2, <2>3
<1>. QED  BY <1>1, <1>5, <1>6, <1>8

LEMMA InsertKeepsWaits ==
  ASSUME NEW c \in Channels, NEW d \in 0 .. Len(Ends[c]), NEW l \in Seq(EntryType), NEW P, NEW s,
         Waits(c, l, P, d, s), NEW p \in d + 1 .. Len(Ends[c]),
         WindowNo(First(c, p)) <= WindowNo(Total(c, d)) + Free - 2,
         NEW i, i = Place(l, SeqNo(First(c, p)), SeqNo(Total(c, d))),
         ~(i > 0 /\ l[i].start = SeqNo(First(c, p))),
         NEW e \in EntryType, EntryOf(c, e, p, s)
  PROVE  /\ Inserted(l, i, e) \in Seq(EntryType) /\ HaveOf(Inserted(l, i, e)) = HaveOf(l) \cup e.have
         /\ \E Q : Waits(c, Inserted(l, i, e), Q, d, s)
<1>1. /\ i \in 0 .. Len(l)
      /\ \A j \in DOMAIN l : j <= i => P[j] <= p
      /\ \A j \in DOMAIN l : j > i => P[j] > p
      /\ i > 0 => (l[i].start = SeqNo(First(c, p)) <=> P[i] = p)
  BY PlaceIs
<1>2. PICK n \in Nat : n = Len(l) /\ DOMAIN l = 1 .. n /\ i \in 0 .. n /\ i \in Nat  BY <1>1
<1>3. /\ P \in [DOMAIN l -> d + 1 .. Len(Ends[c])]
      /\ \A j \in DOMAIN l :
           /\ P[j] \in d + 1 .. Len(Ends[c]) /\ P[j] \in Int
           /\ EntryOf(c, l[j], P[j], s) /\ WindowNo(First(c, P[j])) <= WindowNo(Total(c, d)) + Free - 2
      /\ \A j, k \in DOMAIN l : j < k => P[j] < P[k]
      /\ p \in Int
  BY DEF Waits
<1>4. \A j \in 1 .. n : j <= i => P[j] < p
  <2>. SUFFICES ASSUME NEW j \in 1 .. n, j <= i PROVE P[j] < p  OBVIOUS
  <2>1. i > 0 /\ i \in DOMAIN l /\ P[i] # p /\ P[i] <= p  BY <1>1, <1>2
  <2>2. P[i] < p  BY <1>3, <2>1
  <2>3. j = i \/ P[j] < P[i]  BY <1>2, <1>3, <2>1
  <2>. QED  BY <1>2, <1>3, <2>1, <2>2, <2>3
<1>. DEFINE m == Inserted(l, i, e)
            Q == [j \in 1 .. n + 1 |-> IF j <= i THEN P[j] ELSE IF j = i + 1 THEN p ELSE P[j - 1]]
<1>5. /\ m \in Seq(EntryType) /\ DOMAIN m = 1 .. n + 1
      /\ \A j \in 1 .. n + 1 : m[j] = IF j <= i THEN l[j] ELSE IF j = i + 1 THEN e ELSE l[j - 1]
  <2>1. i \in 0 .. Len(l) /\ l \in Seq(EntryType) /\ e \in EntryType  BY <1>1
  <2>2. /\ m \in Seq(EntryType) /\ DOMAIN m = 1 .. Len(l) + 1
        /\ \A j \in 1 .. Len(l) + 1 : m[j] = IF j <= i THEN l[j] ELSE IF j = i + 1 THEN e ELSE l[j - 1]
    <3>1. m \in Seq(EntryType)  BY <2>1, InsertedIs
    <3>2. DOMAIN m = 1 .. Len(l) + 1  BY <2>1, InsertedIs
    <3>3. \A j \in 1 .. Len(l) + 1 : m[j] = IF j <= i THEN l[j] ELSE IF j = i + 1 THEN e ELSE l[j - 1]
      BY ONLY <2>1, InsertedIs DEF m
    <3>. QED  BY <3>1, <3>2, <3>3
  <2>. QED  BY <1>2, <2>2
<1>. HIDE DEF m
<1>6. ASSUME NEW j \in 1 .. n + 1
      PROVE  /\ Q[j] \in d + 1 .. Len(Ends[c])
             /\ EntryOf(c, m[j], Q[j], s) /\ WindowNo(First(c, Q[j])) <= WindowNo(Total(c, d)) + Free - 2
  <2>1. CASE j <= i
    <3>1. j \in DOMAIN l /\ Q[j] = P[j] /\ m[j] = l[j]  BY <1>2, <1>5, <2>1
    <3>. QED  BY <1>3, <3>1
  <2>2. CASE j = i + 1
    <3>1. Q[j] = p /\ m[j] = e  BY <1>2, <1>5, <2>2
    <3>. QED  BY <3>1
  <2>3. CASE j > i + 1
    <3>1. j - 1 \in DOMAIN l /\ Q[j] = P[j - 1] /\ m[j] = l[j - 1]  BY <1>2, <1>5, <2>3
    <3>. QED  BY <1>3, <3>1
  <2>. QED  BY <1>2, <2>1, <2>2, <2>3
<1>7. ASSUME NEW j \in 1 .. n + 1, NEW k \in 1 .. n + 1, j < k PROVE Q[j] < Q[k]
  <2>1. CASE k <= i
    <3>1. j \in DOMAIN l /\ k \in DOMAIN l /\ Q[j] = P[j] /\ Q[k] = P[k]  BY <1>2, <1>7, <2>1
    <3>. QED  BY <1>3, <1>7, <3>1
  <2>2. CASE k = i + 1
    <3>1. j \in 1 .. n /\ j <= i /\ Q[j] = P[j] /\ Q[k] = p  BY <1>2, <1>7, <2>2
    <3>. QED  BY <1>4, <3>1
  <2>3. CASE k > i + 1
    <3>1. k - 1 \in DOMAIN l /\ k - 1 > i /\ Q[k] = P[k - 1] /\ P[k - 1] > p  BY <1>1, <1>2, <2>3
    <3>2. CASE j <= i
      <4>1. Q[j] = P[j] /\ P[j] < p /\ j \in DOMAIN l  BY <1>2, <1>4, <3>2
      <4>. QED  BY <1>3, <3>1, <4>1
    <3>3. CASE j = i + 1
      <4>1. Q[j] = p  BY <1>2, <3>3
      <4>. QED  BY <1>3, <3>1, <4>1
    <3>4. CASE j > i + 1
      <4>1. j - 1 \in DOMAIN l /\ Q[j] = P[j - 1] /\ j - 1 < k - 1  BY <1>2, <1>7, <3>4
      <4>. QED  BY <1>3, <3>1, <4>1
    <3>. QED  BY <1>2, <3>2, <3>3, <3>4
  <2>. QED  BY <1>2, <2>1, <2>2, <2>3
<1>8. Q \in [1 .. n + 1 -> d + 1 .. Len(Ends[c])]
  <2>1. Q = [j \in 1 .. n + 1 |-> Q[j]]  OBVIOUS
  <2>. HIDE DEF Q
  <2>. QED  BY <1>6, <2>1
<1>. HIDE DEF Q
<1>9. Waits(c, m, Q, d, s)  BY <1>5, <1>6, <1>7, <1>8 DEF Waits
<1>10. HaveOf(m) = HaveOf(l) \cup e.have
  <2>1. ASSUME NEW x \in HaveOf(m) PROVE x \in HaveOf(l) \cup e.have
    <3>1. PICK j \in 1 .. n + 1 : x \in m[j].have  BY <1>5 DEF HaveOf
    <3>2. m[j] = e \/ \E k \in DOMAIN l : m[j] = l[k]
      <4>1. j <= i => j \in DOMAIN l  BY <1>2
      <4>2. j > i + 1 => j - 1 \in DOMAIN l  BY <1>2
      <4>. QED  BY <1>2, <1>5, <4>1, <4>2
    <3>. QED  BY <3>1, <3>2 DEF HaveOf
  <2>2. ASSUME NEW x \in HaveOf(l) PROVE x \in HaveOf(m)
    <3>1. PICK j \in DOMAIN l : x \in l[j].have  BY DEF HaveOf
    <3>2. CASE j <= i
      <4>1. j \in DOMAIN m /\ m[j] = l[j]  BY <1>2, <1>5, <3>2
      <4>. QED  BY <3>1, <4>1 DEF HaveOf
    <3>3. CASE j > i
      <4>1. j + 1 \in DOMAIN m /\ m[j + 1] = l[(j + 1) - 1] /\ (j + 1) - 1 = j  BY <1>2, <1>5, <3>3
      <4>. QED  BY <3>1, <4>1 DEF HaveOf
    <3>. QED  BY <1>2, <3>2, <3>3
  <2>3. e.have \subseteq HaveOf(m)
    <3>1. i + 1 \in DOMAIN m /\ m[i + 1] = e  BY <1>2, <1>5
    <3>. QED  BY <3>1 DEF HaveOf
  <2>. QED  BY <2>1, <2>2, <2>3
<1>. QED  BY <1>5, <1>9, <1>10 DEF m

LEMMA EnlargeHas ==
  ASSUME NEW l \in Seq(EntryType), NEW i \in DOMAIN l, NEW n \in Nat,
         NEW m, m = [l EXCEPT ![i].have = @ \cup {n}]
  PROVE  HaveOf(m) = HaveOf(l) \cup {n}
<1>. DEFINE e == [l[i] EXCEPT !.have = @ \cup {n}]
<1>1. l[i] \in EntryType  OBVIOUS
<1>2. e.have = l[i].have \cup {n}
  BY <1>1 DEF EntryType
<1>3. m = [l EXCEPT ![i] = e]  OBVIOUS
<1>. HIDE DEF e
<1>4. DOMAIN m = DOMAIN l /\ \A j \in DOMAIN l : m[j] = IF j = i THEN e ELSE l[j]
  <2>1. l \in Seq(EntryType) /\ i \in DOMAIN l  OBVIOUS
  <2>. QED  BY ONLY <1>2, <1>3, <2>1
<1>5. \A j \in DOMAIN l : m[j].have = l[j].have \cup (IF j = i THEN {n} ELSE {})
  BY <1>2, <1>4
<1>. QED  BY <1>4, <1>5 DEF HaveOf

\* One more fragment of a packet that has an entry.
LEMMA EnlargeKeepsWaits ==
  ASSUME NEW c \in Channels, NEW d, NEW l \in Seq(EntryType), NEW P, NEW s,
         Waits(c, l, P, d, s), NEW i \in DOMAIN l, NEW n \in Fragments(c, P[i]), n \in 1 .. s, n \in Nat,
         NEW m, m = [l EXCEPT ![i].have = @ \cup {n}]
  PROVE  m \in Seq(EntryType) /\ Waits(c, m, P, d, s)
<1>. DEFINE e == [l[i] EXCEPT !.have = @ \cup {n}]
<1>1. l[i] \in EntryType  OBVIOUS
<1>2. e \in EntryType /\ e.start = l[i].start /\ e.count = l[i].count /\ e.have = l[i].have \cup {n}
  BY <1>1 DEF EntryType
<1>3. m = [l EXCEPT ![i] = e]  OBVIOUS
<1>. HIDE DEF e
<1>4. m \in Seq(EntryType) /\ DOMAIN m = DOMAIN l /\ \A j \in DOMAIN l : m[j] = IF j = i THEN e ELSE l[j]
  <2>1. l \in Seq(EntryType) /\ i \in DOMAIN l  OBVIOUS
  <2>. QED  BY ONLY <1>2, <1>3, <2>1
<1>5. ASSUME NEW j \in DOMAIN l PROVE EntryOf(c, m[j], P[j], s)
  <2>1. EntryOf(c, l[j], P[j], s)  BY DEF Waits
  <2>2. CASE j = i
    <3>1. EntryOf(c, e, P[i], s)  BY <1>2, <2>1, <2>2 DEF EntryOf
    <3>. QED  BY <1>4, <2>2, <3>1
  <2>3. CASE j # i  BY <1>4, <2>1, <2>3
  <2>. QED  BY <2>2, <2>3
<1>6. Waits(c, m, P, d, s)  BY <1>4, <1>5 DEF Waits
<1>. QED  BY <1>4, <1>6

LEMMA FragmentsIs ==
  ASSUME NEW c \in Channels, NEW p \in Packets(c)
  PROVE  IsFiniteSet(Fragments(c, p)) /\ Cardinality(Fragments(c, p)) = Count(c, p) /\ Fragments(c, p) \subseteq Nat
<1>1. PICK f \in Nat \ {0}, k \in Nat \ {0} : f = First(c, p) /\ k = Count(c, p) /\ Total(c, p) = f + k - 1
  BY PacketIs, Sizes
<1>2. Fragments(c, p) = f .. f + k - 1  BY <1>1 DEF Fragments
<1>3. f \in Int /\ f + k - 1 \in Int /\ f <= f + k - 1  BY <1>1
<1>4. IsFiniteSet(f .. f + k - 1) /\ Cardinality(f .. f + k - 1) = (f + k - 1) - f + 1  BY <1>3, FS_Interval
<1>5. (f + k - 1) - f + 1 = k  OBVIOUS
<1>. QED  BY <1>1, <1>2, <1>4, <1>5

\* The number that follows that of a packet's last command.
LEMMA LastNoIs ==
  ASSUME NEW c \in Channels, NEW p \in Packets(c), NEW e, e.start = SeqNo(First(c, p)), e.count = Count(c, p)
  PROVE  LastNo(e) = SeqNo(Total(c, p))
<1>0. PICK f \in Nat \ {0}, k \in Nat \ {0} : f = First(c, p) /\ k = Count(c, p) /\ Total(c, p) = f + k - 1
  BY PacketIs, Sizes
<1>1. PICK s \in Nat : s = SeqNo(f)
  <2>1. SeqNo(f) \in 0 .. Lap - 1  BY SeqNoTyped
  <2>. QED  BY <2>1, Sizes
<1>2. PICK m \in Nat : m = k - 1 /\ f + m = f + k - 1 /\ s + m = s + k - 1
  <2>1. k - 1 \in Nat /\ f + (k - 1) = f + k - 1 /\ s + (k - 1) = s + k - 1  BY <1>1
  <2>. QED  BY <2>1
<1>3. SeqNo(SeqNo(f) + m) = SeqNo(f + m)  BY SeqNoNext
<1>. QED  BY <1>0, <1>1, <1>2, <1>3 DEF LastNo

LEMMA DispatchIs ==
  ASSUME NEW c \in Channels, NEW d \in 0 .. Len(Ends[c]), NEW l \in Seq(EntryType), NEW P, NEW s,
         Waits(c, l, P, d, s), NEW k, k = Dispatch(l, SeqNo(Total(c, d)))
  PROVE  /\ k \in 0 .. Len(l) /\ d + k \in 0 .. Len(Ends[c])
         /\ \A j \in 1 .. k : P[j] = d + j /\ l[j].have = Fragments(c, d + j) /\ d + j \in Packets(c)
         /\ k > 0 => LastNo(l[k]) = SeqNo(Total(c, d + k))
<1>. DEFINE D == Total(c, d)
            inc == SeqNo(D)
            Good(h) == \A j \in 1 .. h :
                         /\ Complete(l[j])
                         /\ l[j].start = SeqNo((IF j = 1 THEN inc ELSE LastNo(l[j - 1])) + 1)
            S == {h \in 0 .. Len(l) : Good(h)}
<1>1. PICK n \in Nat : n = Len(l) /\ DOMAIN l = 1 .. n  OBVIOUS
<1>2. k \in 0 .. n /\ Good(k) /\ k \in Nat
  <2>1. k = Max(S)  BY DEF Dispatch
  <2>2. S \subseteq 0 .. n /\ 0 \in S  BY <1>1
  <2>3. Max(S) \in S
    <3>. HIDE DEF S
    <3>. QED  BY <2>2, GreatestNumber
  <2>4. k \in S  BY <2>1, <2>3
  <2>. QED  BY <1>1, <2>4
<1>3. d \in Nat /\ Len(Ends[c]) \in Nat /\ d <= Len(Ends[c]) /\ D \in Nat  BY TotalIs
<1>4. ASSUME NEW j \in 1 .. n
      PROVE  /\ P[j] \in d + 1 .. Len(Ends[c]) /\ P[j] \in Packets(c) /\ P[j] \in Nat
             /\ First(c, P[j]) \in Nat /\ D < First(c, P[j]) /\ First(c, P[j]) < D + Lap
             /\ l[j].start = SeqNo(First(c, P[j])) /\ l[j].count = Count(c, P[j])
             /\ l[j].have \subseteq Fragments(c, P[j])
  <2>1. P[j] \in d + 1 .. Len(Ends[c]) /\ EntryOf(c, l[j], P[j], s)
        /\ WindowNo(First(c, P[j])) <= WindowNo(D) + Free - 2
    BY <1>1 DEF Waits
  <2>2. P[j] \in Packets(c) /\ First(c, P[j]) \in Nat /\ D < First(c, P[j]) /\ P[j] \in Nat
    BY <2>1, WaitsFirst DEF Packets
  <2>3. WindowNo(First(c, P[j])) \in Nat /\ WindowNo(D) \in Nat  BY <1>3, <2>2, WindowNoIs
  <2>4. WindowNo(First(c, P[j])) <= WindowNo(D) + Free - 1  BY <2>1, <2>3, Sizes
  <2>5. First(c, P[j]) < D + Lap  BY <1>3, <2>2, <2>4, Near
  <2>. QED  BY <2>1, <2>2, <2>5 DEF EntryOf
<1>5. \A i, j \in 1 .. n : i < j => P[i] < P[j]  BY <1>1 DEF Waits
<1>6. \A j \in 1 .. k : P[j] = d + j
  <2>. SUFFICES ASSUME NEW j0 \in 1 .. k, P[j0] # d + j0 PROVE FALSE  OBVIOUS
  <2>. DEFINE B == {j \in 1 .. k : P[j] # d + j}
  <2>1. B \subseteq Nat /\ B # {}  BY <1>2
  <2>2. PICK j \in B : \A i \in B : j <= i
    <3>. HIDE DEF B
    <3>. QED  BY <2>1, LeastNumber
  <2>3. j \in 1 .. k /\ j \in 1 .. n /\ P[j] # d + j /\ j \in Nat  BY <1>2
  <2>4. \A i \in 1 .. j - 1 : P[i] = d + i
    <3>. SUFFICES ASSUME NEW i \in 1 .. j - 1 PROVE P[i] = d + i  OBVIOUS
    <3>1. i \in 1 .. k /\ ~(j <= i)  BY <1>2, <2>3
    <3>2. i \notin B
      <4>. HIDE DEF B
      <4>. QED  BY <2>2, <3>1
    <3>. QED  BY <3>1, <3>2
  <2>. HIDE DEF B
  <2>5. P[j] >= d + j
    <3>1. CASE j = 1  BY <1>3, <1>4, <2>3, <3>1
    <3>2. CASE j # 1
      <4>1. j - 1 \in 1 .. j - 1 /\ j - 1 \in 1 .. n /\ j - 1 < j  BY <1>2, <2>3, <3>2
      <4>2. P[j - 1] = d + (j - 1) /\ P[j - 1] < P[j]  BY <1>5, <2>3, <2>4, <4>1
      <4>. QED  BY <1>3, <1>4, <2>3, <4>2
    <3>. QED  BY <3>1, <3>2
  <2>6. PICK q \in Packets(c) : q = d + j /\ q - 1 = d + (j - 1) /\ q < P[j] /\ q \in d + 1 .. Len(Ends[c])
    <3>1. d + j \in Packets(c) /\ (d + j) - 1 = d + (j - 1) /\ d + j < P[j] /\ d + j \in d + 1 .. Len(Ends[c])
      BY <1>3, <1>4, <2>3, <2>5 DEF Packets
    <3>. QED  BY <3>1
  <2>7. PICK x \in Nat, y \in Nat, z \in Nat :
          /\ x = First(c, q) /\ y = First(c, P[j]) /\ z = Total(c, q - 1) /\ x = z + 1
          /\ x < y /\ D < x /\ y < D + Lap
    <3>1. First(c, q) \in Nat /\ First(c, P[j]) \in Nat /\ D < First(c, q) /\ Total(c, q - 1) \in Nat
          /\ First(c, P[j]) < D + Lap
      <4>1. First(c, q) \in Nat /\ D < First(c, q)  BY <2>6, WaitsFirst
      <4>2. q - 1 \in 0 .. Len(Ends[c])  BY <2>6, PacketIs
      <4>. QED  BY <1>4, <2>3, <4>1, <4>2, TotalIs
    <3>2. First(c, q) < First(c, P[j])  BY <1>4, <2>3, <2>6, FirstOrder
    <3>3. First(c, q) = Total(c, q - 1) + 1  BY DEF First
    <3>. QED  BY <3>1, <3>2, <3>3
  <2>8. l[j].start = SeqNo(x)
    <3>0. SeqNo(SeqNo(z) + 1) = SeqNo(z + 1)  BY SeqNoNext
    <3>1. CASE j = 1
      <4>1. l[j].start = SeqNo(inc + 1)  BY <1>2, <2>3, <3>1
      <4>2. q - 1 = d  BY <1>3, <2>6, <3>1
      <4>. QED  BY <2>7, <3>0, <4>1, <4>2
    <3>2. CASE j # 1
      <4>1. l[j].start = SeqNo(LastNo(l[j - 1]) + 1)  BY <1>2, <2>3, <3>2
      <4>2. j - 1 \in 1 .. n /\ j - 1 \in 1 .. j - 1  BY <1>2, <2>3, <3>2
      <4>3. P[j - 1] = q - 1  BY <2>4, <2>6, <4>2
      <4>4. LastNo(l[j - 1]) = SeqNo(Total(c, q - 1))
        <5>1. /\ l[j - 1].start = SeqNo(First(c, P[j - 1])) /\ l[j - 1].count = Count(c, P[j - 1])
              /\ P[j - 1] \in Packets(c)
          BY <1>4, <4>2
        <5>. QED  BY <4>3, <5>1, LastNoIs
      <4>. QED  BY <2>7, <3>0, <4>1, <4>4
    <3>. QED  BY <3>1, <3>2
  <2>9. SeqNo(x) = SeqNo(y)  BY <1>4, <2>3, <2>7, <2>8
  <2>10. x < y + Lap /\ y < x + Lap
    <3>1. Lap \in Nat  BY Sizes
    <3>. QED  BY <1>3, <2>7, <3>1
  <2>11. x = y  BY <2>9, <2>10, SeqNoSame
  <2>. QED  BY <2>7, <2>11
<1>7. ASSUME NEW j \in 1 .. k
      PROVE  l[j].have = Fragments(c, d + j) /\ d + j \in Packets(c)
  <2>1. j \in 1 .. n /\ P[j] = d + j /\ d + j \in Packets(c)  BY <1>1, <1>2, <1>4, <1>6
  <2>2. l[j].have \subseteq Fragments(c, d + j) /\ l[j].count = Count(c, d + j)  BY <1>4, <2>1
  <2>3. Cardinality(l[j].have) = Count(c, d + j)  BY <1>2, <2>2 DEF Complete
  <2>4. IsFiniteSet(Fragments(c, d + j)) /\ Cardinality(Fragments(c, d + j)) = Count(c, d + j)
    BY <2>1, FragmentsIs
  <2>. QED  BY <2>1, <2>2, <2>3, <2>4, FS_Subset
<1>8. d + k \in 0 .. Len(Ends[c])
  <2>1. CASE k = 0  BY <1>3, <2>1
  <2>2. CASE k # 0
    <3>1. k \in 1 .. k  BY <1>2, <2>2
    <3>2. d + k \in Packets(c)  BY <1>7, <3>1
    <3>. QED  BY <1>3, <3>2 DEF Packets
  <2>. QED  BY <2>1, <2>2
<1>9. k > 0 => LastNo(l[k]) = SeqNo(Total(c, d + k))
  <2>. SUFFICES ASSUME k > 0 PROVE LastNo(l[k]) = SeqNo(Total(c, d + k))  OBVIOUS
  <2>1. k \in 1 .. k /\ k \in 1 .. n  BY <1>2
  <2>2. l[k].start = SeqNo(First(c, d + k)) /\ l[k].count = Count(c, d + k) /\ d + k \in Packets(c)
    BY <1>4, <1>6, <1>7, <2>1
  <2>. QED  BY <2>2, LastNoIs
<1>. QED  BY <1>1, <1>2, <1>6, <1>7, <1>8, <1>9

\* What waits after what can be delivered was taken.
LEMMA RestWaits ==
  ASSUME NEW c \in Channels, NEW d \in 0 .. Len(Ends[c]), NEW l \in Seq(EntryType), NEW P, NEW s,
         Waits(c, l, P, d, s), NEW k \in 0 .. Len(l), d + k \in 0 .. Len(Ends[c]),
         \A j \in 1 .. k : P[j] = d + j
  PROVE  /\ SubSeq(l, k + 1, Len(l)) \in Seq(EntryType)
         /\ \E Q : Waits(c, SubSeq(l, k + 1, Len(l)), Q, d + k, s)
<1>1. PICK n \in Nat : n = Len(l) /\ DOMAIN l = 1 .. n /\ k \in 0 .. n /\ k \in Nat  OBVIOUS
<1>2. PICK m \in Seq(EntryType) : /\ m = SubSeq(l, k + 1, n) /\ DOMAIN m = 1 .. n - k
                                  /\ \A j \in 1 .. n - k : m[j] = l[k + j]
  <2>1. SubSeq(l, k + 1, n) \in Seq(EntryType) /\ DOMAIN SubSeq(l, k + 1, n) = 1 .. n - k
        /\ \A j \in 1 .. n - k : SubSeq(l, k + 1, n)[j] = l[k + j]
    BY <1>1
  <2>. QED  BY <2>1
<1>. DEFINE Q == [j \in 1 .. n - k |-> P[k + j]]
<1>3. \A j \in 1 .. n - k : k + j \in DOMAIN l /\ k + j \in 1 .. n  BY <1>1
<1>4. /\ d \in Nat /\ Len(Ends[c]) \in Nat /\ d + k \in Nat /\ Total(c, d) \in Nat /\ Total(c, d + k) \in Nat
      /\ Total(c, d) <= Total(c, d + k)
  <2>1. d \in Nat /\ Len(Ends[c]) \in Nat /\ d + k \in Nat  BY <1>1, TotalIs
  <2>2. Total(c, d) \in Nat /\ Total(c, d + k) \in Nat  BY TotalIs
  <2>3. CASE k = 0  BY <2>1, <2>2, <2>3
  <2>4. CASE k # 0
    <3>1. d < d + k  BY <1>1, <2>1, <2>4
    <3>2. Total(c, d) < Total(c, d + k)  BY <3>1, TotalIs
    <3>. QED  BY <2>1, <2>2, <3>2
  <2>. QED  BY <2>3, <2>4
<1>5. WindowNo(Total(c, d)) <= WindowNo(Total(c, d + k)) /\ WindowNo(Total(c, d)) \in Nat /\ WindowNo(Total(c, d + k)) \in Nat
  BY <1>4, WindowNoGrows, WindowNoIs
<1>6. /\ P \in [DOMAIN l -> d + 1 .. Len(Ends[c])]
      /\ \A j \in DOMAIN l :
           EntryOf(c, l[j], P[j], s) /\ WindowNo(First(c, P[j])) <= WindowNo(Total(c, d)) + Free - 2
      /\ \A i, j \in DOMAIN l : i < j => P[i] < P[j]
  BY DEF Waits
<1>7. ASSUME NEW j \in 1 .. n - k
      PROVE  Q[j] \in d + k + 1 .. Len(Ends[c]) /\ EntryOf(c, m[j], Q[j], s)
             /\ WindowNo(First(c, Q[j])) <= WindowNo(Total(c, d + k)) + Free - 2
  <2>1. Q[j] = P[k + j] /\ m[j] = l[k + j] /\ k + j \in 1 .. n /\ k + j \in DOMAIN l
    BY <1>2, <1>3
  <2>2. P[k + j] \in d + 1 .. Len(Ends[c]) /\ P[k + j] \in Packets(c)
    <3>1. P[k + j] \in d + 1 .. Len(Ends[c])  BY <1>6, <2>1
    <3>. QED  BY <3>1, WaitsFirst
  <2>3. P[k + j] > d + k
    <3>1. CASE k = 0  BY <1>4, <2>2, <3>1
    <3>2. CASE k # 0
      <4>1. k \in 1 .. k /\ k \in DOMAIN l /\ k < k + j  BY <1>1, <3>2
      <4>2. P[k] = d + k /\ P[k] < P[k + j]  BY <1>6, <2>1, <4>1
      <4>. QED  BY <1>4, <2>2, <4>2
    <3>. QED  BY <3>1, <3>2
  <2>4. First(c, P[k + j]) \in Nat /\ WindowNo(First(c, P[k + j])) \in Nat
    <3>1. First(c, P[k + j]) \in Nat  BY <2>2, WaitsFirst
    <3>. QED  BY <3>1, WindowNoIs
  <2>5. WindowNo(First(c, P[k + j])) <= WindowNo(Total(c, d)) + Free - 2  BY <1>6, <2>1
  <2>6. WindowNo(First(c, P[k + j])) <= WindowNo(Total(c, d + k)) + Free - 2
    BY <1>5, <2>4, <2>5, Sizes
  <2>7. P[k + j] \in d + k + 1 .. Len(Ends[c])  BY <1>4, <2>2, <2>3
  <2>. QED  BY <1>6, <2>1, <2>6, <2>7
<1>8. \A i, j \in 1 .. n - k : i < j => Q[i] < Q[j]
  <2>. SUFFICES ASSUME NEW i \in 1 .. n - k, NEW j \in 1 .. n - k, i < j PROVE Q[i] < Q[j]  OBVIOUS
  <2>1. k + i < k + j /\ k + i \in DOMAIN l /\ k + j \in DOMAIN l  BY <1>1, <1>3
  <2>. QED  BY <1>6, <2>1
<1>9. Q \in [1 .. n - k -> d + k + 1 .. Len(Ends[c])]
  <2>1. Q = [j \in 1 .. n - k |-> Q[j]]  OBVIOUS
  <2>. HIDE DEF Q
  <2>. QED  BY <1>7, <2>1
<1>. HIDE DEF Q
<1>10. Waits(c, m, Q, d + k, s)  BY <1>2, <1>7, <1>8, <1>9 DEF Waits
<1>. QED  BY <1>1, <1>2, <1>10

LEMMA RestHas ==
  ASSUME NEW l \in Seq(EntryType), NEW k \in 0 .. Len(l), NEW x \in HaveOf(l)
  PROVE  x \in HaveOf(SubSeq(l, k + 1, Len(l))) \/ \E j \in 1 .. k : x \in l[j].have
<1>1. PICK j \in DOMAIN l : x \in l[j].have  BY DEF HaveOf
<1>2. j \in 1 .. Len(l) /\ Len(l) \in Nat /\ k \in Nat  OBVIOUS
<1>3. CASE j > k
  <2>1. PICK r : r = SubSeq(l, k + 1, Len(l))  OBVIOUS
  <2>2. j - k \in 1 .. Len(l) - k /\ (j - k) + k = j  BY <1>2, <1>3
  <2>3. DOMAIN r = 1 .. Len(l) - k /\ r[j - k] = l[j]
    <3>1. l \in Seq(EntryType) /\ k \in 0 .. Len(l)  OBVIOUS
    <3>. QED  BY ONLY <1>2, <1>3, <2>1, <2>2, <3>1
  <2>. QED  BY <1>1, <2>1, <2>2, <2>3 DEF HaveOf
<1>. QED  BY <1>1, <1>2, <1>3

-----------------------------------------------------------------------------
(* The receiver's steps.                                                   *)

ReceiverInv ==
  \A c \in Channels :
    /\ Done(c) <= started[c] /\ incoming[c] = SeqNo(Done(c))
    /\ delivered[c] = [i \in 1 .. Len(delivered[c]) |-> Fragments(c, i)]
    /\ \E P : Waits(c, held[c], P, Len(delivered[c]), started[c])

\* What is accepted is the last command that was delivered or one that is not
\* half a round of the windows ahead.
LEMMA AcceptsIs ==
  ASSUME NEW D \in Nat, NEW f \in Nat, NEW s \in Nat, f <= s, D <= s,
         WindowNo(s) <= WindowNo(D) + Free - 1, WindowNo(s) <= WindowNo(f) + Free + 1
  PROVE  Accepts(SeqNo(f), SeqNo(D)) <=> f = D \/ (D < f /\ WindowNo(f) <= WindowNo(D) + Free - 2)
<1>1. /\ WindowNo(D) \in Nat /\ WindowNo(f) \in Nat /\ WindowNo(s) \in Nat
      /\ WindowNo(f) <= WindowNo(s) /\ WindowNo(D) <= WindowNo(s)
  BY WindowNoIs, WindowNoGrows
<1>2. PICK k \in Nat : Free = k + 2 /\ Windows = 2 * k + 4
  <2>1. Free - 2 \in Nat /\ Free = (Free - 2) + 2 /\ Windows = 2 * (Free - 2) + 4  BY Sizes
  <2>. QED  BY <2>1
<1>3. CASE f < D
  <2>1. WindowNo(D) <= WindowNo(f) + Free + 1  BY <1>1, <1>2
  <2>2. D < f + Lap  BY <2>1, FarApart
  <2>3. Ahead(SeqNo(f), SeqNo(D)) = Windows - (WindowNo(D) - WindowNo(f))  BY <1>3, <2>2, BehindIs
  <2>4. ~(Ahead(SeqNo(f), SeqNo(D)) < Free - 1)  BY <1>1, <1>2, <2>1, <2>3
  <2>. QED  BY <1>3, <2>4 DEF Accepts
<1>4. CASE D <= f
  <2>1. WindowNo(f) <= WindowNo(D) + Free - 1  BY <1>1, <1>2
  <2>2. f < D + Lap  BY <2>1, Near
  <2>3. Ahead(SeqNo(f), SeqNo(D)) = WindowNo(f) - WindowNo(D)  BY <1>4, <2>2, AheadIs
  <2>4. Accepts(SeqNo(f), SeqNo(D)) <=> WindowNo(f) <= WindowNo(D) + Free - 2
    BY <1>1, <1>2, <2>3 DEF Accepts
  <2>5. f = D => WindowNo(f) <= WindowNo(D) + Free - 2  BY <1>1, <1>2
  <2>. QED  BY <1>4, <2>4, <2>5
<1>. QED  BY <1>3, <1>4

\* What is acknowledged is delivered or in a window whose commands are kept.
LEMMA NotRefused ==
  ASSUME NEW D \in Nat, NEW n \in Nat, NEW s \in Nat, n <= s,
         WindowNo(s) <= WindowNo(D) + Free - 1, ~ RefusesAck(SeqNo(n), SeqNo(D))
  PROVE  n <= D \/ WindowNo(n) <= WindowNo(D) + Free - 2
<1>. SUFFICES ASSUME D < n PROVE WindowNo(n) <= WindowNo(D) + Free - 2
  OBVIOUS
<1>1. WindowNo(D) \in Nat /\ WindowNo(n) \in Nat /\ WindowNo(s) \in Nat /\ WindowNo(n) <= WindowNo(s)
  BY WindowNoIs, WindowNoGrows
<1>2. WindowNo(n) <= WindowNo(D) + Free - 1  BY <1>1, Sizes
<1>3. n < D + Lap  BY <1>2, Near
<1>4. Ahead(SeqNo(n), SeqNo(D)) = WindowNo(n) - WindowNo(D)  BY <1>3, AheadIs
<1>5. WindowNo(n) - WindowNo(D) # Free - 1  BY <1>4 DEF RefusesAck
<1>. QED  BY <1>1, <1>2, <1>5, Sizes

LEMMA SeqNoNat ==
  ASSUME NEW n \in Nat
  PROVE  SeqNo(n) \in Nat
<1>1. SeqNo(n) \in 0 .. Lap - 1  BY SeqNoTyped
<1>. QED  BY <1>1, Sizes

LEMMA TotalGrows ==
  ASSUME NEW c \in Channels, NEW p \in 0 .. Len(Ends[c]), NEW r \in 0 .. Len(Ends[c]), p <= r
  PROVE  Total(c, p) <= Total(c, r) /\ Total(c, p) \in Nat /\ Total(c, r) \in Nat
<1>1. Total(c, p) \in Nat /\ Total(c, r) \in Nat  BY TotalIs
<1>2. p = r \/ p < r  OBVIOUS
<1>3. p < r => Total(c, p) < Total(c, r)  BY TotalIs
<1>. QED  BY <1>1, <1>2, <1>3

\* What the receiver does as command m comes: nothing; or it drops the command,
\* which it has or may not have yet; or it keeps it.
ReceiveOutcome(c, n) ==
  \/ UNCHANGED <<incoming, held, delivered, acks>>
  \/ /\ UNCHANGED <<incoming, held, delivered>> /\ Acknowledge(c, n)
     /\ n <= Done(c) \/ n \in Kept(c) \/ ~(WindowNo(First(c, Packet(c, n))) <= WindowNo(Done(c)) + Free - 2)
  \/ \E l \in Seq(EntryType) :
       /\ HaveOf(l) = Kept(c) \cup {n} /\ Keep(c, n, l)
       /\ \E P : Waits(c, l, P, Len(delivered[c]), started[c])

LEMMA ReceiveIs ==
  ASSUME ChannelTypes, SenderInv, ReceiverInv, NEW m \in wire, Receive(m)
  PROVE  ReceiveOutcome(m.ch, m.n)
<1>1. PICK c \in Channels, n \in Nat \ {0} : c = m.ch /\ n = m.n /\ m \in Commands
  BY FirstIs DEF ChannelTypes
<1>2. PICK p \in Packets(c) : p = Packet(c, n) /\ n \in Fragments(c, p)
  BY <1>1, FirstIs
<1>3. PICK d \in 0 .. Len(Ends[c]), D \in Nat, s \in Nat :
        /\ d = Len(delivered[c]) /\ D = Done(c) /\ D = Total(c, d) /\ s = started[c]
  BY DoneIs DEF Done
<1>4. PICK f \in Nat \ {0} : f = First(c, p) /\ f <= n  BY <1>1, <1>2, FirstIs
<1>5. /\ n <= s /\ f <= s /\ D <= s /\ incoming[c] = SeqNo(D)
      /\ WindowNo(s) <= WindowNo(D) + Free - 1 /\ WindowNo(s) <= WindowNo(f) + Free + 1
  <2>1. n <= s  BY <1>1, <1>3 DEF SenderInv, LateInv
  <2>2. WindowNo(s) <= WindowNo(f) + Free + 1  BY <1>1, <1>2, <1>3, <1>4 DEF SenderInv, LateInv
  <2>3. WindowNo(s) <= WindowNo(D) + Free - 1  BY <1>3 DEF SenderInv, SpreadInv
  <2>4. D <= s /\ incoming[c] = SeqNo(D)  BY <1>3 DEF ReceiverInv
  <2>. QED  BY <1>4, <2>1, <2>2, <2>3, <2>4
<1>6. Accepts(SeqNo(f), SeqNo(D)) <=> f = D \/ (D < f /\ WindowNo(f) <= WindowNo(D) + Free - 2)
  BY <1>5, AcceptsIs
<1>7. /\ p \in Nat /\ d \in Nat /\ p \in 0 .. Len(Ends[c]) /\ Count(c, p) \in Nat \ {0}
      /\ Total(c, p) = f + Count(c, p) - 1 /\ n <= Total(c, p) /\ Total(c, p) \in Nat /\ Len(Ends[c]) \in Nat
  <2>1. Count(c, p) \in Nat \ {0}  BY PacketIs, Sizes
  <2>2. Total(c, p) \in Nat  BY PacketIs
  <2>3. n <= Total(c, p)  BY <1>2 DEF Fragments
  <2>. QED  BY <1>3, <1>4, <2>1, <2>2, <2>3, PacketIs, TotalIs DEF Packets
<1>8. IF Count(c, p) = 1 THEN HandleSendReliable(c, n) ELSE HandleSendFragment(c, n)
  BY <1>1, <1>2 DEF Receive
<1>9. held[c] \in Seq(EntryType) /\ Kept(c) = HaveOf(held[c])  BY DEF ChannelTypes, Kept, HaveOf
<1>10. PICK P : Waits(c, held[c], P, d, s)  BY <1>3 DEF ReceiverInv
<1>11. CASE p <= d
  <2>1. n <= D
    <3>1. Total(c, p) <= D  BY <1>3, <1>7, <1>11, TotalGrows
    <3>. QED  BY <1>7, <3>1
  <2>2. ASSUME Count(c, p) = 1 PROVE Drop(c, n)
    <3>1. f = n  BY <1>4, <1>7, <2>2
    <3>2. ~(D < f)  BY <2>1, <3>1
    <3>3. ~Accepts(SeqNo(f), SeqNo(D)) \/ SeqNo(n) = incoming[c]  BY <1>5, <1>6, <3>1, <3>2
    <3>. QED  BY <1>5, <1>8, <2>2, <3>1, <3>3 DEF HandleSendReliable
  <2>3. ASSUME Count(c, p) # 1 PROVE Drop(c, n)
    <3>1. f < Total(c, p) /\ Total(c, p) <= D
      <4>1. Total(c, p) <= D  BY <1>3, <1>7, <1>11, TotalGrows
      <4>. QED  BY <1>7, <2>3, <4>1
    <3>2. ~Accepts(SeqNo(f), SeqNo(D))  BY <1>6, <1>7, <3>1
    <3>. QED  BY <1>2, <1>4, <1>5, <1>8, <2>3, <3>2 DEF HandleSendFragment
  <2>. QED  BY <1>1, <1>3, <2>1, <2>2, <2>3 DEF Drop, receiverVars, ReceiveOutcome
<1>12. CASE p > d
  <2>1. D < f /\ p \in d + 1 .. Len(Ends[c])
    <3>1. p \in d + 1 .. Len(Ends[c])  BY <1>7, <1>12 DEF Packets
    <3>. QED  BY <1>3, <1>4, <3>1, WaitsFirst
  <2>2. CASE ~Accepts(SeqNo(f), SeqNo(D))
    <3>1. ~(WindowNo(f) <= WindowNo(D) + Free - 2)  BY <1>6, <2>1, <2>2
    <3>2. Drop(c, n)
      <4>1. CASE Count(c, p) = 1
        <5>1. f = n  BY <1>4, <1>7, <4>1
        <5>. QED  BY <1>5, <1>8, <2>2, <4>1, <5>1 DEF HandleSendReliable
      <4>2. CASE Count(c, p) # 1
        BY <1>2, <1>4, <1>5, <1>8, <2>2, <4>2 DEF HandleSendFragment
      <4>. QED  BY <4>1, <4>2
    <3>. QED  BY <1>1, <1>2, <1>3, <1>4, <3>1, <3>2 DEF Drop, receiverVars, ReceiveOutcome
  <2>3. CASE Accepts(SeqNo(f), SeqNo(D))
    <3>1. WindowNo(f) <= WindowNo(D) + Free - 2  BY <1>6, <2>1, <2>3
    <3>2. SeqNo(f) # SeqNo(D)
      <4>1. WindowNo(f) <= WindowNo(D) + Free - 1
        <5>1. WindowNo(f) \in Nat /\ WindowNo(D) \in Nat  BY WindowNoIs
        <5>. QED  BY <3>1, <5>1, Sizes
      <4>2. f < D + Lap /\ D < f + Lap  BY <2>1, <4>1, Near, Sizes
      <4>. QED  BY <2>1, <4>2, SeqNoSame
    <3>3. PICK i : i = Place(held[c], SeqNo(f), SeqNo(D))  OBVIOUS
    <3>4. /\ i \in 0 .. Len(held[c])
          /\ i > 0 => (held[c][i].start = SeqNo(f) <=> P[i] = p)
      BY <1>3, <1>4, <1>9, <1>10, <2>1, <3>1, <3>3, PlaceIs
    <3>. DEFINE known == i > 0 /\ held[c][i].start = SeqNo(f)
    <3>5. known => /\ i \in DOMAIN held[c] /\ P[i] = p
                   /\ EntryOf(c, held[c][i], p, s) /\ held[c][i].have \subseteq Kept(c)
      <4>1. known => i \in DOMAIN held[c] /\ P[i] = p  BY <1>9, <3>4
      <4>2. known => EntryOf(c, held[c][i], p, s)  BY <1>10, <4>1 DEF Waits
      <4>. QED  BY <4>1, <4>2 DEF Kept
    <3>6. ASSUME ~known
          PROVE  LET e == [start |-> SeqNo(f), count |-> Count(c, p), have |-> {n}]
                     l == Inserted(held[c], i, e)
                 IN  /\ l \in Seq(EntryType) /\ HaveOf(l) = Kept(c) \cup {n}
                     /\ \E Q : Waits(c, l, Q, d, s)
      <4>1. PICK e : e = [start |-> SeqNo(f), count |-> Count(c, p), have |-> {n}]  OBVIOUS
      <4>2. SeqNo(f) \in Nat  BY SeqNoNat
      <4>3. e \in EntryType /\ e.have = {n}  BY <1>7, <4>1, <4>2 DEF EntryType
      <4>4. EntryOf(c, e, p, s)  BY <1>2, <1>4, <1>5, <4>1 DEF EntryOf
      <4>5. /\ Inserted(held[c], i, e) \in Seq(EntryType)
            /\ HaveOf(Inserted(held[c], i, e)) = HaveOf(held[c]) \cup e.have
            /\ \E Q : Waits(c, Inserted(held[c], i, e), Q, d, s)
        BY SMTT(30), <1>3, <1>4, <1>9, <1>10, <2>1, <3>1, <3>3, <3>6, <4>3, <4>4, InsertKeepsWaits
      <4>. QED  BY <1>9, <4>1, <4>3, <4>5
    <3>. HIDE DEF known
    <3>7. CASE Count(c, p) = 1
      <4>1. f = n  BY <1>4, <1>7, <3>7
      <4>2. IF known THEN Drop(c, n)
            ELSE Keep(c, n, Inserted(held[c], i, [start |-> SeqNo(f), count |-> Count(c, p), have |-> {n}]))
        BY <1>5, <1>8, <2>3, <3>2, <3>3, <3>7, <4>1 DEF HandleSendReliable, known
      <4>3. CASE known
        <5>1. Fragments(c, p) = {n}  BY <1>4, <1>7, <3>7, <4>1 DEF Fragments
        <5>2. n \in Kept(c)  BY <3>5, <4>3, <5>1 DEF EntryOf
        <5>. QED  BY <1>1, <4>2, <4>3, <5>2 DEF Drop, receiverVars, ReceiveOutcome
      <4>4. CASE ~known
        BY <1>1, <1>3, <3>6, <4>2, <4>4 DEF ReceiveOutcome
      <4>. QED  BY <4>3, <4>4
    <3>8. CASE Count(c, p) # 1
      <4>. DEFINE e == held[c][i]
                  new == [start |-> SeqNo(f), count |-> Count(c, p), have |-> {n}]
      <4>1. \/ Refuse
            \/ /\ known /\ IF \E k \in e.have : SeqNo(k) = SeqNo(n) THEN Drop(c, n)
                           ELSE Keep(c, n, [held[c] EXCEPT ![i].have = @ \cup {n}])
            \/ ~known /\ Keep(c, n, Inserted(held[c], i, new))
        BY <1>2, <1>4, <1>5, <1>8, <2>3, <3>3, <3>8 DEF HandleSendFragment, known
      <4>2. CASE Refuse  BY <1>1, <4>2 DEF Refuse, receiverVars, ReceiveOutcome
      <4>3. CASE ~known /\ Keep(c, n, Inserted(held[c], i, new))
        BY <1>1, <1>3, <3>6, <4>3 DEF ReceiveOutcome
      <4>4. CASE known /\ Keep(c, n, [held[c] EXCEPT ![i].have = @ \cup {n}])
        <5>1. i \in DOMAIN held[c] /\ P[i] = p  BY <3>5, <4>4
        <5>2. PICK l : l = [held[c] EXCEPT ![i].have = @ \cup {n}]  OBVIOUS
        <5>3. n \in Fragments(c, P[i]) /\ n \in 1 .. s /\ n \in Nat  BY <1>2, <1>5, <5>1
        <5>4. l \in Seq(EntryType) /\ HaveOf(l) = HaveOf(held[c]) \cup {n} /\ Waits(c, l, P, d, s)
          <6>1. PICK q \in Seq(EntryType) : q = held[c] /\ Waits(c, q, P, d, s) /\ i \in DOMAIN q
            BY <1>9, <1>10, <5>1
          <6>2. l = [q EXCEPT ![i].have = @ \cup {n}]  BY <5>2, <6>1
          <6>3. l \in Seq(EntryType)  BY <5>3, <6>1, <6>2, EnlargeKeepsWaits
          <6>4. HaveOf(l) = HaveOf(q) \cup {n}
            <7>1. q \in Seq(EntryType) /\ i \in DOMAIN q /\ n \in Nat  BY <5>3, <6>1
            <7>. QED  BY ONLY <6>2, <7>1, EnlargeHas
          <6>5. Waits(c, l, P, d, s)  BY <5>3, <6>1, <6>2, EnlargeKeepsWaits
          <6>. QED  BY <6>1, <6>3, <6>4, <6>5
        <5>. QED  BY <1>1, <1>3, <1>9, <4>4, <5>2, <5>4 DEF ReceiveOutcome
      <4>5. CASE known /\ Drop(c, n) /\ \E k \in e.have : SeqNo(k) = SeqNo(n)
        <5>1. PICK k \in e.have : SeqNo(k) = SeqNo(n)  BY <4>5
        <5>2. k \in Fragments(c, p) /\ k \in Kept(c)  BY <3>5, <4>5 DEF EntryOf
        <5>3. k = n
          <6>1. PICK T \in Nat : T = Total(c, p)  BY <1>7
          <6>2. k \in f .. T /\ n \in f .. T /\ k \in Nat  BY <1>2, <1>4, <5>2, <6>1 DEF Fragments
          <6>3. T < f + Lap
            <7>1. Count(c, p) \in 1 .. WindowSize + 1  BY PacketIs
            <7>2. WindowSize + 1 <= Lap
              <8>1. PICK b \in Nat \ {0}, w \in Nat : b = WindowSize /\ w = Free - 2 /\ Windows = 2 * w + 4
                <9>1. Free - 2 \in Nat /\ Windows = 2 * (Free - 2) + 4  BY Sizes
                <9>. QED  BY <9>1, Sizes
              <8>2. Lap = b * (2 * w + 4)  BY <8>1, Sizes
              <8>3. PICK x \in Nat : x = b * w  BY <8>1
              <8>4. b * (2 * w + 4) = 2 * x + 4 * b  BY <8>3
              <8>. QED  BY <8>1, <8>2, <8>3, <8>4
            <7>3. PICK b \in Nat, L \in Nat : b = WindowSize /\ L = Lap  BY Sizes
            <7>4. b + 1 <= L /\ T <= f + b  BY <1>7, <6>1, <7>1, <7>2, <7>3
            <7>. QED  BY <7>3, <7>4
          <6>4. k < n + Lap /\ n < k + Lap
            <7>1. PICK L \in Nat : L = Lap  BY Sizes
            <7>. QED  BY <6>2, <6>3, <7>1
          <6>. QED  BY <5>1, <6>2, <6>4, SeqNoSame
        <5>. QED  BY <1>1, <4>5, <5>2, <5>3 DEF Drop, receiverVars, ReceiveOutcome
      <4>. QED  BY <4>1, <4>2, <4>3, <4>4, <4>5
    <3>. QED  BY <3>7, <3>8
  <2>. QED  BY <2>2, <2>3
<1>. QED  BY <1>7, <1>11, <1>12

\* The channel's list after the packets that are whole have been taken.
Delivers(c, l) ==
  /\ \A x \in HaveOf(l) : x <= Done(c)' \/ x \in Kept(c)'
  /\ \A d \in Channels :
       /\ Len(delivered[d]) <= Len(delivered'[d]) /\ Len(delivered'[d]) <= queued[d]
       /\ Done(d) <= Done(d)' /\ Done(d)' <= started[d]
       /\ d # c => delivered'[d] = delivered[d]
  /\ \A d \in Channels, n \in Nat : Safe(d, n) => Safe(d, n)'

\* The list l of channel c gives k packets and keeps the others.
Gives(c, l, P, k) ==
  LET d == Len(delivered[c])
  IN  /\ d + k \in 0 .. Len(Ends[c]) /\ d + k <= queued[c] /\ Total(c, d + k) <= started[c]
      /\ \A j \in 1 .. k : P[j] = d + j /\ l[j].have = Fragments(c, d + j)
      /\ incoming' = [incoming EXCEPT ![c] = SeqNo(Total(c, d + k))]
      /\ held' = [held EXCEPT ![c] = SubSeq(l, k + 1, Len(l))]
      /\ delivered' = [delivered EXCEPT ![c] = [i \in 1 .. d + k |-> Fragments(c, i)]]

LEMMA DeliverIs ==
  ASSUME ChannelTypes, ListsInv, ReceiverInv, NEW c \in Channels, NEW l \in Seq(EntryType), NEW P,
         Waits(c, l, P, Len(delivered[c]), started[c]), Deliver(c, l)
  PROVE  \E k \in 0 .. Len(l) : Gives(c, l, P, k)
<1>1. PICK d \in 0 .. Len(Ends[c]) : d = Len(delivered[c])  BY DoneIs
<1>2. PICK k : k = Dispatch(l, SeqNo(Total(c, d)))  OBVIOUS
<1>3. Waits(c, l, P, d, started[c])  BY <1>1
<1>4. /\ k \in 0 .. Len(l) /\ d + k \in 0 .. Len(Ends[c])
      /\ \A j \in 1 .. k : P[j] = d + j /\ l[j].have = Fragments(c, d + j) /\ d + j \in Packets(c)
      /\ k > 0 => LastNo(l[k]) = SeqNo(Total(c, d + k))
  BY <1>2, <1>3, DispatchIs
<1>5. /\ incoming[c] = SeqNo(Total(c, d)) /\ Total(c, d) <= started[c]
      /\ delivered[c] = [i \in 1 .. d |-> Fragments(c, i)]
  BY <1>1 DEF ReceiverInv, Done
<1>6. k \in Nat /\ d \in Nat /\ Len(l) \in Nat  BY <1>4, TotalIs
<1>7. Total(c, d + k) <= started[c]
  <2>1. CASE k = 0  BY <1>5, <1>6, <2>1
  <2>2. CASE k > 0
    <3>1. l[k].have = Fragments(c, d + k) /\ d + k \in Packets(c) /\ k \in DOMAIN l  BY <1>4, <1>6, <2>2
    <3>2. l[k].have \subseteq 1 .. started[c]  BY <1>3, <3>1 DEF Waits, EntryOf
    <3>3. First(c, d + k) \in Nat /\ First(c, d + k) <= Total(c, d + k) /\ Total(c, d + k) \in Nat
      BY <3>1, PacketIs
    <3>4. Total(c, d + k) \in Fragments(c, d + k)  BY <3>3 DEF Fragments
    <3>. QED  BY <3>1, <3>2, <3>4
  <2>. QED  BY <1>6, <2>1, <2>2
<1>8. d + k <= queued[c]
  <2>1. queued[c] \in 0 .. Len(Ends[c]) /\ started[c] <= Total(c, queued[c]) /\ started[c] \in Nat
    BY DEF ChannelTypes, ListsInv
  <2>2. SUFFICES ASSUME queued[c] < d + k PROVE FALSE
    BY <1>6, <2>1, TotalIs
  <2>3. Total(c, queued[c]) < Total(c, d + k) /\ Total(c, queued[c]) \in Nat /\ Total(c, d + k) \in Nat
    BY <1>4, <2>1, <2>2, TotalIs
  <2>. QED  BY <1>7, <2>1, <2>3
<1>9. incoming' = [incoming EXCEPT ![c] = SeqNo(Total(c, d + k))]
  <2>1. incoming' = [incoming EXCEPT ![c] = IF k = 0 THEN incoming[c] ELSE LastNo(l[k])]
    BY <1>2, <1>5 DEF Deliver
  <2>2. PICK x : x = IF k = 0 THEN incoming[c] ELSE LastNo(l[k])  OBVIOUS
  <2>3. CASE k = 0
    <3>1. d + k = d  BY <1>6, <2>3
    <3>2. x = SeqNo(Total(c, d + k))  BY <1>5, <2>2, <2>3, <3>1
    <3>. QED  BY <2>1, <2>2, <3>2
  <2>4. CASE k > 0
    <3>1. x = SeqNo(Total(c, d + k))  BY <1>4, <1>6, <2>2, <2>4
    <3>. QED  BY <2>1, <2>2, <3>1
  <2>. QED  BY <1>6, <2>3, <2>4
<1>10. held' = [held EXCEPT ![c] = SubSeq(l, k + 1, Len(l))]
  BY <1>2, <1>5 DEF Deliver
<1>11. delivered' = [delivered EXCEPT ![c] = [i \in 1 .. d + k |-> Fragments(c, i)]]
  <2>1. PICK new : new = [i \in 1 .. k |-> l[i].have]  OBVIOUS
  <2>2. new \in Seq(SUBSET Nat) /\ Len(new) = k
    <3>1. \A i \in 1 .. k : l[i].have \in SUBSET Nat
      <4>1. \A i \in 1 .. k : l[i] \in EntryType  BY <1>4, <1>6
      <4>. QED  BY <4>1 DEF EntryType
    <3>. QED  BY <1>6, <2>1, <3>1
  <2>3. delivered' = [delivered EXCEPT ![c] = delivered[c] \o new]
    BY <1>2, <1>5, <2>1 DEF Deliver
  <2>4. delivered[c] \in Seq(SUBSET Nat)  BY DEF ChannelTypes
  <2>5. PICK old \in Seq(SUBSET Nat) : old = delivered[c] /\ Len(old) = d  BY <1>1, <2>4
  <2>6. /\ old \o new \in Seq(SUBSET Nat) /\ DOMAIN (old \o new) = 1 .. d + k
        /\ \A i \in 1 .. d : (old \o new)[i] = old[i]
        /\ \A i \in d + 1 .. d + k : (old \o new)[i] = new[i - d]
    <3>. DEFINE T == SUBSET Nat
    <3>1. new \in Seq(T) /\ Len(new) = k /\ old \in Seq(T) /\ Len(old) = d  BY <2>2, <2>5
    <3>. HIDE DEF T
    <3>2. /\ old \o new \in Seq(T) /\ DOMAIN (old \o new) = 1 .. d + k
          /\ \A i \in 1 .. d : (old \o new)[i] = old[i]
          /\ \A i \in d + 1 .. d + k : (old \o new)[i] = new[i - d]
      BY ONLY <1>6, <3>1, Joined
    <3>. QED  BY <3>2 DEF T
  <2>7. PICK both : both = old \o new  OBVIOUS
  <2>8. \A i \in 1 .. d + k : both[i] = Fragments(c, i)
    <3>. SUFFICES ASSUME NEW i \in 1 .. d + k PROVE both[i] = Fragments(c, i)
      OBVIOUS
    <3>1. CASE i <= d  BY <1>5, <1>6, <2>5, <2>6, <2>7, <3>1
    <3>2. CASE i > d
      <4>1. i - d \in 1 .. k /\ d + (i - d) = i /\ i \in d + 1 .. d + k  BY <1>6, <3>2
      <4>2. l[i - d].have = Fragments(c, d + (i - d))  BY <1>4, <4>1
      <4>3. both[i] = l[i - d].have  BY <2>1, <2>6, <2>7, <4>1
      <4>. QED  BY <4>1, <4>2, <4>3
    <3>. QED  BY <1>6, <3>1, <3>2
  <2>9. both \in Seq(SUBSET Nat) /\ DOMAIN both = 1 .. d + k  BY <2>6, <2>7
  <2>10. both = [i \in 1 .. d + k |-> both[i]]  BY ONLY <2>9
  <2>11. both = [i \in 1 .. d + k |-> Fragments(c, i)]  BY <2>8, <2>10, Zenon
  <2>. QED  BY <2>3, <2>5, <2>7, <2>11
<1>12. Gives(c, l, P, k)
  BY <1>1, <1>4, <1>7, <1>8, <1>9, <1>10, <1>11 DEF Gives
<1>. QED  BY <1>4, <1>12

LEMMA DeliverKeeps ==
  ASSUME ChannelTypes, ListsInv, ReceiverInv, NEW c \in Channels, NEW l \in Seq(EntryType), NEW P,
         Waits(c, l, P, Len(delivered[c]), started[c]), Kept(c) \subseteq HaveOf(l), Deliver(c, l),
         UNCHANGED <<queued, started>>
  PROVE  /\ incoming' \in [Channels -> 0 .. Lap - 1] /\ held' \in [Channels -> Seq(EntryType)]
         /\ delivered' \in [Channels -> Seq(SUBSET Nat)]
         /\ ReceiverInv' /\ Delivers(c, l)
<1>0. PICK k \in 0 .. Len(l) : Gives(c, l, P, k)  BY DeliverIs
<1>1. PICK d \in 0 .. Len(Ends[c]) :
           /\ d = Len(delivered[c]) /\ d + k \in 0 .. Len(Ends[c])
           /\ d + k <= queued[c] /\ Total(c, d + k) <= started[c]
           /\ \A j \in 1 .. k : P[j] = d + j /\ l[j].have = Fragments(c, d + j)
           /\ incoming' = [incoming EXCEPT ![c] = SeqNo(Total(c, d + k))]
           /\ held' = [held EXCEPT ![c] = SubSeq(l, k + 1, Len(l))]
           /\ delivered' = [delivered EXCEPT ![c] = [i \in 1 .. d + k |-> Fragments(c, i)]]
  <2>1. PICK d \in 0 .. Len(Ends[c]) : d = Len(delivered[c])  BY DoneIs
  <2>. QED  BY <1>0, <2>1 DEF Gives
<1>2. k \in Nat /\ d \in Nat /\ Len(l) \in Nat /\ Total(c, d) \in Nat /\ Total(c, d + k) \in Nat
  BY <1>1, TotalIs
<1>3. PICK rest : rest = SubSeq(l, k + 1, Len(l))  OBVIOUS
<1>4. /\ rest \in Seq(EntryType) /\ \E Q : Waits(c, rest, Q, d + k, started[c])
      /\ \A x \in HaveOf(l) : x \in HaveOf(rest) \/ \E j \in 1 .. k : x \in l[j].have
  <2>1. PICK s : s = started[c] /\ Waits(c, l, P, d, s) /\ \A j \in 1 .. k : P[j] = d + j  BY <1>1
  <2>2. rest \in Seq(EntryType)  BY <1>1, <1>3, <2>1, RestWaits
  <2>3. \E Q : Waits(c, rest, Q, d + k, s)  BY <1>1, <1>3, <2>1, RestWaits
  <2>4. ASSUME NEW x \in HaveOf(l) PROVE x \in HaveOf(rest) \/ \E j \in 1 .. k : x \in l[j].have
    BY <1>3, RestHas
  <2>. QED  BY <2>1, <2>2, <2>3, <2>4
<1>5. PICK all : all = [i \in 1 .. d + k |-> Fragments(c, i)]  OBVIOUS
<1>6. all \in Seq(SUBSET Nat) /\ Len(all) = d + k
  <2>1. \A i \in 1 .. d + k : Fragments(c, i) \in SUBSET Nat
    <3>1. ASSUME NEW i \in 1 .. d + k PROVE Fragments(c, i) \subseteq Nat
      <4>1. i \in Packets(c)  BY <1>1, <1>2 DEF Packets
      <4>. QED  BY <4>1, FragmentsIs
    <3>. QED  BY <3>1
  <2>. QED  BY <1>2, <1>5, <2>1
<1>7. /\ incoming' = [incoming EXCEPT ![c] = SeqNo(Total(c, d + k))]
      /\ held' = [held EXCEPT ![c] = rest] /\ delivered' = [delivered EXCEPT ![c] = all]
  BY <1>1, <1>3, <1>5
<1>8. SeqNo(Total(c, d + k)) \in 0 .. Lap - 1  BY <1>2, SeqNoTyped
<1>9. /\ incoming' \in [Channels -> 0 .. Lap - 1]
  BY <1>7, <1>8 DEF ChannelTypes
<1>10. held' \in [Channels -> Seq(EntryType)]  BY <1>4, <1>7 DEF ChannelTypes
<1>11. delivered' \in [Channels -> Seq(SUBSET Nat)]  BY <1>6, <1>7 DEF ChannelTypes
<1>12. incoming'[c] = SeqNo(Total(c, d + k)) /\ held'[c] = rest /\ delivered'[c] = all
  BY <1>7 DEF ChannelTypes
<1>13. \A b \in Channels : b # c =>
         incoming'[b] = incoming[b] /\ held'[b] = held[b] /\ delivered'[b] = delivered[b]
  BY <1>7 DEF ChannelTypes
<1>14. Done(c) = Total(c, d) /\ Done(c)' = Total(c, d + k)
  BY <1>1, <1>6, <1>12 DEF Done
<1>15. Total(c, d) <= Total(c, d + k)  BY <1>1, <1>2, TotalGrows
<1>16. \A b \in Channels : b # c => Done(b)' = Done(b) /\ Kept(b)' = Kept(b)
  BY <1>13 DEF Done, Kept
<1>17. Kept(c)' = HaveOf(rest)  BY <1>12 DEF Kept, HaveOf
<1>18. ASSUME NEW x \in HaveOf(l) PROVE x <= Total(c, d + k) \/ x \in HaveOf(rest)
  <2>1. SUFFICES ASSUME NEW j \in 1 .. k, x \in l[j].have PROVE x <= Total(c, d + k)
    BY <1>4
  <2>2. x \in Fragments(c, d + j) /\ d + j \in 0 .. Len(Ends[c]) /\ d + j <= d + k /\ j \in Nat /\ d + j \in Nat
    <3>1. j \in Nat /\ 1 <= j /\ j <= k  BY <1>2
    <3>2. x \in Fragments(c, d + j)  BY <1>1, <2>1
    <3>3. Len(Ends[c]) \in Nat /\ d + k <= Len(Ends[c])  BY <1>1, TotalIs
    <3>. QED  BY <1>2, <3>1, <3>2, <3>3
  <2>3. x \in Nat /\ x <= Total(c, d + j)
    <3>1. d + j \in Packets(c)  BY <1>1, <1>2, <2>2 DEF Packets
    <3>2. First(c, d + j) \in Nat /\ Total(c, d + j) \in Nat  BY <2>2, <3>1, PacketIs, TotalIs
    <3>. QED  BY <2>2, <3>2 DEF Fragments
  <2>4. Total(c, d + j) <= Total(c, d + k) /\ Total(c, d + j) \in Nat  BY <1>1, <2>2, TotalGrows
  <2>. QED  BY <1>2, <2>3, <2>4
<1>19. ReceiverInv'
  <2>1. ASSUME NEW b \in Channels
        PROVE  /\ Done(b)' <= started'[b] /\ incoming'[b] = SeqNo(Done(b)')
               /\ delivered'[b] = [i \in 1 .. Len(delivered'[b]) |-> Fragments(b, i)]
               /\ \E Q : Waits(b, held'[b], Q, Len(delivered'[b]), started'[b])
    <3>1. CASE b = c
      <4>1. Done(c)' <= started'[c] /\ incoming'[c] = SeqNo(Done(c)')  BY <1>1, <1>12, <1>14
      <4>2. delivered'[c] = [i \in 1 .. Len(delivered'[c]) |-> Fragments(c, i)]  BY <1>5, <1>6, <1>12
      <4>3. \E Q : Waits(c, held'[c], Q, Len(delivered'[c]), started'[c])  BY <1>4, <1>6, <1>12
      <4>. QED  BY <3>1, <4>1, <4>2, <4>3
    <3>2. CASE b # c  BY <1>13, <1>16, <3>2 DEF ReceiverInv
    <3>. QED  BY <3>1, <3>2
  <2>. QED  BY <2>1 DEF ReceiverInv
<1>20. ASSUME NEW b \in Channels
       PROVE  /\ Len(delivered[b]) <= Len(delivered'[b]) /\ Len(delivered'[b]) <= queued[b]
              /\ Done(b) <= Done(b)' /\ Done(b)' <= started[b]
              /\ b # c => delivered'[b] = delivered[b]
  <2>1. Len(delivered[b]) \in Nat /\ Done(b) \in Nat  BY DoneIs
  <2>2. CASE b = c  BY <1>1, <1>2, <1>6, <1>12, <1>14, <1>15, <2>2
  <2>3. CASE b # c
    <3>1. Len(delivered[b]) <= queued[b] /\ Done(b) <= started[b]  BY DEF ChannelTypes, ReceiverInv
    <3>2. delivered'[b] = delivered[b] /\ Done(b)' = Done(b)  BY <1>13, <1>16, <2>3
    <3>. QED  BY <2>1, <3>1, <3>2
  <2>. QED  BY <2>2, <2>3
<1>21. ASSUME NEW b \in Channels, NEW n \in Nat, Safe(b, n) PROVE Safe(b, n)'
  <2>1. CASE b = c
    <3>1. CASE n <= Total(c, d)
      <4>1. n <= Done(c)'  BY <1>2, <1>14, <1>15, <3>1
      <4>. QED  BY <2>1, <4>1 DEF Safe
    <3>2. CASE n \in Kept(c) /\ WindowNo(n) <= WindowNo(Total(c, d)) + Free - 2
      <4>1. n <= Total(c, d + k) \/ n \in HaveOf(rest)  BY <1>18, <3>2
      <4>2. WindowNo(Total(c, d)) <= WindowNo(Total(c, d + k)) /\ WindowNo(n) \in Nat
            /\ WindowNo(Total(c, d)) \in Nat /\ WindowNo(Total(c, d + k)) \in Nat
        BY <1>2, <1>15, WindowNoGrows, WindowNoIs
      <4>3. WindowNo(n) <= WindowNo(Total(c, d + k)) + Free - 2  BY <3>2, <4>2, Sizes
      <4>. QED  BY <1>14, <1>17, <2>1, <4>1, <4>3 DEF Safe
    <3>. QED  BY <1>14, <1>21, <2>1, <3>1, <3>2 DEF Safe
  <2>2. CASE b # c  BY <1>16, <1>21, <2>2 DEF Safe
  <2>. QED  BY <2>1, <2>2
<1>22. Delivers(c, l)
  <2>1. \A x \in HaveOf(l) : x <= Done(c)' \/ x \in Kept(c)'  BY <1>14, <1>17, <1>18
  <2>. QED  BY <1>20, <1>21, <2>1 DEF Delivers
<1>. QED  BY <1>9, <1>10, <1>11, <1>19, <1>22

\* What the receiver has grows, and it acknowledges nothing that it may lose.
LEMMA BooksGrow ==
  ASSUME ChannelTypes, SenderInv, UNCHANGED senderVars, UNCHANGED wire,
         \A d \in Channels, n \in Nat : Safe(d, n) => Safe(d, n)',
         \A d \in Channels : Done(d)' \in Nat /\ Done(d) <= Done(d)',
         \A a \in acks' : a \in acks \/ (a \in wire /\ Safe(a.ch, a.n)')
  PROVE  SenderInv'
<1>1. UNCHANGED <<queued, outgoing, sentCommands, started, reliableWindows, wire>>
  BY DEF senderVars
<1>2. ListsInv'  BY <1>1 DEF SenderInv, ListsInv, NewInOrder, Distinct
<1>3. \A d \in Channels : Outstanding(d)' = Outstanding(d)  BY <1>1 DEF Outstanding
<1>4. LateInv'
  <2>1. wire \subseteq Commands /\ acks \subseteq Commands  BY DEF ChannelTypes
  <2>2. \A m \in wire : /\ m.n <= started[m.ch] /\ started[m.ch] < m.n + Lap
                        /\ WindowNo(started[m.ch]) <= WindowNo(First(m.ch, Packet(m.ch, m.n))) + Free + 1
    BY DEF SenderInv, LateInv
  <2>3. ASSUME NEW a \in acks' PROVE a.n <= started[a.ch] /\ started[a.ch] < a.n + Lap /\ Safe(a.ch, a.n)'
    <3>1. CASE a \in acks
      <4>1. a.ch \in Channels /\ a.n \in Nat  BY <2>1, <3>1, CommandIs
      <4>2. a.n <= started[a.ch] /\ started[a.ch] < a.n + Lap /\ Safe(a.ch, a.n)
        BY <3>1 DEF SenderInv, LateInv
      <4>. QED  BY <4>1, <4>2
    <3>2. CASE a \in wire /\ Safe(a.ch, a.n)'  BY <2>2, <3>2
    <3>. QED  BY <3>1, <3>2
  <2>. QED  BY <1>1, <2>2, <2>3 DEF LateInv
<1>5. ForgottenInv'
  <2>1. ASSUME NEW c \in Channels, NEW n \in 1 .. started[c]
        PROVE  [ch |-> c, n |-> n] \in Outstanding(c) \/ Safe(c, n)'
    <3>1. n \in Nat  BY DoneIs
    <3>2. [ch |-> c, n |-> n] \in Outstanding(c) \/ Safe(c, n)  BY DEF SenderInv, ForgottenInv
    <3>. QED  BY <3>1, <3>2
  <2>. QED  BY <1>1, <1>3, <2>1 DEF ForgottenInv
<1>6. SpreadInv'
  <2>1. ASSUME NEW c \in Channels
        PROVE  /\ \A m \in Outstanding(c) : WindowNo(started[c]) <= WindowNo(m.n) + Free
               /\ WindowNo(started[c]) <= WindowNo(Done(c)') + Free - 1
    <3>1. /\ \A m \in Outstanding(c) : WindowNo(started[c]) <= WindowNo(m.n) + Free
          /\ WindowNo(started[c]) <= WindowNo(Done(c)) + Free - 1
      BY DEF SenderInv, SpreadInv
    <3>2. PICK x \in Nat : x = Done(c)'  OBVIOUS
    <3>3. Done(c) \in Nat /\ Done(c) <= x  BY <3>2, DoneIs
    <3>4. WindowNo(Done(c)) <= WindowNo(x) /\ WindowNo(x) \in Nat /\ WindowNo(Done(c)) \in Nat
          /\ WindowNo(started[c]) \in Nat
      BY <3>3, WindowNoGrows, WindowNoIs, DoneIs
    <3>5. WindowNo(started[c]) <= WindowNo(x) + Free - 1  BY <3>1, <3>4, Sizes
    <3>. QED  BY <3>1, <3>2, <3>5
  <2>2. started' = started  BY <1>1
  <2>. QED  BY <1>3, <2>1, <2>2 DEF SpreadInv, WindowNo
<1>7. WindowsCounted'
  BY <1>1, <1>3 DEF SenderInv, WindowsCounted
<1>. QED  BY <1>2, <1>4, <1>5, <1>6, <1>7 DEF SenderInv

\* What the receiver acknowledges it has.
LEMMA AckIsSafe ==
  ASSUME NEW D \in Nat, NEW n \in Nat, NEW s \in Nat, n <= s, NEW e \in Nat, NEW K,
         WindowNo(s) <= WindowNo(e) + Free - 1, e <= D, ~ RefusesAck(SeqNo(n), SeqNo(D)),
         NEW f \in Nat, f <= n,
         n <= D \/ n \in K \/ ~(WindowNo(f) <= WindowNo(D) + Free - 2)
  PROVE  n <= D \/ (n \in K /\ WindowNo(n) <= WindowNo(D) + Free - 2)
<1>1. /\ WindowNo(e) <= WindowNo(D) /\ WindowNo(f) <= WindowNo(n)
      /\ WindowNo(e) \in Nat /\ WindowNo(D) \in Nat /\ WindowNo(f) \in Nat /\ WindowNo(n) \in Nat
      /\ WindowNo(s) \in Nat
  BY WindowNoGrows, WindowNoIs
<1>2. WindowNo(s) <= WindowNo(D) + Free - 1  BY <1>1, Sizes
<1>3. n <= D \/ WindowNo(n) <= WindowNo(D) + Free - 2  BY <1>2, NotRefused
<1>4. WindowNo(n) <= WindowNo(D) + Free - 2 => WindowNo(f) <= WindowNo(D) + Free - 2
  BY <1>1, Sizes
<1>. QED  BY <1>3, <1>4

\* A channel delivers no less and no more than it was given.
DeliversMore(c) ==
  /\ UNCHANGED queued
  /\ \A d \in Channels :
       /\ Len(delivered[d]) <= Len(delivered'[d]) /\ Len(delivered'[d]) <= queued[d]
       /\ d # c => delivered'[d] = delivered[d]

LEMMA ReceiveKeepsBooks ==
  ASSUME ChannelTypes, SenderInv, ReceiverInv, NEW m \in wire, Receive(m)
  PROVE  ChannelTypes' /\ SenderInv' /\ ReceiverInv' /\ DeliversMore(m.ch)
<1>1. PICK c \in Channels, n \in Nat, f \in Nat :
        /\ c = m.ch /\ n = m.n /\ m = [ch |-> c, n |-> n] /\ f = First(c, Packet(c, n)) /\ f <= n
        /\ m \in Commands
  <2>1. m \in Commands  BY DEF ChannelTypes
  <2>. QED  BY <2>1, FirstIs, CommandIs
<1>2. UNCHANGED senderVars /\ UNCHANGED wire  BY DEF Receive
<1>3. UNCHANGED <<queued, outgoing, sentCommands, started, reliableWindows, wire>>
  BY <1>2 DEF senderVars
<1>4. ReceiveOutcome(c, n)  BY <1>1, ReceiveIs
<1>5. PICK s \in Nat, e \in Nat : s = started[c] /\ e = Done(c) /\ n <= s /\ WindowNo(s) <= WindowNo(e) + Free - 1
  <2>1. started[c] \in Nat /\ Done(c) \in Nat  BY DoneIs
  <2>2. n <= started[c]  BY <1>1 DEF SenderInv, LateInv
  <2>3. WindowNo(started[c]) <= WindowNo(Done(c)) + Free - 1  BY DEF SenderInv, SpreadInv
  <2>. QED  BY <2>1, <2>2, <2>3
<1>6. ASSUME incoming' \in [Channels -> 0 .. Lap - 1], held' \in [Channels -> Seq(EntryType)],
             delivered' \in [Channels -> Seq(SUBSET Nat)], ReceiverInv',
             DeliversMore(c), acks' \subseteq acks \cup {m},
             \A d \in Channels : Done(d)' \in Nat /\ Done(d) <= Done(d)',
             \A d \in Channels, x \in Nat : Safe(d, x) => Safe(d, x)',
             m \in acks' => m \in acks \/ Safe(c, n)'
      PROVE  ChannelTypes' /\ SenderInv' /\ ReceiverInv' /\ DeliversMore(m.ch)
  <2>1. SenderInv'
    <3>1. \A a \in acks' : a \in acks \/ (a \in wire /\ Safe(a.ch, a.n)')  BY <1>1, <1>6
    <3>. QED  BY <1>2, <1>6, <3>1, BooksGrow
  <2>2. ChannelTypes'
    <3>1. acks' \subseteq Commands  BY <1>1, <1>6 DEF ChannelTypes
    <3>2. \A d \in Channels : Len(delivered'[d]) <= queued'[d]  BY <1>6 DEF DeliversMore
    <3>. QED  BY <1>3, <1>6, <3>1, <3>2 DEF ChannelTypes
  <2>. QED  BY <1>1, <1>6, <2>1, <2>2
<1>7. incoming[c] = SeqNo(e)  BY <1>5 DEF ReceiverInv
<1>8. ASSUME UNCHANGED <<incoming, held, delivered>>
      PROVE  /\ incoming' \in [Channels -> 0 .. Lap - 1] /\ held' \in [Channels -> Seq(EntryType)]
             /\ delivered' \in [Channels -> Seq(SUBSET Nat)] /\ ReceiverInv' /\ DeliversMore(c)
             /\ \A d \in Channels : Done(d)' \in Nat /\ Done(d) <= Done(d)'
             /\ \A d \in Channels, x \in Nat : Safe(d, x) => Safe(d, x)'
             /\ Safe(c, n)' <=> Safe(c, n)
  <2>1. \A d \in Channels : Done(d)' = Done(d) /\ Kept(d)' = Kept(d)  BY <1>8 DEF Done, Kept
  <2>2. \A d \in Channels, x \in Nat : Safe(d, x)' <=> Safe(d, x)  BY <2>1 DEF Safe
  <2>3. ReceiverInv'  BY <1>3, <1>8, <2>1 DEF ReceiverInv
  <2>4. \A d \in Channels : Done(d)' \in Nat /\ Done(d) <= Done(d)'  BY <2>1, DoneIs
  <2>5. DeliversMore(c)
    <3>1. \A d \in Channels : Len(delivered[d]) \in Nat /\ Len(delivered[d]) <= queued[d]
      BY DoneIs DEF ChannelTypes
    <3>. QED  BY <1>3, <1>8, <3>1 DEF DeliversMore
  <2>6. /\ incoming' \in [Channels -> 0 .. Lap - 1] /\ held' \in [Channels -> Seq(EntryType)]
        /\ delivered' \in [Channels -> Seq(SUBSET Nat)]
    BY <1>8 DEF ChannelTypes
  <2>. QED  BY <2>2, <2>3, <2>4, <2>5, <2>6
<1>9. CASE UNCHANGED <<incoming, held, delivered, acks>>
  <2>1. m \in acks' => m \in acks  BY <1>9
  <2>2. acks' \subseteq acks \cup {m}  BY <1>9
  <2>. QED  BY <1>6, <1>8, <1>9, <2>1, <2>2
<1>10. CASE /\ UNCHANGED <<incoming, held, delivered>> /\ Acknowledge(c, n)
            /\ n <= Done(c) \/ n \in Kept(c) \/ ~(WindowNo(First(c, Packet(c, n))) <= WindowNo(Done(c)) + Free - 2)
  <2>1. acks' = IF RefusesAck(SeqNo(n), SeqNo(e)) THEN acks ELSE acks \cup {m}
    BY <1>1, <1>7, <1>10 DEF Acknowledge
  <2>2. ~RefusesAck(SeqNo(n), SeqNo(e)) => Safe(c, n)
    <3>1. n <= e \/ n \in Kept(c) \/ ~(WindowNo(f) <= WindowNo(e) + Free - 2)  BY <1>1, <1>5, <1>10
    <3>2. PICK K : K = Kept(c)  OBVIOUS
    <3>3. ~RefusesAck(SeqNo(n), SeqNo(e)) => n <= e \/ (n \in K /\ WindowNo(n) <= WindowNo(e) + Free - 2)
      BY <1>1, <1>5, <3>1, <3>2, AckIsSafe
    <3>. QED  BY <1>5, <3>2, <3>3 DEF Safe
  <2>3. m \in acks' => m \in acks \/ Safe(c, n)'  BY <1>8, <1>10, <2>1, <2>2
  <2>4. acks' \subseteq acks \cup {m}  BY <2>1
  <2>. QED  BY <1>6, <1>8, <1>10, <2>3, <2>4
<1>11. ASSUME NEW l \in Seq(EntryType), HaveOf(l) = Kept(c) \cup {n}, Keep(c, n, l),
              \E P : Waits(c, l, P, Len(delivered[c]), started[c])
       PROVE  ChannelTypes' /\ SenderInv' /\ ReceiverInv' /\ DeliversMore(m.ch)
  <2>1. PICK P : Waits(c, l, P, Len(delivered[c]), started[c])  BY <1>11
  <2>2. Deliver(c, l) /\ Acknowledge(c, n) /\ Kept(c) \subseteq HaveOf(l)  BY <1>11 DEF Keep
  <2>3. /\ incoming' \in [Channels -> 0 .. Lap - 1] /\ held' \in [Channels -> Seq(EntryType)]
        /\ delivered' \in [Channels -> Seq(SUBSET Nat)]
        /\ ReceiverInv' /\ Delivers(c, l)
    <3>1. ListsInv /\ UNCHANGED <<queued, started>>  BY <1>3 DEF SenderInv
    <3>. QED  BY <2>1, <2>2, <3>1, DeliverKeeps
  <2>4. DeliversMore(c)  BY <1>3, <2>3 DEF Delivers, DeliversMore
  <2>5. ASSUME NEW d \in Channels PROVE Done(d)' \in Nat /\ Done(d) <= Done(d)'
    <3>1. Done(d) <= Done(d)' /\ Len(delivered[d]) <= Len(delivered'[d]) /\ Len(delivered'[d]) <= queued[d]
      BY <2>3 DEF Delivers
    <3>2. PICK x : x = Len(delivered'[d])  OBVIOUS
    <3>3. x \in Nat
      <4>1. delivered'[d] \in Seq(SUBSET Nat)  BY <2>3
      <4>. QED  BY <3>2, <4>1
    <3>4. queued[d] \in 0 .. Len(Ends[d]) /\ Len(Ends[d]) \in Nat  BY TotalIs DEF ChannelTypes
    <3>5. x \in 0 .. Len(Ends[d])  BY <3>1, <3>2, <3>3, <3>4
    <3>6. Total(d, x) \in Nat  BY <3>5, TotalIs
    <3>7. Done(d)' = Total(d, x)  BY <3>2 DEF Done
    <3>. QED  BY <3>1, <3>6, <3>7
  <2>6. PICK D \in Nat : D = Done(c)' /\ e <= D  BY <1>5, <2>5
  <2>7. incoming'[c] = SeqNo(D)  BY <2>3, <2>6 DEF ReceiverInv
  <2>8. acks' = IF RefusesAck(SeqNo(n), SeqNo(D)) THEN acks ELSE acks \cup {m}
    BY <1>1, <2>2, <2>7 DEF Acknowledge
  <2>9. ~RefusesAck(SeqNo(n), SeqNo(D)) => Safe(c, n)'
    <3>1. PICK K : K = Kept(c)'  OBVIOUS
    <3>2. n <= D \/ n \in K  BY <1>11, <2>3, <2>6, <3>1 DEF Delivers
    <3>3. ~RefusesAck(SeqNo(n), SeqNo(D)) => n <= D \/ (n \in K /\ WindowNo(n) <= WindowNo(D) + Free - 2)
      BY <1>1, <1>5, <2>6, <3>2, AckIsSafe
    <3>. QED  BY <2>6, <3>1, <3>3 DEF Safe
  <2>10. \A d \in Channels, x \in Nat : Safe(d, x) => Safe(d, x)'  BY <2>3 DEF Delivers
  <2>11. (m \in acks' => m \in acks \/ Safe(c, n)') /\ acks' \subseteq acks \cup {m}  BY <2>8, <2>9
  <2>. QED  BY <1>6, <2>3, <2>4, <2>5, <2>10, <2>11
<1>. QED  BY <1>4, <1>9, <1>10, <1>11 DEF ReceiveOutcome

-----------------------------------------------------------------------------
(* The channels.                                                           *)

ChannelInv == ChannelTypes /\ SenderInv /\ ReceiverInv

LEMMA SenderKeepsReceiver ==
  ASSUME ChannelTypes, ReceiverInv, UNCHANGED <<incoming, held, delivered>>,
         \A d \in Channels : started'[d] \in Nat /\ started[d] <= started'[d]
  PROVE  ReceiverInv'
<1>1. ASSUME NEW c \in Channels
      PROVE  /\ Done(c)' <= started'[c] /\ incoming'[c] = SeqNo(Done(c)')
             /\ delivered'[c] = [i \in 1 .. Len(delivered'[c]) |-> Fragments(c, i)]
             /\ \E P : Waits(c, held'[c], P, Len(delivered'[c]), started'[c])
  <2>1. Done(c)' = Done(c)  BY DEF Done
  <2>2. /\ Done(c) <= started[c] /\ incoming[c] = SeqNo(Done(c))
        /\ delivered[c] = [i \in 1 .. Len(delivered[c]) |-> Fragments(c, i)]
    BY DEF ReceiverInv
  <2>3. Done(c) \in Nat /\ started[c] \in Nat  BY DoneIs
  <2>4. PICK P, l, d : l = held[c] /\ d = Len(delivered[c]) /\ Waits(c, l, P, d, started[c])
    BY DEF ReceiverInv
  <2>5. 1 .. started[c] \subseteq 1 .. started'[c]  BY <2>3
  <2>6. Waits(c, l, P, d, started'[c])
    <3>1. \A i \in DOMAIN l : EntryOf(c, l[i], P[i], started'[c])
      BY <2>4, <2>5 DEF Waits, EntryOf
    <3>. QED  BY <2>4, <3>1 DEF Waits
  <2>7. Done(c)' <= started'[c]  BY <2>1, <2>2, <2>3
  <2>. QED  BY <2>1, <2>2, <2>4, <2>6, <2>7
<1>. QED  BY <1>1 DEF ReceiverInv

LEMMA ChannelInitial == ChannelInit => ChannelInv
<1>. SUFFICES ASSUME ChannelInit PROVE ChannelInv
  OBVIOUS
<1>1. \A c \in Channels : /\ queued[c] = 0 /\ started[c] = 0 /\ incoming[c] = 0
                          /\ held[c] = <<>> /\ delivered[c] = <<>> /\ Len(delivered[c]) = 0
  BY DEF ChannelInit
<1>2. 0 \in Nat /\ Lap \in Nat \ {0} /\ 0 \in 0 .. Lap - 1
  BY Sizes
<1>3. ToSet(outgoing) = {} /\ ToSet(sentCommands) = {} /\ wire = {} /\ acks = {}
  BY DEF ChannelInit, ToSet
<1>4. \A c \in Channels : Total(c, 0) = 0 /\ Done(c) = 0
  BY <1>1, TotalIs DEF Done
<1>5. ChannelTypes
  <2>1. \A c \in Channels : queued[c] \in 0 .. Len(Ends[c]) /\ Len(delivered[c]) <= queued[c]
    BY <1>1, TotalIs
  <2>2. <<>> \in Seq(Commands) /\ <<>> \in Seq(EntryType) /\ <<>> \in Seq(SUBSET Nat)
    OBVIOUS
  <2>3. queued \in [Channels -> Nat] /\ started \in [Channels -> Nat]
        /\ incoming \in [Channels -> 0 .. Lap - 1]
        /\ reliableWindows \in [Channels -> [0 .. Windows - 1 -> Nat]]
    BY <1>2 DEF ChannelInit
  <2>4. held \in [Channels -> Seq(EntryType)] /\ delivered \in [Channels -> Seq(SUBSET Nat)]
    BY <2>2 DEF ChannelInit
  <2>5. outgoing \in Seq(Commands) /\ sentCommands \in Seq(Commands)
    BY <2>2 DEF ChannelInit
  <2>6. wire \in SUBSET Commands /\ acks \in SUBSET Commands  BY <1>3
  <2>. QED  BY <2>1, <2>3, <2>4, <2>5, <2>6 DEF ChannelTypes
<1>6. \A c \in Channels : Outstanding(c) = {}  BY <1>3 DEF Outstanding
<1>7. SenderInv
  <2>1. ListsInv
    <3>1. Distinct(outgoing) /\ Distinct(sentCommands) /\ NewInOrder
      BY DEF ChannelInit, Distinct, NewInOrder
    <3>2. \A c \in Channels :
            /\ started[c] <= Total(c, queued[c])
            /\ \A n \in started[c] + 1 .. Total(c, queued[c]) : [ch |-> c, n |-> n] \in ToSet(outgoing)
      BY <1>1, <1>4
    <3>. QED  BY <1>3, <3>1, <3>2 DEF ListsInv
  <2>2. LateInv  BY <1>3 DEF LateInv
  <2>3. ForgottenInv  BY <1>1 DEF ForgottenInv
  <2>4. SpreadInv
    <3>1. ASSUME NEW c \in Channels PROVE WindowNo(started[c]) <= WindowNo(Done(c)) + Free - 1
      <4>1. started[c] = 0 /\ Done(c) = 0 /\ WindowNo(0) \in Nat  BY <1>1, <1>2, <1>4, WindowNoIs
      <4>. QED  BY <4>1, Sizes
    <3>. QED  BY <1>6, <3>1 DEF SpreadInv
  <2>5. WindowsCounted
    <3>1. ASSUME NEW c \in Channels, NEW w \in 0 .. Windows - 1
          PROVE  reliableWindows[c][w] = Cardinality({m \in Outstanding(c) : Window(SeqNo(m.n)) = w})
      <4>1. reliableWindows[c][w] = 0  BY DEF ChannelInit
      <4>2. {m \in Outstanding(c) : Window(SeqNo(m.n)) = w} = {}  BY <1>6
      <4>. QED  BY <4>1, <4>2, FS_EmptySet
    <3>. QED  BY <3>1 DEF WindowsCounted
  <2>. QED  BY <2>1, <2>2, <2>3, <2>4, <2>5 DEF SenderInv
<1>8. ReceiverInv
  <2>1. ASSUME NEW c \in Channels
        PROVE  /\ Done(c) <= started[c] /\ incoming[c] = SeqNo(Done(c))
               /\ delivered[c] = [i \in 1 .. Len(delivered[c]) |-> Fragments(c, i)]
               /\ \E P : Waits(c, held[c], P, Len(delivered[c]), started[c])
    <3>1. SeqNo(0) = 0
      <4>1. PICK t \in Nat : SeqNo(0) \in 0 .. Lap - 1 /\ 0 = Lap * t + SeqNo(0)  BY <1>2, SeqNoIs
      <4>2. PICK L \in Nat \ {0}, x \in Nat : L = Lap /\ x = SeqNo(0) /\ 0 = L * t + x  BY <1>2, <4>1
      <4>3. L * t \in Nat  BY <4>2
      <4>. QED  BY <4>2, <4>3
    <3>2. delivered[c] = [i \in 1 .. Len(delivered[c]) |-> Fragments(c, i)]
      <4>1. <<>> = [i \in 1 .. 0 |-> Fragments(c, i)]  OBVIOUS
      <4>. QED  BY <1>1, <4>1
    <3>3. Waits(c, held[c], <<>>, Len(delivered[c]), started[c])
      <4>1. held[c] = <<>> /\ DOMAIN held[c] = {}  BY <1>1
      <4>2. <<>> \in [DOMAIN held[c] -> Len(delivered[c]) + 1 .. Len(Ends[c])]  BY <4>1
      <4>. QED  BY <4>1, <4>2 DEF Waits
    <3>. QED  BY <1>1, <1>4, <3>1, <3>2, <3>3
  <2>. QED  BY <2>1 DEF ReceiverInv
<1>. QED  BY <1>5, <1>7, <1>8 DEF ChannelInv

\* A packet is given to channel c.
Given(c) == queued' = [queued EXCEPT ![c] = @ + 1] /\ UNCHANGED delivered

LEMMA ChannelStep ==
  ASSUME ChannelInv, [ChannelNext]_channelVars
  PROVE  /\ ChannelInv'
         /\ \/ UNCHANGED <<queued, delivered>>
            \/ \E c \in Channels : Given(c)
            \/ \E c \in Channels : DeliversMore(c)
<1>. USE DEF ChannelInv
<1>1. \A d \in Channels : started[d] \in Nat  BY DoneIs
<1>2. ASSUME NEW c \in Channels, Send(c)
      PROVE  ChannelInv' /\ Given(c)
  <2>1. ChannelTypes' /\ SenderInv' /\ UNCHANGED <<started, incoming, held, delivered>>
    BY <1>2, SendKeepsBooks
  <2>2. \A d \in Channels : started'[d] \in Nat /\ started[d] <= started'[d]  BY <1>1, <2>1
  <2>3. ReceiverInv'  BY <2>1, <2>2, SenderKeepsReceiver
  <2>4. Given(c)  BY <1>2, <2>1 DEF Send, Given
  <2>. QED  BY <2>1, <2>3, <2>4
<1>3. ASSUME Transmit PROVE ChannelInv' /\ UNCHANGED <<queued, delivered>>
  <2>1. ChannelTypes' /\ SenderInv' /\ UNCHANGED <<queued, incoming, held, delivered>>
        /\ \A d \in Channels : started[d] <= started'[d]
    BY <1>3, TransmitKeepsSender
  <2>2. \A d \in Channels : started'[d] \in Nat  BY <2>1 DEF ChannelTypes
  <2>3. ReceiverInv'  BY <2>1, <2>2, SenderKeepsReceiver
  <2>. QED  BY <2>1, <2>3
<1>4. ASSUME NEW S, Timeout(S) PROVE ChannelInv' /\ UNCHANGED <<queued, delivered>>
  <2>1. ChannelTypes' /\ SenderInv' /\ UNCHANGED <<queued, started, incoming, held, delivered>>
    BY <1>4, TimeoutKeepsBooks
  <2>2. \A d \in Channels : started'[d] \in Nat /\ started[d] <= started'[d]  BY <1>1, <2>1
  <2>3. ReceiverInv'  BY <2>1, <2>2, SenderKeepsReceiver
  <2>. QED  BY <2>1, <2>3
<1>5. ASSUME NEW a \in acks, GotAck(a) PROVE ChannelInv' /\ UNCHANGED <<queued, delivered>>
  <2>1. ChannelTypes' /\ SenderInv' /\ UNCHANGED <<queued, started, incoming, held, delivered>>
    BY <1>5, GotAckKeepsBooks
  <2>2. \A d \in Channels : started'[d] \in Nat /\ started[d] <= started'[d]  BY <1>1, <2>1
  <2>3. ReceiverInv'  BY <2>1, <2>2, SenderKeepsReceiver
  <2>. QED  BY <2>1, <2>3
<1>6. ASSUME NEW m \in wire, Receive(m) PROVE ChannelInv' /\ DeliversMore(m.ch) /\ m.ch \in Channels
  <2>1. m.ch \in Channels  BY CommandIs DEF ChannelTypes
  <2>. QED  BY <1>6, <2>1, ReceiveKeepsBooks
<1>7. ASSUME UNCHANGED channelVars PROVE ChannelInv' /\ UNCHANGED <<queued, delivered>>
  <2>1. UNCHANGED <<queued, outgoing, sentCommands, started, reliableWindows, wire, acks, incoming, held, delivered>>
    BY <1>7 DEF channelVars, senderVars, receiverVars
  <2>2. ChannelTypes'  BY <2>1 DEF ChannelTypes
  <2>3. SenderInv'
    <3>1. \A d \in Channels : Done(d)' = Done(d) /\ Kept(d)' = Kept(d)  BY <2>1 DEF Done, Kept
    <3>2. \A d \in Channels, n \in Nat : Safe(d, n) => Safe(d, n)'  BY <3>1 DEF Safe
    <3>3. \A d \in Channels : Done(d)' \in Nat /\ Done(d) <= Done(d)'  BY <3>1, DoneIs
    <3>. QED  BY <2>1, <3>2, <3>3, BooksGrow DEF senderVars
  <2>4. \A d \in Channels : started'[d] \in Nat /\ started[d] <= started'[d]  BY <1>1, <2>1
  <2>5. ReceiverInv'  BY <2>1, <2>4, SenderKeepsReceiver
  <2>. QED  BY <2>1, <2>2, <2>3, <2>5
<1>. HIDE DEF ChannelInv
<1>. QED  BY <1>2, <1>3, <1>4, <1>5, <1>6, <1>7 DEF ChannelNext

LEMMA ChannelInvariant == ChannelSpec => []ChannelInv
<1>1. ChannelInv /\ [ChannelNext]_channelVars => ChannelInv'  BY ChannelStep
<1>. QED  BY <1>1, ChannelInitial, PTL DEF ChannelSpec

\* Of the commands that count for one window all are in the same: no two
\* outstanding ones are a round of the windows apart.
LEMMA WindowBound ==
  ASSUME ChannelTypes, SpreadInv, NEW c \in Channels, NEW w \in 0 .. Windows - 1
  PROVE  Cardinality(InWindow(Outstanding(c), w)) \in 0 .. WindowSize
<1>. DEFINE S == InWindow(Outstanding(c), w)
<1>1. IsFiniteSet(S) /\ Cardinality(S) \in Nat  BY OutstandingFinite, FS_CardinalityType
<1>2. CASE S = {}
  <2>1. Cardinality(S) = 0  BY <1>2, FS_EmptySet
  <2>. QED  BY <2>1, Sizes
<1>3. CASE S # {}
  <2>. DEFINE Within(m) == /\ m \in Outstanding(c) /\ m = [ch |-> c, n |-> m.n] /\ m.n \in Nat
                           /\ WindowNo(m.n) \in Nat /\ WindowNo(m.n) % Windows = w
                           /\ WindowNo(m.n) <= WindowNo(started[c])
                           /\ WindowNo(started[c]) <= WindowNo(m.n) + Free
  <2>1. ASSUME NEW m \in S PROVE Within(m)
    <3>1. m \in Outstanding(c) /\ Window(SeqNo(m.n)) = w  BY DEF InWindow
    <3>2. m = [ch |-> c, n |-> m.n] /\ m.n \in Nat /\ m.n <= started[c]  BY <3>1, OutstandingIs
    <3>3. started[c] \in Nat  BY DoneIs
    <3>4. WindowNo(m.n) <= WindowNo(started[c]) /\ WindowNo(m.n) \in Nat
      BY <3>2, <3>3, WindowNoGrows, WindowNoIs
    <3>5. WindowNo(m.n) % Windows = w  BY <3>1, <3>2, SeqNoPhase
    <3>6. WindowNo(started[c]) <= WindowNo(m.n) + Free  BY <3>1 DEF SpreadInv
    <3>. QED  BY <3>1, <3>2, <3>4, <3>5, <3>6
  <2>2. PICK l \in S : TRUE  BY <1>3
  <2>3. PICK W \in Nat : W = WindowNo(l.n) /\ Within(l)  BY <2>1
  <2>4. ASSUME NEW m \in S PROVE WindowNo(m.n) = W
    <3>1. PICK V \in Nat : V = WindowNo(m.n) /\ V % Windows = w
      BY <2>1
    <3>2. PICK s \in Nat : s = WindowNo(started[c])  BY DoneIs
    <3>3. V <= s /\ s <= V + Free /\ W <= s /\ s <= W + Free /\ W % Windows = w
      BY <2>1, <2>3, <3>1, <3>2
    <3>4. V < W + Windows /\ W < V + Windows  BY <3>3, Sizes
    <3>5. CASE V <= W  BY <3>1, <3>3, <3>4, <3>5, Sizes, ModClose
    <3>6. CASE W <= V  BY <3>1, <3>3, <3>4, <3>6, Sizes, ModClose
    <3>. QED  BY <3>1, <3>5, <3>6
  <2>5. PICK x \in Nat, b \in Nat \ {0} : x = WindowSize * W /\ b = WindowSize  BY Sizes
  <2>. DEFINE f == [m \in S |-> m.n]
              I == x .. x + b - 1
  <2>6. ASSUME NEW m \in S PROVE m.n \in I
    <3>1. WindowNo(m.n) = W /\ m.n \in Nat  BY <2>1, <2>4
    <3>2. WindowSize * W <= m.n /\ m.n < WindowSize * W + WindowSize  BY <3>1, WindowNoIs
    <3>. QED  BY <2>5, <3>1, <3>2
  <2>7. f \in Injection(S, I)
    <3>1. f \in [S -> I]  BY <2>6
    <3>2. ASSUME NEW m \in S, NEW k \in S, f[m] = f[k] PROVE m = k
      <4>1. m.n = k.n  BY <3>2
      <4>2. m = [ch |-> c, n |-> m.n] /\ k = [ch |-> c, n |-> k.n]  BY <2>1
      <4>. QED  BY <4>1, <4>2
    <3>. HIDE DEF f
    <3>. QED  BY <3>1, <3>2 DEF Injection, IsInjective
  <2>8. IsFiniteSet(I) /\ Cardinality(I) = b
    <3>1. x \in Int /\ x + b - 1 \in Int /\ x <= x + b - 1  BY <2>5
    <3>2. IsFiniteSet(I) /\ Cardinality(I) = (x + b - 1) - x + 1  BY <3>1, FS_Interval
    <3>. QED  BY <2>5, <3>2
  <2>9. Cardinality(S) <= Cardinality(I)  BY <2>7, <2>8, FS_Injection
  <2>. QED  BY <1>1, <2>5, <2>8, <2>9
<1>. QED  BY <1>2, <1>3

\* What the connection keeps true makes it safe.
LEMMA InvIsSafe == ChannelInv => ChannelSafe
<1>. SUFFICES ASSUME ChannelInv PROVE ChannelSafe
  OBVIOUS
<1>1. ChannelTypes /\ SenderInv /\ ReceiverInv /\ ListsInv /\ SpreadInv /\ ForgottenInv /\ WindowsCounted
  BY DEF ChannelInv, SenderInv
<1>2. ChannelTypeOK
  <2>1. ASSUME NEW c \in Channels PROVE reliableWindows[c] \in [0 .. Windows - 1 -> 0 .. WindowSize]
    <3>1. reliableWindows[c] \in [0 .. Windows - 1 -> Nat]  BY <1>1 DEF ChannelTypes
    <3>2. ASSUME NEW w \in 0 .. Windows - 1 PROVE reliableWindows[c][w] \in 0 .. WindowSize
      <4>1. reliableWindows[c][w] = Cardinality(InWindow(Outstanding(c), w))
        BY <1>1 DEF WindowsCounted, InWindow
      <4>. QED  BY <1>1, <4>1, WindowBound
    <3>. QED  BY <3>1, <3>2
  <2>2. \A c \in Channels : \A i \in DOMAIN held[c] : held[c][i].have \subseteq 1 .. started[c]
    BY <1>1 DEF ReceiverInv, Waits, EntryOf
  <2>3. ToSet(outgoing) \subseteq Commands /\ ToSet(sentCommands) \subseteq Commands
    BY <1>1, InLists DEF ChannelTypes
  <2>4. \A c \in Channels : queued[c] \in 0 .. Len(Ends[c]) /\ incoming[c] \in 0 .. Windows * WindowSize - 1
    BY <1>1 DEF ChannelTypes, Lap
  <2>5. wire \subseteq Commands /\ acks \subseteq Commands  BY <1>1 DEF ChannelTypes
  <2>6. ToSet(outgoing) \cap ToSet(sentCommands) = {}  BY <1>1 DEF ListsInv
  <2>. QED  BY <2>1, <2>2, <2>3, <2>4, <2>5, <2>6 DEF ChannelTypeOK
<1>3. PacketsInOrder  BY <1>1 DEF PacketsInOrder, ReceiverInv
<1>4. NothingForgotten
  <2>. SUFFICES ASSUME NEW m \in Commands, m.n <= started[m.ch]
                PROVE  \/ m \in ToSet(sentCommands) \cup ToSet(outgoing)
                       \/ m.n \in Kept(m.ch) \cup UNION ToSet(delivered[m.ch])
    BY DEF NothingForgotten
  <2>0. PICK c \in Channels, n \in Nat \ {0} : c = m.ch /\ n = m.n /\ m = [ch |-> c, n |-> n]
    BY FirstIs, CommandIs
  <2>1. PICK p \in Packets(c) : n \in Fragments(c, p)  BY <2>0, FirstIs
  <2>2. n \in 1 .. started[c]  BY <1>1, <2>0, DoneIs
  <2>3. m \in Outstanding(c) \/ Safe(c, n)  BY <1>1, <2>0, <2>2 DEF ForgottenInv
  <2>4. ASSUME n <= Done(c) PROVE n \in UNION ToSet(delivered[c])
    <3>1. PICK d \in 0 .. Len(Ends[c]) : d = Len(delivered[c]) /\ Done(c) = Total(c, d)
      BY <1>1, DoneIs DEF Done
    <3>2. Len(Ends[c]) \in Nat /\ d \in Nat /\ p \in 1 .. Len(Ends[c]) /\ p \in Nat
      <4>1. p \in 1 .. Len(Ends[c])  BY DEF Packets
      <4>2. Len(Ends[c]) \in Nat  BY TotalIs
      <4>. QED  BY <3>1, <4>1, <4>2
    <3>3. p <= d
      <4>1. SUFFICES ASSUME d <= p - 1 PROVE FALSE  BY <3>2
      <4>2. p - 1 \in 0 .. Len(Ends[c])  BY <3>2
      <4>3. Total(c, d) <= Total(c, p - 1) /\ Total(c, d) \in Nat /\ Total(c, p - 1) \in Nat
        BY <4>1, <4>2, TotalGrows
      <4>4. Total(c, p - 1) < n
        <5>1. First(c, p) = Total(c, p - 1) + 1 /\ First(c, p) <= n  BY <2>1 DEF First, Fragments
        <5>. QED  BY <4>3, <5>1
      <4>. QED  BY <2>4, <3>1, <4>3, <4>4
    <3>4. p \in 1 .. d  BY <3>2, <3>3
    <3>5. delivered[c] = [i \in 1 .. d |-> Fragments(c, i)]  BY <1>1, <3>1 DEF ReceiverInv
    <3>6. Fragments(c, p) \in ToSet(delivered[c])  BY <3>4, <3>5 DEF ToSet
    <3>. QED  BY <2>1, <3>6
  <2>. QED  BY <2>0, <2>3, <2>4 DEF Safe, Outstanding
<1>. QED  BY <1>1, <1>2, <1>3, <1>4 DEF ChannelSafe

\* A channel delivers the packets it was given, whole, once and in order,
\* though the numbers come round and commands and acknowledgements are lost,
\* copied and late; the sender forgets no command that has not arrived, and
\* counts its windows right (peer.c, protocol.c).
THEOREM ChannelIsSafe == ChannelSpec => []ChannelSafe
BY ChannelInvariant, InvIsSafe, PTL

\* The channels are the reliable pipes that the relay server and its clients
\* take them for: what comes out of one is what went into it, in its order.
THEOREM ChannelImplementsPipe == ChannelSpec => IsPipe
<1>. DEFINE got == [c \in Channels |-> Len(delivered[c])]
<1>1. ChannelInit => Pipe!Init
  BY DEF ChannelInit, Pipe!Init
<1>2. ChannelInv /\ [ChannelNext]_channelVars =>
        [\E c \in Channels : Pipe!Send(c) \/ Pipe!Get(c)]_<<queued, got>>
  <2>. SUFFICES ASSUME ChannelInv, [ChannelNext]_channelVars
                PROVE  [\E c \in Channels : Pipe!Send(c) \/ Pipe!Get(c)]_<<queued, got>>
    OBVIOUS
  <2>1. CASE UNCHANGED <<queued, delivered>>  BY <2>1
  <2>2. ASSUME NEW c \in Channels, Given(c) PROVE Pipe!Send(c)
    BY <2>2 DEF Given, Pipe!Send
  <2>3. ASSUME NEW c \in Channels, DeliversMore(c) PROVE Pipe!Get(c) \/ UNCHANGED <<queued, got>>
    <3>1. UNCHANGED queued /\ \A d \in Channels : d # c => delivered'[d] = delivered[d]
      BY <2>3 DEF DeliversMore
    <3>2. PICK k : k = Len(delivered'[c])  OBVIOUS
    <3>3. Len(delivered[c]) \in Nat /\ Len(delivered[c]) <= k /\ k <= queued[c] /\ queued[c] \in Nat
      BY <2>3, <3>2, DoneIs DEF DeliversMore, ChannelInv, ChannelTypes
    <3>4. k \in Nat
      <4>1. delivered'[c] \in Seq(SUBSET Nat)  BY ChannelStep DEF ChannelInv, ChannelTypes
      <4>. QED  BY <3>2, <4>1
    <3>5. got' = [got EXCEPT ![c] = k]  BY <3>1, <3>2
    <3>6. CASE k = Len(delivered[c])
      <4>1. got' = got  BY <3>5, <3>6
      <4>. QED  BY <3>1, <4>1
    <3>7. CASE k # Len(delivered[c])
      <4>1. k \in got[c] + 1 .. queued[c]  BY <3>3, <3>4, <3>7
      <4>. QED  BY <3>1, <3>5, <4>1 DEF Pipe!Get
    <3>. QED  BY <3>6, <3>7
  <2>. QED  BY <2>1, <2>2, <2>3, ChannelStep
<1>. QED  BY <1>1, <1>2, ChannelInvariant, PTL DEF ChannelSpec, IsPipe, Pipe!Spec
=============================================================================
