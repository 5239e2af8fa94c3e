------------------------------ MODULE MailBox ------------------------------
(***************************************************************************)
(* MailBox with its XSignal, which hands network events and pipe messages  *)
(* from the threads that read them to the one thread that works on them.   *)
(* Send puts a message on the list under the lock and, after the lock,     *)
(* sends a byte through a socket pair if the list was empty.  Recv takes a *)
(* message; with none there it waits for a byte and tries once more.       *)
(*                                                                         *)
(* Both ends of the pair do not block: a full socket refuses the byte.     *)
(* On Linux the pair is an eventfd, whose read takes every notification.   *)
(* Messages are numbered in the order they are put on the list; a second   *)
(* list keeps those numbers in the order they come off it.                 *)
(***************************************************************************)
EXTENDS Naturals, Sequences

CONSTANTS
  Senders,   \* threads that send
  MaxMsgs,   \* bound: messages sent in all
  SockSize,  \* bytes the socket holds
  Linux,     \* TRUE: eventfd
  Timed      \* TRUE: Recv is given a time

ASSUME MailBoxAssumption ==
  /\ MaxMsgs \in Nat /\ SockSize \in Nat \ {0}
  /\ Linux \in BOOLEAN /\ Timed \in BOOLEAN

VARIABLES
  m_oMsgList,  \* messages queued
  sent,        \* messages put on the list so far
  bytes,       \* bytes in the socket
  owes,        \* sender -> the message whose byte it is about to send, or 0
  failed,      \* messages whose Send returned false
  recv,        \* where the receiver is
  received     \* messages received, in order

senders  == <<sent, owes, failed>>
receiver == <<recv, received>>
mailVars == <<m_oMsgList, bytes, senders, receiver>>

MailInit ==
  /\ m_oMsgList = <<>> /\ bytes = 0 /\ sent = 0
  /\ owes = [s \in Senders |-> 0] /\ failed = {}
  /\ recv = "idle" /\ received = <<>>

-----------------------------------------------------------------------------
(* Send.                                                                   *)

\* Mutant: a second message brings a byte, the first does not.
NeedsByteMutant(size) == size = 2

NeedsByte(size) == size = 1

PushedBack(m) == Append(m_oMsgList, m)

PushBack(s) ==
  /\ owes[s] = 0 /\ sent < MaxMsgs
  /\ sent' = sent + 1
  /\ m_oMsgList' = PushedBack(sent + 1)
  /\ owes' = [owes EXCEPT ![s] =
                IF NeedsByte(Len(m_oMsgList')) THEN sent + 1 ELSE 0]
  /\ UNCHANGED <<bytes, failed, receiver>>

\* XSignal::Notify.  Send returns what it returns.
Notify(s) ==
  /\ owes[s] # 0
  /\ IF bytes < SockSize
     THEN bytes' = bytes + 1 /\ failed' = failed
     ELSE bytes' = bytes /\ failed' = failed \cup {owes[s]}
  /\ owes' = [owes EXCEPT ![s] = 0]
  /\ UNCHANGED <<m_oMsgList, sent, receiver>>

-----------------------------------------------------------------------------
(* Recv, called by one thread.                                             *)

Call == /\ recv = "idle" /\ recv' = "first"
        /\ UNCHANGED <<m_oMsgList, bytes, senders, received>>

\* One look at the list under the lock; with nothing there Recv goes on to
\* otherwise.
Look(otherwise) ==
  IF m_oMsgList # <<>>
  THEN /\ received' = Append(received, Head(m_oMsgList))
       /\ m_oMsgList' = Tail(m_oMsgList)
       /\ recv' = "idle"
  ELSE /\ recv' = otherwise
       /\ UNCHANGED <<received, m_oMsgList>>

FirstLook  == recv = "first" /\ Look("wait") /\ UNCHANGED <<bytes, senders>>
SecondLook == recv = "second" /\ Look("idle") /\ UNCHANGED <<bytes, senders>>

\* What a read leaves in the socket.
Taken == IF Linux THEN bytes ELSE 1

\* XSignal::Wait.
WakeUp ==
  /\ recv = "wait" /\ bytes > 0
  /\ bytes' = bytes - Taken
  /\ recv' = "second"
  /\ UNCHANGED <<m_oMsgList, senders, received>>

TimeOut ==
  /\ Timed
  /\ recv = "wait" /\ bytes = 0
  /\ recv' = "idle"
  /\ UNCHANGED <<m_oMsgList, bytes, senders, received>>

Recv == FirstLook \/ WakeUp \/ SecondLook

MailNext == (\E s \in Senders : PushBack(s) \/ Notify(s)) \/ Call \/ Recv \/ TimeOut

MailSpec == MailInit /\ [][MailNext]_mailVars

-----------------------------------------------------------------------------
MailTypeOK ==
  /\ m_oMsgList \in Seq(1..MaxMsgs) /\ received \in Seq(1..MaxMsgs)
  /\ sent \in 0..MaxMsgs
  /\ bytes \in 0..SockSize
  /\ owes \in [Senders -> 0..MaxMsgs]
  /\ failed \subseteq 1..MaxMsgs
  /\ recv \in {"idle", "first", "wait", "second"}

\* Every message put on the list is received or still there, once and in the
\* order of the list, whatever becomes of its byte.
InOrder ==
  LET all == received \o m_oMsgList
  IN Len(all) = sent /\ \A i \in 1..sent : all[i] = i

\* The receiver does not sleep beside a message: while it waits with messages
\* queued, a byte is in the socket or a sender is about to send one.  That a
\* full socket refuses the byte does no harm.
NoLostWakeup ==
  recv = "wait" /\ m_oMsgList # <<>> =>
    bytes > 0 \/ \E s \in Senders : owes[s] # 0

\* What the mail box never does wrong (MailBox.h).
MailSafe == MailTypeOK /\ InOrder /\ NoLostWakeup

\* A message queued is received by an untimed Recv.
Delivered ==
  \A m \in 1..MaxMsgs :
    (sent >= m) ~> (\E i \in 1..Len(received) : received[i] = m)
=============================================================================
