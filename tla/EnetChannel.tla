---------------------------- MODULE EnetChannel ----------------------------
(***************************************************************************)
(* One direction of an ENet connection: the reliable packets one host      *)
(* sends, over a network that loses, copies and reorders datagrams, and    *)
(* the acknowledgements that come back.  Both programs send everything     *)
(* with ENET_PACKET_FLAG_RELIABLE, so the other kinds are left out.        *)
(*                                                                         *)
(* A packet is sent as one command or, when it is large, as a command for  *)
(* each fragment.  The commands of a channel are numbered, in the program  *)
(* with 16 bits: Windows * WindowSize is 2^16 there.  The model names a    *)
(* command by its channel and its place n among all the channel's          *)
(* commands; whatever either side decides, it decides by Seq(n).           *)
(*                                                                         *)
(* Time is left out: a command that was sent may time out at any moment.   *)
(* The acknowledgement a command gets is on its way at once, and each      *)
(* command travels by itself: ENet packs several into a datagram, which    *)
(* makes them share a fate.  The window on the data in flight, and the     *)
(* limit on the data the receiver keeps, are left out.                     *)
(***************************************************************************)
EXTENDS Naturals, Sequences, FiniteSets, SequencesExt

CONSTANTS
  Channels,
  Ends,       \* channel -> the last command of each of its packets, by number
  Windows,    \* ENET_PEER_RELIABLE_WINDOWS
  WindowSize, \* ENET_PEER_RELIABLE_WINDOW_SIZE
  Free,       \* ENET_PEER_FREE_RELIABLE_WINDOWS
  Lifetime,   \* when the sender is so many commands past one, no copy of it is
              \* on its way any more
  MaxOut      \* bound: commands the sender has when a packet is added

VARIABLES
  queued,          \* channel -> number of packets given to enet_peer_send
  outgoing,        \* outgoingReliableCommands, of all channels
  sentCommands,    \* sentReliableCommands: sent, not acknowledged
  started,         \* channel -> its last command that was sent once or more
  reliableWindows, \* channel -> window -> its commands sent, not acknowledged
  wire, acks,      \* commands and acknowledgements on their way
  incoming,        \* channel -> incomingReliableSequenceNumber
  held,            \* channel -> incomingReliableCommands
  delivered        \* channel -> packets dispatched, each the set of the commands
                   \* it was made from

senderVars   == <<queued, outgoing, sentCommands, started, reliableWindows>>
receiverVars == <<incoming, held, delivered>>
channelVars  == <<senderVars, wire, acks, receiverVars>>

-----------------------------------------------------------------------------
(* Packets and commands.                                                   *)

\* The last command of the first p packets.
Total(c, p) == IF p = 0 THEN 0 ELSE Ends[c][p]

\* The commands of packet p.
First(c, p)     == Total(c, p - 1) + 1
Fragments(c, p) == First(c, p) .. Total(c, p)
Count(c, p)     == Total(c, p) - Total(c, p - 1)

\* The sender leaves half of the windows free.  A copy is never so late that a
\* command of its packet could be taken for one still to come.
ASSUME EnetChannelAssumption ==
  /\ {Windows, WindowSize, Lifetime, MaxOut} \subseteq Nat \ {0}
  /\ Free \in Nat \ {0, 1} /\ Windows = 2 * Free
  /\ \A c \in Channels :
       /\ Ends[c] \in Seq(Nat \ {0})
       /\ \A p, r \in DOMAIN Ends[c] : p < r => Ends[c][p] < Ends[c][r]
       /\ \A p \in DOMAIN Ends[c] :
            /\ Count(c, p) <= WindowSize + 1
            /\ Lifetime + Count(c, p) <= (Free + 1) * WindowSize + 2

\* The packet a command is part of.
Packet(c, n) == CHOOSE p \in DOMAIN Ends[c] : n \in Fragments(c, p)

\* Every command.
Commands ==
  UNION {{[ch |-> c, n |-> n] : n \in 1 .. Total(c, Len(Ends[c]))} : c \in Channels}

\* The number of a command as it is on the wire, and the window it is in.
SeqNo(n)  == n % (Windows * WindowSize)
Window(s) == s \div WindowSize

-----------------------------------------------------------------------------
(* The sender.                                                             *)

\* enet_peer_send: one command for each fragment.
Send(c) ==
  /\ queued[c] < Len(Ends[c]) /\ Len(outgoing) + Len(sentCommands) < MaxOut
  /\ queued' = [queued EXCEPT ![c] = @ + 1]
  /\ LET p == queued[c] + 1
     IN  outgoing' = outgoing \o
           [i \in 1 .. Count(c, p) |-> [ch |-> c, n |-> First(c, p) + i - 1]]
  /\ UNCHANGED <<sentCommands, started, reliableWindows, wire, acks, receiverVars>>

\* The windows that must be free of outstanding commands before w is begun.
Barred(c, w) == {(w + i) % Windows : i \in 0 .. Free - 1}

\* A command that begins a window is held back.
WindowWrap(c, n) ==
  LET w == Window(SeqNo(n))
  IN  /\ n > started[c] /\ SeqNo(n) % WindowSize = 0
      /\ \/ reliableWindows[c][(w + Windows - 1) % Windows] >= WindowSize
         \/ \E v \in Barred(c, w) : reliableWindows[c][v] > 0

\* What has been on its way for too long is gone.
Expire(S) == {m \in S : started'[m.ch] < m.n + Lifetime}

\* A command is counted in its window when it is sent for the first time.
Counts(m) == m.n > started[m.ch]

\* send_reliable_outgoing_commands, one command: it stops at the first that is
\* held back, of whatever channel.
Transmit ==
  /\ outgoing # <<>>
  /\ LET m == Head(outgoing)
     IN  /\ ~WindowWrap(m.ch, m.n)
         /\ started' = [started EXCEPT ![m.ch] = IF m.n > @ THEN m.n ELSE @]
         /\ reliableWindows' = IF Counts(m)
              THEN [reliableWindows EXCEPT ![m.ch][Window(SeqNo(m.n))] = @ + 1]
              ELSE reliableWindows
         /\ outgoing' = Tail(outgoing)
         /\ sentCommands' = Append(sentCommands, m)
         /\ wire' = Expire(wire) \cup {m}
         /\ acks' = Expire(acks)
  /\ UNCHANGED <<queued, receiverVars>>

\* The members of list l that are in S, in their order: the k-th stands where
\* there are k up to its place.
Only(l, S) ==
  LET I == {i \in DOMAIN l : l[i] \in S}
      At(k) == CHOOSE i \in I : Cardinality({j \in I : j <= i}) = k
  IN  [k \in 1 .. Cardinality(I) |-> l[At(k)]]

\* check_timeouts, while the connection lasts: the commands in S are to be sent
\* again before all others.  What timed out before has been sent again: the
\* same pass over the list does it.
Timeout(S) ==
  /\ S # {} /\ S \subseteq ToSet(sentCommands)
  /\ \A m \in ToSet(outgoing) : m.n > started[m.ch]
  /\ outgoing' = Only(sentCommands, S) \o outgoing
  /\ sentCommands' = Only(sentCommands, ToSet(sentCommands) \ S)
  /\ UNCHANGED <<queued, started, reliableWindows, wire, acks, receiverVars>>

\* Where in list l an acknowledgement of number s finds what it may be for.
Matches(l, c, s) == {i \in DOMAIN l : l[i].ch = c /\ SeqNo(l[i].n) = s}

\* The same among those to be sent, of which only what was sent before counts.
MatchesAgain(c, s) == {i \in Matches(outgoing, c, s) : outgoing[i].n <= started[c]}

\* handle_acknowledge and remove_sent_reliable_command: the first that matches
\* is removed, from those sent or else from those to be sent again.
GotAck(a) ==
  /\ a \in acks
  /\ LET s     == SeqNo(a.n)
         sent  == Matches(sentCommands, a.ch, s)
         again == MatchesAgain(a.ch, s)
         w     == Window(s)
     IN  /\ sentCommands' = IF sent = {} THEN sentCommands
                            ELSE RemoveAt(sentCommands, Min(sent))
         /\ outgoing' = IF sent # {} \/ again = {} THEN outgoing
                        ELSE RemoveAt(outgoing, Min(again))
         /\ reliableWindows' = IF sent \cup again # {} /\ reliableWindows[a.ch][w] > 0
              THEN [reliableWindows EXCEPT ![a.ch][w] = @ - 1] ELSE reliableWindows
  /\ UNCHANGED <<queued, started, wire, acks, receiverVars>>

-----------------------------------------------------------------------------
(* The receiver.                                                           *)

\* How many windows number s is ahead of inc; all that is behind is taken to
\* be a lap ahead.
Ahead(s, inc) ==
  (Window(s) + (IF s < inc THEN Windows ELSE 0)) - Window(inc)

Accepts(s, inc) == Ahead(s, inc) < Free - 1

\* Mutant: a command that was not accepted is acknowledged.
RefusesAckMutant(s, inc) == FALSE

\* queue_acknowledgement: what may be a command still to come is not
\* acknowledged, since it was not kept.
RefusesAck(s, inc) == Ahead(s, inc) \in {Free - 1, Free}

\* The search from the end of the list l for the place of number s: the last
\* entry that is not passed over, 0 if all are.
Place(l, s, inc) ==
  LET Passed(e) ==
        \/ s >= inc /\ e.start < inc
        \/ ~(s < inc /\ e.start >= inc) /\ e.start > s
  IN  Max({0} \cup {i \in DOMAIN l : ~Passed(l[i])})

Inserted(l, i, e) == InsertAt(l, i + 1, e)

\* Mutant: a command that is no fragment, whose fragmentCount is 0, is counted
\* like those that are.
LastNoMutant(e) == SeqNo(e.start + (IF e.count = 1 THEN 0 ELSE e.count) - 1)

\* The number of the last command of an entry.
LastNo(e) == SeqNo(e.start + e.count - 1)

Complete(e) == Cardinality(e.have) = e.count

\* dispatch_incoming_reliable_commands on list l: how many can be delivered, each
\* complete and the next after the one before.
Dispatch(l, inc) ==
  Max({k \in 0 .. Len(l) : \A j \in 1 .. k :
         /\ Complete(l[j])
         /\ l[j].start = SeqNo((IF j = 1 THEN inc ELSE LastNo(l[j - 1])) + 1)})

\* List l of channel c, with what can be delivered taken from it.
Deliver(c, l) ==
  LET k == Dispatch(l, incoming[c])
  IN  /\ incoming' = [incoming EXCEPT ![c] = IF k = 0 THEN @ ELSE LastNo(l[k])]
      /\ held' = [held EXCEPT ![c] = SubSeq(l, k + 1, Len(l))]
      /\ delivered' = [delivered EXCEPT ![c] = @ \o [i \in 1 .. k |-> l[i].have]]

\* A command comes.  The three ways it may go: it is dropped, and acknowledged
\* or not; it is dropped as an error, and not acknowledged; it is kept.
Acknowledge(c, n) ==
  acks' = IF RefusesAck(SeqNo(n), incoming'[c]) THEN acks
          ELSE acks \cup {[ch |-> c, n |-> n]}

Keep(c, n, l) == Deliver(c, l) /\ Acknowledge(c, n)

\* Mutant: what the receiver has is not acknowledged again.
DropMutant(c, n) == UNCHANGED <<receiverVars, acks>>

Drop(c, n) == UNCHANGED receiverVars /\ Acknowledge(c, n)
Refuse        == UNCHANGED <<receiverVars, acks>>

\* handle_send_reliable.
HandleSendReliable(c, n) ==
  LET s == SeqNo(n)
      i == Place(held[c], s, incoming[c])
      known == \/ s = incoming[c]
               \/ i > 0 /\ held[c][i].start = s
  IN  IF ~Accepts(s, incoming[c]) \/ known
      THEN Drop(c, n)
      ELSE Keep(c, n, Inserted(held[c], i, [start |-> s, count |-> 1, have |-> {n}]))

\* handle_send_fragment: the entry is that of the packet's first fragment.
HandleSendFragment(c, n) ==
  LET p == Packet(c, n)
      s == SeqNo(First(c, p))
      i == Place(held[c], s, incoming[c])
      known == i > 0 /\ held[c][i].start = s
      e == held[c][i]
      Same(k) == SeqNo(k) = SeqNo(n)
  IN  \/ ~Accepts(s, incoming[c]) /\ Drop(c, n)
      \/ /\ Accepts(s, incoming[c])
         /\ \/ known /\ e.count # Count(c, p) /\ Refuse
            \/ ~known /\ s = incoming[c] /\ Refuse
            \/ /\ known /\ e.count = Count(c, p)
               /\ IF \E k \in e.have : Same(k) THEN Drop(c, n)
                  ELSE Keep(c, n, [held[c] EXCEPT ![i].have = @ \cup {n}])
            \/ /\ ~known /\ s # incoming[c]
               /\ Keep(c, n, Inserted(held[c], i,
                     [start |-> s, count |-> Count(c, p), have |-> {n}]))

\* A copy stays: it may be received again.
Receive(m) ==
  /\ m \in wire
  /\ IF Count(m.ch, Packet(m.ch, m.n)) = 1
     THEN HandleSendReliable(m.ch, m.n)
     ELSE HandleSendFragment(m.ch, m.n)
  /\ UNCHANGED <<senderVars, wire>>

\* The network loses a copy.
Lose ==
  /\ \/ \E m \in wire : wire' = wire \ {m} /\ UNCHANGED acks
     \/ \E a \in acks : acks' = acks \ {a} /\ UNCHANGED wire
  /\ UNCHANGED <<senderVars, receiverVars>>

-----------------------------------------------------------------------------
ChannelInit ==
  /\ queued = [c \in Channels |-> 0]
  /\ outgoing = <<>> /\ sentCommands = <<>>
  /\ started = [c \in Channels |-> 0]
  /\ reliableWindows = [c \in Channels |-> [w \in 0 .. Windows - 1 |-> 0]]
  /\ wire = {} /\ acks = {}
  /\ incoming = [c \in Channels |-> 0]
  /\ held = [c \in Channels |-> <<>>]
  /\ delivered = [c \in Channels |-> <<>>]

ChannelNext ==
  \/ \E c \in Channels : Send(c)
  \/ Transmit
  \/ \E S \in SUBSET ToSet(sentCommands) : Timeout(S)
  \/ \E m \in wire : Receive(m)
  \/ \E a \in acks : GotAck(a)

\* Nothing has to be received, so that losing a copy adds nothing to what may
\* happen.
ChannelSpec == ChannelInit /\ [][ChannelNext]_channelVars

-----------------------------------------------------------------------------
Kept(c) == UNION {held[c][i].have : i \in DOMAIN held[c]}

ChannelTypeOK ==
  /\ \A c \in Channels :
       /\ queued[c] \in 0 .. Len(Ends[c])
       /\ incoming[c] \in 0 .. Windows * WindowSize - 1
       /\ reliableWindows[c] \in [0 .. Windows - 1 -> 0 .. WindowSize]
       /\ \A i \in DOMAIN held[c] : held[c][i].have \subseteq 1 .. started[c]
  /\ ToSet(outgoing) \cup ToSet(sentCommands) \cup wire \cup acks \subseteq Commands
  /\ ToSet(outgoing) \cap ToSet(sentCommands) = {}

\* What a channel delivers are the packets that were sent, whole, each once and
\* in their order, though the numbers come round and copies arrive late.
PacketsInOrder ==
  \A c \in Channels : delivered[c] = [i \in 1 .. Len(delivered[c]) |-> Fragments(c, i)]

\* A command the sender has forgotten has been kept or delivered: the receiver
\* acknowledges nothing it throws away, and no acknowledgement is taken for
\* that of another command.
NothingForgotten ==
  \A m \in Commands :
    m.n <= started[m.ch] =>
      \/ m \in ToSet(sentCommands) \cup ToSet(outgoing)
      \/ m.n \in Kept(m.ch) \cup UNION ToSet(delivered[m.ch])

\* What the sender has sent of channel c and not seen acknowledged.
Outstanding(c) ==
  {m \in ToSet(sentCommands) \cup ToSet(outgoing) : m.ch = c /\ m.n <= started[c]}

\* The sender's count for each window is that of its commands not acknowledged;
\* a count that is too high would hold the channel back for ever.
WindowsCounted ==
  \A c \in Channels, w \in 0 .. Windows - 1 :
    reliableWindows[c][w] = Cardinality({m \in Outstanding(c) : Window(SeqNo(m.n)) = w})

\* A channel delivers its packets whole, once and in order, forgets none that
\* has not arrived, and counts its windows right (peer.c, protocol.c).
ChannelSafe == ChannelTypeOK /\ PacketsInOrder /\ NothingForgotten /\ WindowsCounted

\* Every packet is delivered, however often its commands and what acknowledges
\* them are lost: "A reliable packet is guaranteed to be delivered"
\* (tutorial.dox:216).
PacketDelivered ==
  \A c \in Channels : \A p \in DOMAIN Ends[c] :
    queued[c] >= p ~> Len(delivered[c]) >= p

\* The sender comes to an end with what it sends again and again "until an
\* acknowledgement is received from the foreign host" (tutorial.dox:217): the
\* receiver does acknowledge what it has.
AllAcknowledged == outgoing \o sentCommands # <<>> ~> outgoing \o sentCommands = <<>>

\* What the channel promises, as a specification.
Pipe == INSTANCE ReliablePipe WITH
          sent <- queued, got <- [c \in Channels |-> Len(delivered[c])]

\* The channels implement it: none delivers more than it was given, and what
\* comes for one changes no other.
IsPipe == Pipe!Spec
=============================================================================
