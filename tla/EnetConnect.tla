---------------------------- MODULE EnetConnect ----------------------------
(***************************************************************************)
(* How ENet connects the client of PandaRC to the relay server, over a     *)
(* network that loses, copies, delays and reorders datagrams.  The         *)
(* client's host has one peer and keeps its port, so what was sent under   *)
(* an earlier connection reaches the peer of a later one; the server's     *)
(* host has a slot for each connection.  Three things tell connections     *)
(* apart: the slot in a datagram's header, the two-bit session number next *)
(* to it, and the connectID of the handshake.                              *)
(*                                                                         *)
(* A peer has a session ID for each direction.  Both start at 0xFF and are *)
(* computed alike, so one number stands for the two.  Time is left out: a  *)
(* peer may time out whenever its own timer may be running, and what was   *)
(* sent once may arrive at any time, any number of times, or never: the    *)
(* network is the set of all that was sent.  The one thing said of age is  *)
(* that the copies of a CONNECT do not outlast a slot.  What a connection  *)
(* carries is EnetChannel's matter: here a datagram of a connected peer is *)
(* only its header, under which acknowledgements and packets travel alike. *)
(***************************************************************************)
EXTENDS Naturals, FiniteSets

CONSTANTS
  PeerCount,    \* slots of the server's host
  SessionCount, \* numbers a header has for the session: four, with two bits
  MaxConnects,  \* bound: connections the client asks for
  MaxRestarts,  \* bound: restarts of the server
  None

ASSUME EnetConnectAssumption ==
  /\ {PeerCount, MaxConnects, MaxRestarts} \subseteq Nat
  /\ SessionCount \in Nat \ {0}
  /\ None \notin Nat

Slots    == 0 .. PeerCount - 1
Sessions == 0 .. SessionCount - 1

VARIABLES
  client,   \* the client's peer: state, connectID, outgoingPeerID, session
  slot,     \* the server's peers: state, connectID, session
  open,     \* slots the relay server's program holds to be connected
  connects, \* CONNECT commands on the network
  verifies, \* VERIFY_CONNECT commands on the network
  headers,  \* headers of all other datagrams on the network
  randomSeed, \* of the client's host: the last connectID
  restarts

counts  == <<randomSeed, restarts>>
network == <<connects, verifies, headers>>
handshakeVars == <<client, slot, open, network, counts>>

ClientStates == {"disconnected", "connecting", "connected", "zombie"}
SlotStates   == {"disconnected", "acknowledging", "connected"}

FreshSlot == [state |-> "disconnected", connectID |-> 0, session |-> None]

\* enet_peer_reset: the session number is what it leaves alone.
SlotAfterReset(p)   == [p EXCEPT !.state = "disconnected", !.connectID = 0]
ClientAfterReset(p) == [p EXCEPT !.state = "disconnected", !.connectID = 0, !.outgoingPeerID = None]

HandshakeInit ==
  /\ client = [state |-> "disconnected", connectID |-> 0, outgoingPeerID |-> None, session |-> None]
  /\ slot = [s \in Slots |-> FreshSlot]
  /\ open = {}
  /\ connects = {} /\ verifies = {} /\ headers = {}
  /\ randomSeed = 0 /\ restarts = 0

-----------------------------------------------------------------------------
(* The client.                                                             *)

\* Network::Connect: the peer is closed without a word to the server, and
\* asks for a new connection.
Connect ==
  /\ client.state \in {"disconnected", "connected"}
  /\ randomSeed < MaxConnects /\ randomSeed' = randomSeed + 1
  /\ client' = [ClientAfterReset(client) EXCEPT !.state = "connecting", !.connectID = randomSeed']
  /\ connects' = connects \union {[connectID |-> randomSeed', session |-> client.session]}
  /\ UNCHANGED <<slot, open, verifies, headers, restarts>>

\* The end of Network::Connect when five seconds have passed, or when a
\* disconnect event came for a peer that has become a zombie.
ConnectFails ==
  /\ client.state \in {"connecting", "zombie"}
  /\ client' = ClientAfterReset(client)
  /\ UNCHANGED <<slot, open, network, counts>>

\* A connected client hears no acknowledgement for too long.
ClientTimesOut ==
  /\ client.state = "connected"
  /\ client' = ClientAfterReset(client)
  /\ UNCHANGED <<slot, open, network, counts>>

\* The header is let through: while the peer is connecting it knows no
\* session and takes any.
ClientTakes(session) ==
  /\ client.state \in {"connecting", "connected"}
  /\ client.outgoingPeerID # None => session = client.session

\* What a connected client sends: acknowledgements and packets.
ClientHeader(p) == [to |-> p.outgoingPeerID, session |-> p.session, connectID |-> p.connectID]
SlotHeader(s)   == [to |-> None, session |-> slot[s].session, connectID |-> slot[s].connectID]

\* A VERIFY_CONNECT for the connection the client asked for.
IsVerified(v) ==
  /\ client.state = "connecting"
  /\ v.connectID = client.connectID

\* The answer that was waited for: the client is connected, and says so with
\* an acknowledgement.
HandleVerifyConnect ==
  \E v \in verifies :
    /\ ClientTakes(v.session)
    /\ IsVerified(v)
    /\ client' = [client EXCEPT !.state = "connected", !.outgoingPeerID = v.slot, !.session = v.session]
    /\ headers' = headers \union {ClientHeader(client')}
    /\ UNCHANGED <<slot, open, connects, verifies, counts>>

\* Any other one ends the attempt.  (A connected client only acknowledges
\* it, under the header it has used before: nothing changes.)
RejectVerifyConnect ==
  \E v \in verifies :
    /\ ClientTakes(v.session)
    /\ client.state = "connecting" /\ ~ IsVerified(v)
    /\ client' = [client EXCEPT !.state = "zombie"]
    /\ UNCHANGED <<slot, open, network, counts>>

-----------------------------------------------------------------------------
(* The server.                                                             *)

\* The session the peers will use: the one after what the client had, or
\* after what the slot had when the client had none; never the slot's last.
NewSession(given, own) ==
  LET next(x) == IF x = None THEN 0 ELSE (x + 1) % SessionCount
      first   == next(IF given = None THEN own ELSE given)
  IN  IF first = own THEN next(first) ELSE first

\* A CONNECT that belongs to a connection some slot has already.
IsKnown(c) == \E s \in Slots : slot[s].state # "disconnected" /\ slot[s].connectID = c.connectID

FreeSlots == {s \in Slots : slot[s].state = "disconnected"}

HandleConnect ==
  \E c \in connects :
    /\ ~ IsKnown(c)
    /\ FreeSlots # {}
    /\ LET s       == CHOOSE s \in FreeSlots : \A t \in FreeSlots : s <= t
           session == NewSession(c.session, slot[s].session)
       IN  /\ slot' = [slot EXCEPT ![s] = [state |-> "acknowledging", connectID |-> c.connectID, session |-> session]]
           /\ verifies' = verifies \union {[slot |-> s, session |-> session, connectID |-> c.connectID]}
    /\ UNCHANGED <<client, open, connects, headers, counts>>

\* A datagram that names slot s is let through.
\* Mutant: the session is not looked at.
SlotTakesMutant(s, h) == slot[s].state # "disconnected" /\ h.to = s
SlotTakes(s, h) ==
  /\ slot[s].state # "disconnected"
  /\ h.to = s /\ h.session = slot[s].session

\* The acknowledgement of VERIFY_CONNECT: the slot is connected, the program
\* gets the connect event, and the slot may send.
HandleAcknowledge ==
  \E h \in headers : \E s \in Slots :
    /\ SlotTakes(s, h)
    /\ slot[s].state = "acknowledging"
    /\ slot' = [slot EXCEPT ![s].state = "connected"]
    /\ open' = open \union {s}
    /\ headers' = headers \union {SlotHeader(s)}
    /\ UNCHANGED <<client, connects, verifies, counts>>

\* A slot times out; the program hears of it when it has heard of the
\* connection.
ProgramHears(s) == slot[s].state = "connected"

\* A slot takes half a minute to time out, and the client waits five seconds
\* for its answer: the slot is there as long as the client waits.
IsWaitedFor(s) == client.state \in {"connecting", "zombie"} /\ slot[s].connectID = client.connectID

\* The copies of a CONNECT the client sent by then are gone.
SlotTimesOut ==
  \E s \in Slots :
    /\ slot[s].state # "disconnected" /\ ~ IsWaitedFor(s)
    /\ slot' = [slot EXCEPT ![s] = SlotAfterReset(@)]
    /\ open' = IF ProgramHears(s) THEN open \ {s} ELSE open
    /\ connects' = {c \in connects : c.connectID > slot[s].connectID}
    /\ UNCHANGED <<client, verifies, headers, counts>>

\* The relay server's program ends and is started again: a new host.  What
\* it had not received by then is lost; a CONNECT that is still unanswered
\* is sent again.
Restart ==
  /\ restarts < MaxRestarts
  /\ slot' = [s \in Slots |-> FreshSlot]
  /\ open' = {}
  /\ connects' = {c \in connects : client.state = "connecting" /\ c.connectID = client.connectID}
  /\ restarts' = restarts + 1
  /\ UNCHANGED <<client, verifies, headers, randomSeed>>

HandshakeNext ==
  \/ Connect \/ ConnectFails \/ ClientTimesOut
  \/ HandleVerifyConnect \/ RejectVerifyConnect
  \/ HandleConnect \/ HandleAcknowledge \/ SlotTimesOut \/ Restart

HandshakeSpec == HandshakeInit /\ [][HandshakeNext]_handshakeVars

-----------------------------------------------------------------------------
\* The types of the variables.
HandshakeTypeOK ==
  /\ client \in [state : ClientStates, connectID : 0 .. MaxConnects,
                 outgoingPeerID : Slots \union {None}, session : Sessions \union {None}]
  /\ slot \in [Slots -> [state : SlotStates, connectID : 0 .. MaxConnects, session : Sessions \union {None}]]
  /\ open \subseteq Slots
  /\ connects \subseteq [connectID : 1 .. MaxConnects, session : Sessions \union {None}]
  /\ verifies \subseteq [slot : Slots, session : Sessions, connectID : 1 .. MaxConnects]
  /\ headers \subseteq [to : Slots \union {None}, session : Sessions, connectID : 1 .. MaxConnects]
  /\ randomSeed \in 0 .. MaxConnects /\ restarts \in 0 .. MaxRestarts

\* However late a datagram of an earlier connection arrives, no connected
\* peer takes it for one of its own: neither the slot, which may have been
\* given to the client again, nor the client.
OwnDatagramsOnly ==
  \A h \in headers :
    /\ \A s \in Slots : slot[s].state = "connected" /\ SlotTakes(s, h) => h.connectID = slot[s].connectID
    /\ client.state = "connected" /\ h.to = None /\ ClientTakes(h.session) => h.connectID = client.connectID

\* Copies of a CONNECT never hold two slots at once.
OneSlotEach ==
  \A s, t \in Slots :
    slot[s].state # "disconnected" /\ slot[t].state # "disconnected" /\ slot[s].connectID = slot[t].connectID
      => s = t

\* When the slot a connected client sends to is connected, it is by the same
\* connection and under the same session: no copy of a CONNECT, and no
\* answer to an earlier attempt, makes one host talk to nobody for ever while
\* the other believes it is heard.
EndsAgree ==
  LET s == client.outgoingPeerID
  IN  client.state = "connected" /\ slot[s].state = "connected"
        => slot[s].connectID = client.connectID /\ slot[s].session = client.session

\* The relay server's program knows exactly the slots that are connected: it
\* hears of each connection's beginning and end once, and never of the end
\* of one it has not heard of.  This is what RoomMgr is built on.
ProgramKnows == open = {s \in Slots : slot[s].state = "connected"}

\* A slot is connected only for a connection the client had completed: no
\* late acknowledgement opens one in its name.
NoGhostConnected ==
  \A s \in Slots : slot[s].state = "connected" =>
    \E h \in headers : h.connectID = slot[s].connectID /\ h.to = s

\* Both ends of a connection mean the same one, and the programs hear of no
\* other (protocol.c).
HandshakeSafe ==
  /\ HandshakeTypeOK
  /\ OwnDatagramsOnly /\ OneSlotEach /\ EndsAgree
  /\ ProgramKnows /\ NoGhostConnected
=============================================================================
