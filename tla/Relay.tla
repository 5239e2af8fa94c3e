------------------------------- MODULE Relay -------------------------------
(***************************************************************************)
(* What the relay server promises its users, with no trace of how it keeps *)
(* its records: a set of users on line, a set of open rooms that pair one  *)
(* viewer ("client") with one streamer ("server"), and frames that reach   *)
(* exactly the viewers of the streamer that sent them.  RoomMgr implements *)
(* this specification (theorem RoomMgrImplementsRelay).                     *)
(***************************************************************************)
EXTENDS Naturals

CONSTANTS
  Users,      \* user ids
  MaxRoomID   \* the last room id that can be issued

VARIABLES
  online,     \* the users that hold a connection
  rooms,      \* the open rooms
  issued,     \* how many room ids have been handed out
  delivered,  \* <<server, client, room>>: frames delivered by the last step
  up          \* FALSE once the server process is gone

vars == <<online, rooms, issued, delivered, up>>

RoomIDs == 1 .. MaxRoomID
Room    == [id : RoomIDs, client : Users, server : Users]

Init ==
  /\ online = {}
  /\ rooms = {}
  /\ issued = 0
  /\ delivered = {}
  /\ up = TRUE

Join(u) ==
  /\ up /\ u \notin online
  /\ online' = online \cup {u}
  /\ delivered' = {}
  /\ UNCHANGED <<rooms, issued, up>>

\* A streamer that leaves takes its rooms with it; a viewer that leaves does not.
Leave(u) ==
  /\ up /\ u \in online
  /\ online' = online \ {u}
  /\ rooms' = {r \in rooms : r.server # u}
  /\ delivered' = {}
  /\ UNCHANGED <<issued, up>>

\* Room ids are handed out once.
Open(c, s) ==
  /\ up /\ issued < MaxRoomID
  /\ rooms' = rooms \cup {[id |-> issued + 1, client |-> c, server |-> s]}
  /\ issued' = issued + 1
  /\ delivered' = {}
  /\ UNCHANGED <<online, up>>

\* One room is closed by an unbuild request; which one the request may name is
\* not promised here (RoomMgr, UnbuildClosesNamedRoom).
Close(r) ==
  /\ up /\ r \in rooms
  /\ rooms' = rooms \ {r}
  /\ delivered' = {}
  /\ UNCHANGED <<online, issued, up>>

\* Every open room of the streamer gets the frame to its viewer if that viewer
\* is on line, one copy per room, and nobody else gets it.
Frame(s) ==
  /\ up
  /\ delivered' = {<<s, r.client, r.id>> :
                      r \in {q \in rooms : q.server = s /\ q.client \in online}}
  /\ UNCHANGED <<online, rooms, issued, up>>

\* A request that changes nothing: a refused login, a connection, an unknown room.
Refuse ==
  /\ up
  /\ delivered' = {}
  /\ UNCHANGED <<online, rooms, issued, up>>

Stop ==
  /\ up
  /\ up' = FALSE
  /\ delivered' = {}
  /\ UNCHANGED <<online, rooms, issued>>

Next ==
  \/ \E u \in Users : Join(u) \/ Leave(u) \/ Frame(u)
  \/ \E c, s \in Users : Open(c, s)
  \/ \E r \in rooms : Close(r)
  \/ Refuse
  \/ Stop

Spec == Init /\ [][Next]_vars
=============================================================================
