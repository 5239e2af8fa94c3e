----------------------------- MODULE MCNetwork -----------------------------
(***************************************************************************)
(* Small instances of what lies under the connections: ENet's channels and *)
(* its handshake, and the mail box that hands events from a network thread *)
(* to the program.  They share no state; a behaviour is one of the         *)
(* instance that `subject' names, with the others as they were made.       *)
(***************************************************************************)
EXTENDS MailBox, EnetConnect, EnetChannel

VARIABLE subject

\* The mail box over a socket that is soon full and read byte by byte, with a
\* Recv that waits for ever; the other is the one over eventfd, where a read
\* takes all there is.
Socket == INSTANCE MailBox WITH Linux <- FALSE, Timed <- FALSE, SockSize <- 2

\* The packets, of one and of two commands: more than a lap of the numbers, with
\* one of two on the seam.
MCEnds == [c \in Channels |-> <<1, 3, 4, 6, 7, 8, 9, 10, 12, 13, 14, 15>>]

\* Many commands at once over the first three windows, or few over a whole lap.
Window3Next == ChannelNext /\ \A c \in Channels : queued'[c] <= 5
LapNext == ChannelNext /\ (queued' # queued => Len(outgoing \o sentCommands) < 3)

networkVars == <<subject, mailVars, channelVars, handshakeVars>>

NetworkInit ==
  /\ subject \in {"socket", "eventfd", "one", "laps", "connecting"}
  /\ MailInit /\ ChannelInit /\ HandshakeInit

NetworkNext ==
  /\ UNCHANGED subject
  /\ \/ /\ UNCHANGED <<channelVars, handshakeVars>>
        /\ \/ subject = "socket" /\ Socket!MailNext
           \/ subject = "eventfd" /\ MailNext
     \/ /\ UNCHANGED <<mailVars, handshakeVars>>
        /\ \/ subject = "one" /\ Window3Next
           \/ subject = "laps" /\ LapNext
     \/ /\ UNCHANGED <<mailVars, channelVars>>
        /\ subject = "connecting" /\ HandshakeNext

NetworkSpec == NetworkInit /\ [][NetworkNext]_networkVars
=============================================================================
