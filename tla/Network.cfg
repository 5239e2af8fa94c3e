SPECIFICATION NetworkSpec
CONSTANTS
  Senders = {s1, s2}
  MaxMsgs = 5
  SockSize = 9
  Linux = TRUE
  Timed = TRUE
  Channels = {c1}
  Ends <- MCEnds
  Windows = 6
  WindowSize = 2
  Free = 3
  Lifetime = 8
  MaxOut = 5
  PeerCount = 2
  SessionCount = 4
  MaxConnects = 4
  MaxRestarts = 1
  None = None
CHECK_DEADLOCK FALSE
INVARIANTS
  MailSafe
  ChannelSafe
  HandshakeSafe
PROPERTIES
  IsPipe
