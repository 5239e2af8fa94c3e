SPECIFICATION LiveSpec
CONSTANTS
  Viewers = {v1}
  Width = 1
  MaxVer = 2
  MaxJoins = 2
  Clients = {client}
  Users = {user}
  Peers = {p1, p2, p3}
  Addrs = {a1, a2}
  Senders = {s1, s2}
  Channels = {channel}
  Painted = {area}
  Cursors = {cursor}
  Mirror = mirror
  Streamer = user
  None = None
CHECK_DEADLOCK FALSE
PROPERTIES
  FrameIsShown
  LoginSucceeds
  PaintIsSent
  NetworkDelivers
