SPECIFICATION FairSpec
CONSTANTS
  c1 = c1
  c2 = c2
  Clients = {c1}
  Fds = {4, 5}
  sock_ = 3
  Packets <- Sendable
  Hello <- Greeting
  MaxPackets <- Few
  Cuts <- Pieces
  Faulty = {}
  Slack = 4
  None = None
PROPERTIES
  DisconnectedRemoved
CHECK_DEADLOCK FALSE
