SPECIFICATION FairSpec
CONSTANTS
  c1 = c1
  c2 = c2
  Clients = {c1, c2}
  Fds = {4, 5}
  sock_ = 3
  Packets <- Sendable
  Hello <- Greeting
  MaxPackets <- Few
  Cuts <- Pieces
  Faulty = {c2}
  Slack = 4
  None = None
INVARIANTS
  TypeOK
  HandlersNeverBlock
  ReadableFramed
  NeverWaitsForMore
  EndsForAReason
  ForgottenBehindFrame
PROPERTIES
  NoDataDropped
  ImplementsPacketServer
  FirstFrameRead
CHECK_DEADLOCK FALSE
