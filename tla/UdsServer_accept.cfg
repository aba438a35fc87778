SPECIFICATION FairSpec
CONSTANTS
  c1 = c1
  c2 = c2
  c3 = c3
  Clients = {c1, c2}
  Fds = {4, 5}
  sockfd = 3
  MaxReq <- OneEach
  None = None
PROPERTIES
  EveryConnectionAccepted
CHECK_DEADLOCK FALSE
