SPECIFICATION SDSpec
CONSTANTS
  c1 = c1
  c2 = c2
  s1 = s1
  Clients = {c2, s1}
  Finders = {c2}
  ServiceId <- TwoServices
  Fds = {4, 5}
  sockfd = 3
  MaxReq <- OneEach
  None = None
INVARIANTS
  RightService

CHECK_DEADLOCK FALSE
