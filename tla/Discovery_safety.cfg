SPECIFICATION FairDSpec
CONSTANTS
  here = here
  there = there
  f1 = f1
  f2 = f2
  s1 = s1
  Nodes = {here, there}
  Here = here
  Serving = {there}
  Services = {0}
  Memory = {"address"}
  MaxQueries <- EnoughQueries
  Clients = {f1, f2, s1}
  Finders = {f1, f2}
  ServiceId <- SameService
  Fds = {4, 5}
  sockfd = 3
  MaxReq <- OneEach
  None = None
INVARIANTS
  RemoteAnswerIsEarned
  DInv
PROPERTIES
  ImplementsMaster
  ImplementsRemote
  FinderAnswered
CHECK_DEADLOCK FALSE
