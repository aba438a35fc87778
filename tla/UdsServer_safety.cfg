\* Three clients, up to two requests, share two descriptors: numbers are reused
\* within a round, and can run out.
SPECIFICATION FairSpec
CONSTANTS
  c1 = c1
  c2 = c2
  c3 = c3
  Clients = {c1, c2, c3}
  Fds = {4, 5}
  sockfd = 3
  MaxReq <- Uneven
  None = None
INVARIANTS
  TypeOK
  HandlersNeverBlock
  NoLostWakeup
  RepliesInOrder
  IInv
PROPERTIES
  EventsCurrent
  DropsOnlyClosed
  ImplementsRequestReply
  RequestServed
CHECK_DEADLOCK FALSE
