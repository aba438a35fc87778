SPECIFICATION FairSDSpec
CONSTANTS
  c1 = c1
  c2 = c2
  s1 = s1
  Clients = {c1, c2, s1}
  Finders = {c1, c2}
  ServiceId <- SameService
  Fds = {4, 5}
  sockfd = 3
  MaxReq <- OneEach
  None = None
INVARIANTS
  SDTypeOK
  LocalAnswerIsRegistered
  RegisteredIsLocal
  EndsForAReason
PROPERTIES
  ImplementsLoop
  EveryRequestAnswered
CHECK_DEADLOCK FALSE
