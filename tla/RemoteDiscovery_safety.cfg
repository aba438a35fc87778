SPECIFICATION FairSpec
CONSTANTS
  n1 = n1
  n2 = n2
  n3 = n3
  Nodes = {n1, n2}
  Serving = {n1, n2}
  Services = {0, 1}
  Memory = {"header", "type", "id", "address", "long"}
  MaxQueries <- TwoEach
  None = None
INVARIANTS
  TypeOK
  AnswersAreEarned
  FirstAnswerRight
PROPERTIES
  ImplementsLookup
  AnswerOnItsWay
  ReachedQueryEnds
CHECK_DEADLOCK FALSE
