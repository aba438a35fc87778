\* Sizes in bytes; the packet crosses in up to six pieces.
SPECIFICATION FairSpec
CONSTANTS
  SendSize = 6
  RecvSize = 5
  Capacity = 3
INVARIANTS
  TypeOK
  RecvnInOrder
  ShortCountMeansEnd
  SendnCountsRight
PROPERTIES
  RecvnReturns
CHECK_DEADLOCK FALSE
