SPECIFICATION Spec
CONSTANTS
  n1 = n1
  n2 = n2
  n3 = n3
  Nodes = {n1, n2, n3}
  Serving = {n1, n2, n3}
  Services = {0, 1}
  Memory = {"address"}
  MaxQueries <- TwoEach
  None = None
PROPERTIES
  QueriesAreMulticast
CHECK_DEADLOCK FALSE
