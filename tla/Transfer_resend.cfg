SPECIFICATION Spec
CONSTANTS
  SendSize = 4
  RecvSize = 4
  Capacity = 3
INVARIANTS
  SendnSendsBuffer
CHECK_DEADLOCK FALSE
