SPECIFICATION Spec
CONSTANTS
  a = a
  b = b
  n1 = n1
  n2 = n2
  n3 = n3
  n4 = n4
  Item <- MCItem
  Node <- MCNode
  ListHead = ListHead
  QUEUE_IDLE_MAX_THD = 2
INVARIANTS TypeOK NodesConserved CountersExact CursorValid
PROPERTIES ClearDrains ImplementsFifo
CHECK_DEADLOCK FALSE
