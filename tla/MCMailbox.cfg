SPECIFICATION Spec
CONSTANTS
  None = None
  Box = Box
  procA = procA
  procB = procB
  Procs = {procA, procB}
  Events <- MCEventsOfAll
  Limits <- MCLimits
  First = 1
  MaxItems = 2
  Horizon = 1
  MaxChain = 2
  MaxCalls = 2
  Deletes = TRUE
SYMMETRY MCSymmetry
INVARIANTS
  TypeOK
  CountMatches
  NoLostItem
PROPERTIES
  ReceiveDelivers
  PriorityDelivered
CHECK_DEADLOCK FALSE
