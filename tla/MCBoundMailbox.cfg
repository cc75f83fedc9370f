SPECIFICATION Spec
CONSTANTS
  Sizes = {2, 5}
  Unbound = 0
  Sentinels = {1}
  Awaits <- MCAwaits
  ReceiveWraps = FALSE
  MaxBytes = 4
  MaxConns = 1
INVARIANTS
  TypeOK
  NoLostInput
PROPERTIES
  Receives
  Sends
CHECK_DEADLOCK FALSE
