SPECIFICATION Spec
CONSTANTS
  Sizes = {2}
  Unbound = 0
  Sentinels = {1}
  Awaits <- MCAwaitsReceive
  ReceiveWraps = TRUE
  MaxBytes = 4
  MaxConns = 1
INVARIANTS
  BytesInOrder

CHECK_DEADLOCK FALSE
