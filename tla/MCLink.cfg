CONSTANTS
  NPorts = 3
  Distances <- MCDistances
  Types = {"broadcast", "unidirectional"}
  Linger = 2
  Waiters = {2}
  Awaited <- MCAwaited
  Receivers <- MCReceivers
  None = None
  MaxActivities = 2
  Horizon = 5
SPECIFICATION Spec
INVARIANTS TypeOK Foreseen PastIsKnown
PROPERTY EventIsTrue
