SPECIFICATION Spec
CONSTANTS
  None = None
  NTraffics = 2
  Bursty = {0}
  s1 = s1
  s2 = s2
  Stations = {s1, s2}
  procA = procA
  procB = procB
  Procs = {procA, procB}
  CallsOfA = {"get", "getIf"}
  CallsOfB = {"get", "suspend", "suspendAll"}
  RequestsOfA = {1, 3}
  RequestsOfB = {2, 4, 5, 6}
  At <- MCAt
  Awaits <- MCAwaits
  Calls <- MCCalls
  QSLimit = 2
  TLimit <- MCTLimit
  SLimit <- MCSLimit
  Lengths = {1, 2}
  MaxL = 1
  Usage = {"suspendInBurst"}
  MaxBurst = 2
  Horizon = 1
INVARIANTS
  BurstGoesOn
CHECK_DEADLOCK FALSE
