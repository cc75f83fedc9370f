SPECIFICATION Spec
CONSTANTS
  Kernel = Kernel
  Timer = Timer
  None = None
  spec1 = spec1
  root = root
  procA = procA
  procB = procB
  Procs = {root, procA}
  Root = root
  System = "s0"
  OnSystem = {root}
  Owner <- MCOwner
  Specs = {spec1}
  OpsOfRoot = {"create", "waitTimer", "waitSignal", "signal"}
  OpsOfA = {"waitTimer", "waitSignal", "signal"}
  OpsOfB = {}
  Ops <- MCOps
  Usage = {"actAfterWait"}
  States = {0}
  Horizon = 1
  MaxChain = 2
  MaxCalls = 3
INVARIANTS
  EarliestWins
CHECK_DEADLOCK FALSE
