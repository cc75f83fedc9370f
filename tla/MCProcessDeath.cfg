SPECIFICATION Spec
CONSTANTS
  Kernel = Kernel
  Timer = Timer
  None = None
  spec1 = spec1
  root = root
  procA = procA
  procB = procB
  Procs = {root, procA, procB}
  Root = root
  System = "s0"
  OnSystem = {root}
  Owner <- MCOwner
  Specs = {spec1, None}
  OpsOfRoot = {"create", "waitTimer", "kill", "waitChild"}
  OpsOfA = {"create", "proceed", "waitDeath", "waitSignal", "waitState"}
  OpsOfB = {"exit", "signal", "signalP", "erase", "station"}
  Ops <- MCOps
  Usage = {"dieSignalled", "dieAfterSignalP"}
  States = {0}
  Horizon = 1
  MaxChain = 2
  MaxCalls = 2
INVARIANTS
  LivingWait
  DeathMeansGone
  EarliestWins
PROPERTIES
  PriorityGoesNext
CHECK_DEADLOCK FALSE
