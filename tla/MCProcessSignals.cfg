SPECIFICATION Spec
CONSTANTS
  Kernel = Kernel
  Timer = Timer
  None = None
  spec1 = spec1
  root = root
  procA = procA
  procB = procB
  Procs = {root, procA, procB}
  Root = root
  System = "s0"
  OnSystem = {root}
  Owner <- MCOwner
  Specs = {spec1}
  OpsOfRoot = {"create", "waitTimer", "signal"}
  OpsOfA = {"waitSignal", "erase", "unwait", "waitTimer"}
  OpsOfB = {"waitSignal", "waitClear", "signal", "signalP", "waitStall"}
  Ops <- MCOps
  Usage = {"signalAndClear"}
  States = {0}
  Horizon = 1
  MaxChain = 2
  MaxCalls = 2
INVARIANTS
  TypeOK
  NoLostWakeup
  TimerOnTime
PROPERTIES
  SignalFromItsRepository
  TimeAdvances
CHECK_DEADLOCK FALSE
