SPECIFICATION Spec
CONSTANTS
  None = None
  Procs = {1, 2, 3}
  Root = 1
  Det = FALSE
  TimeLimit = 1
  Horizon = 1
  MaxHolders = 1
  Chains = {{"timer"}, {"proc"}, {"timer", "kernel"}}
INVARIANTS
  TypeOK
  QueueOrdered
PROPERTIES
  SweepLeavesOnlyHolders
  SweepEnds
CHECK_DEADLOCK FALSE
