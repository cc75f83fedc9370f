SPECIFICATION Spec
CONSTANTS
  None = None
  Procs = {1, 2, 3}
  Root = 1
  Det = FALSE
  TimeLimit = 1
  Horizon = 1
  MaxHolders = 2
  Chains = {{"timer"}, {"kernel"}, {"timer", "kernel"}}
PROPERTIES
  SweepEnds
CHECK_DEADLOCK FALSE
