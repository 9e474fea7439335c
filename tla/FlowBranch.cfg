\* branches of first runs
CONSTANTS
  Flows <- MCBranchFlows
  Calls <- MCBranchCalls
  EveryN = 1
  None = None
  MaxGeneration = 1
SPECIFICATION BranchSpec
INVARIANTS BranchPointReexecuted BranchGoesOn
CHECK_DEADLOCK FALSE
