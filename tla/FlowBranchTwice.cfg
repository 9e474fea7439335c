\* branches of branches
CONSTANTS
  Flows <- MCBranchFlows
  Calls <- MCBranchCalls
  EveryN = 1
  None = None
  MaxGeneration = 2
SPECIFICATION BranchSpec
INVARIANTS BranchPointReexecuted
CHECK_DEADLOCK FALSE
