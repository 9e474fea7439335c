\* failure edges of a failed node
CONSTANTS
  Labels = {"success", "failure"}
  Flows <- MCFlows
  Calls <- MCPlainCalls
  EveryN = 1
  None = None
SPECIFICATION Spec
INVARIANTS FailureEdgesFollowed
CHECK_DEADLOCK FALSE
