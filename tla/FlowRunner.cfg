\* every three-node flow, all kinds of calls
CONSTANTS
  Labels = {"success", "failure", "true", "always"}
  Flows <- MCAll
  Calls <- MCCalls
  EveryN = 2
  None = None
SPECIFICATION FairSpec
INVARIANTS
  TypeOK NothingLeftBehind RunsAsItTells SnapshotOfThePast
  AnalysesAreExact StopsWhereItGoesOn
PROPERTIES
  ImplementsFlowProgress Returns
CHECK_DEADLOCK FALSE
