\* interrupted, failing and pausing calls over a file that may tear
CONSTANTS
  Flows <- MCFlows
  HandlerOutcomes <- MCOutcomes
  Tears = TRUE
  MaxInterrupts = 2
  MaxCalls = 3
  None = None
SPECIFICATION Spec
INVARIANTS TypeOK RepeatsAreBounded NothingLeftBehind
PROPERTIES ImplementsFlowProgress ReplayOnlyGrows
CHECK_DEADLOCK FALSE
