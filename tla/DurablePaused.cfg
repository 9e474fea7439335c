\* a pause hides the checkpoints after it
CONSTANTS
  Flows <- MCFlows
  HandlerOutcomes <- MCPausing
  Tears = FALSE
  MaxInterrupts = 0
  MaxCalls = 3
  None = None
SPECIFICATION Spec
INVARIANTS PriorProgressRespected
CHECK_DEADLOCK FALSE
