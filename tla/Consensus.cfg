CONSTANTS
  Circle = 3
  RoundNodes <- MCRoundNodes
  MaxRounds = 2
  Silent = Silent
SPECIFICATION Spec
\* the handler has returned
CHECK_DEADLOCK FALSE
INVARIANT ConsensusIsShared
