CONSTANTS
  Shards <- MCShards
  BaseName <- MCBaseName
  Jobs <- MCJobs
  ProviderOf <- MCProviderOf
  TaskResults <- MCTaskResults
  NotYet = NotYet
  Panel <- MCPanelAgents
  PanelNodes <- MCPanelNodes
  AgentResults <- MCAgentResults
  NoFigure = NoFigure
  Circle = 3
  RoundNodes <- MCRoundNodes
  MaxRounds = 2
  Silent = Silent
  MaxStarts = 2
  MaxRequests = 3
  Nobody = Nobody
  FlowLength = 3
  MaxTraces = 2
  RunIds = {r1, r2}
  TracedNodes = {n1}
  NodeEndings = {"ok", "error"}
  BatchSize = 2
  MaxExecutions = 2
  DebuggedRuns = {r1, r2}
  DebuggedNodes = {n1, n2}
  Callers = {c1, c2, c3}
  failureThreshold = 2
  resetAfter = 2
  halfOpenTarget = 2
  MaxTime = 6
  TaskIds = {t1, t2}
  Pickers = {"search", "palette"}
  EntryCount = 3
  GroupOf <- MCGroupOf
  GroupOrder <- MCGroupOrder
  Scores <- MCScores
  NoQuery = NoQuery
  MaxResults = 2
  AllGroups = AllGroups
  TraceIds = {t1, t2}
  NoTrace = NoTrace
  MaxSelections = 3
  MaxTicks = 1
  EventTypes = {"error.network"}
  KeysOf <- MCKeysOf
  PrefChoices <- MCPrefChoices
  MaxMemory = 2
  MaxPersist = 1
  MaxEventsIn = 3
  MaxReloads = 1
  MaxEvents = 2
  MaxFed = 4
  MaxQueued = 3
  Connections = {k1}
  MaxCallbacks = 2
  CronIds = {"fast", "slow"}
  Interval <- MCInterval
  MaxMinute = 4
  MaxWatchers = 3
SPECIFICATION Spec
\* a job is over, a handler has returned, a bound is reached
CHECK_DEADLOCK FALSE
INVARIANTS
  TypeOK
  WorktreesAreSound
  ReportIsWhole
  DecidesByItsRule
  EndsInTime
  RepliesReachTheirCaller
  TracesTellRuns
  ControlsAreObeyed
  DecisionStands
  EnterRunsTheChosen
  PanelShowsSelected
  StoredUnlessOvertaken
  FeedIsWhole
  DispatchesKeepTime
  BurstsAreQuiet
PROPERTIES
  CallsSettle
  ImplementsSpanDelivery
  CoolsDown
  MovesAreLegal
