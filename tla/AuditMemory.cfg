\* overlapping flushes over the in-memory store, faults possible
CONSTANTS
  e1 = e1  e2 = e2  e3 = e3
  w1 = w1  w2 = w2
  b1 = b1  b2 = b2  b3 = b3
  Workspaces <- MCWorkspaces
  Events <- MCEvents
  WorkspaceOf <- MCWorkspaceOf
  Batches <- MCBatches
  Genesis = Genesis
  None = None
  MaxEventsPerBatch = 2
  Store = "memory"
  Faults = TRUE
SPECIFICATION FairSpec
INVARIANTS TypeOK ChainVerifies LostToAWinner
PROPERTIES FlushesSettle
CHECK_DEADLOCK FALSE
