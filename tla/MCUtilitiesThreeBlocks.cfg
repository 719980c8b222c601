SPECIFICATION Spec
CONSTANTS
  StackSize = 2
  Hypotheses <- VectorHypotheses
  Junk = Junk
  Workers <- PoolWorkers
  Clients <- PoolClients
  Main = "main"
  Callers <- PoolCallers
  QueueSize = 2
  NoValue = 0
  Poison = 9
  Requests <- PoolRequests
  Config <- ChainConfig
  Programs <- ChainPrograms
  Files <- ChainFiles
  Ragged <- RaggedFiles
  Newline = 9
  BlockCount = 3
  PerBlock = 2
  NewEntry = 9
  Arrivals <- StreamArrivals
INVARIANTS
  StreamInBlock
\* Each of them ends.
CHECK_DEADLOCK FALSE
