SPECIFICATION FairSpec
CONSTANTS
  l1 = l1
  l2 = l2
  l3 = l3
  Logs <- MCLogs
  BlockOf <- MCBlockOf
  ForkOf <- MCForkOf
  Malformed = {}
  Scope <- MCLogs
  Undecodable = {}
  InitCursors <- MCInitCursors
  FromBlocks = {}
  ToBlocks = {}
  ActiveFrom = 0
  HeadLag = 0
  InitTip = 1
  MaxTip = 4
  MaxSpan = 2
  MaxChunks = 1
  ChunkSize = 2
  PruneMargin = 4
  MaxFaults = 2
  MaxFailures = 1
INVARIANTS
  CoveredBelowCursor
PROPERTIES
  HistoryAndLiveIngested
CHECK_DEADLOCK FALSE
