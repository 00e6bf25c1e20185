SPECIFICATION DriverFairSpec
CONSTANTS
  l1 = l1
  l2 = l2
  l3 = l3
  l4 = l4
  undecodable = undecodable
  unscoped = unscoped
  Logs <- MCLogs
  BlockOf <- MCBlockOf
  ForkOf <- MCForkOf
  Scope <- MCScope
  Undecodable <- MCUndecodable
  ActiveFrom = 1
  FromBlocks <- StartGiven
  ToBlocks <- EndGiven
  ChunkSize = 2
  HeadLag = 1
  InitTip = 2
  MaxTip = 4
  MaxFailures = 1
INVARIANTS
  FloorContiguous
PROPERTIES
  CompletedMeansScanned
  CatchUpArchivesFinal
  HistoryCompletes
