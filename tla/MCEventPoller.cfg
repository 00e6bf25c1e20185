SPECIFICATION PollerFairSpec
CONSTANTS
  l1 = l1
  l2 = l2
  l3 = l3
  l4 = l4
  l5 = l5
  bad = bad
  Logs <- MCLogs
  BlockOf <- MCBlockOf
  ForkOf <- MCForkOf
  Malformed <- MCMalformed
  InitCursors <- MCInitCursors
  HeadLag = 1
  InitTip = 2
  MaxTip = 5
  MaxSpan = 2
  MaxChunks = 2
  PruneMargin = 0
  MaxFaults = 2
INVARIANTS
  CursorCovered
PROPERTIES
  IsLogFeed
  ResentOnlyBelowHorizon
  CatchesUp
