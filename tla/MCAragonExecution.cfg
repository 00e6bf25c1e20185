SPECIFICATION FairSpec
CONSTANTS
    ChainOf <- MCChainOf
    Proposals = {1}
    MaxLog = 3
    Batch = 3
    DlqThreshold = 2
    MaxFaults = 0
    MaxOps = 0
INVARIANTS
    ExecutionIsShown
CHECK_DEADLOCK FALSE
