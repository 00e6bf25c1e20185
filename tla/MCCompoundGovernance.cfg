SPECIFICATION FairSpec
CONSTANTS
    ChainOf <- MCChainOf
    Proposals = {1}
    MaxLog = 4
    Batch = 3
    DlqThreshold = 2
    MaxFaults = 3
INVARIANTS
    ShownWasTrue
    InOrderIsKept
PROPERTIES
    EndsAreFinal
    EndsAreShown
CHECK_DEADLOCK FALSE
