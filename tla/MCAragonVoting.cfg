SPECIFICATION FairSpec
CONSTANTS
    ChainOf <- MCChainOf
    Proposals = {1}
    MaxLog = 4
    Batch = 3
    DlqThreshold = 2
    MaxFaults = 2
    MaxOps = 1
INVARIANTS
    CurrentIsNewest
    DerivedVoteIsWritten
    TallyAtAnyTime
PROPERTIES
    Settles
CHECK_DEADLOCK FALSE
