SPECIFICATION FairSpec
CONSTANTS
    ChainOf <- MCChainOf
    Proposals = {1}
    MaxLog = 7
    Batch = 2
    DlqThreshold = 1
    MaxFaults = 1
INVARIANTS
    StateIsFurthest
    PayloadIsFurthest
    VotedIsBound
    TitleOrLetter
PROPERTIES
    Stitched
CHECK_DEADLOCK FALSE
