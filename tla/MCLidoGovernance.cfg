SPECIFICATION FairSpec
CONSTANTS
    ChainOf <- MCChainOf
    MaxLog = 5
    Batch = 5
    DlqThreshold = 2
    MaxFaults = 1
    Votes <- MCVotes
    MaxDg = 1
    MetaMissingSkip = 1
INVARIANTS
    UnifiedStateFollowsLedger
    DirectMeansNoVote
    VetoFollowsSubmission
    ExecutionReachesLedger
PROPERTIES
    SubmissionsSettle
CHECK_DEADLOCK FALSE
