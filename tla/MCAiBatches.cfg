SPECIFICATION AiFairSpec

CONSTANTS
    Proposals <- MCProposals
    Live <- MCLive
    PageSize = 1
    Cap = 2
    JobRetryLimit = 0
    Handles = {1, 2, 3}
    MaxFailures = 1

INVARIANTS
    WalkedIsSettled

PROPERTIES
    EachSettles

CHECK_DEADLOCK FALSE
