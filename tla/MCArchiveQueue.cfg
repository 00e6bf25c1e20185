SPECIFICATION FairSpec

CONSTANTS
    garbled = garbled
    late = late
    Logs <- MCLogs
    Undecodable <- MCUndecodable
    Mapped <- MCMapped
    RetryLimit = 1
    MaxOps = 1
    MaxFaults = 2

INVARIANTS
    NothingVanishes
    RowHasContent

PROPERTIES
    QueuesDrain

CHECK_DEADLOCK FALSE
