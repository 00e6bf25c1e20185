SPECIFICATION FairSpec

CONSTANTS
    edited = edited
    unmapped = unmapped
    Items <- MCItems
    Unmapped <- MCUnmapped
    Edits <- MCEdits
    RetryLimit = 1
    MaxResends = 1
    MaxFaults = 2
    Threshold = 2

INVARIANTS
    DerivedShowsArchive
    RowIsArchived

PROPERTIES
    CalmOlderEditIsNoOp
    QueueDrains
    RowsAreDerived

CHECK_DEADLOCK FALSE
