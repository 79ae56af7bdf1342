CONSTANTS
    MaxRecords = 4
    MaxFaults = 1
    Storable <- const_Storable
    Oversized <- const_Oversized
    CheckpointRecords = 2
    RecordLimit = 3
    FollowBatch = 2
    BackfillAge = 2
    BackfillOverlap = 1
    FollowOverlap = 1
SPECIFICATION FairSpec
INVARIANTS TypeOK OffsetCovered BackfillProgressStored NoTransactionLeft
PROPERTIES EventuallyIngested
CHECK_DEADLOCK FALSE
