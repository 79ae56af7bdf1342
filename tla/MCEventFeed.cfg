CONSTANTS
    None = None
    PageSize = 2
    BurstSpan = 1
    MaxTime = 3
    MaxEvidence = 3
SPECIFICATION Spec
INVARIANTS TypeOK FeedComplete EndIsTheEnd BurstsFaithful
