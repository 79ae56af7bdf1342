CONSTANTS
    None = None
    Pages = {"overview", "issues", "events", "performance", "boots"}
    MaxTime = 2
    MaxChanges = 2
    MaxInputs = 2
SPECIFICATION FairSpec
INVARIANTS TypeOK ShownAsAsked
PROPERTIES NeverOlder Settles
CHECK_DEADLOCK FALSE
