CONSTANTS
    Actions = {a1}
    Refresh = Refresh
    Rollback = Rollback
SPECIFICATION FairSpec
INVARIANTS TypeOK PageCurrent
PROPERTIES HotIsRestored RefreshEnds
