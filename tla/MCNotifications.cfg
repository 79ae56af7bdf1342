CONSTANTS
    cpu = cpu
    disk = disk
    oom = oom
    Probed <- const_Probed
    Logged <- const_Logged
    Seen = {"Notice", "Warning", "Critical"}
    Cooldown = 2
    Recent = 1
    Limit = 1
    NoTask = NoTask
    MaxTime = 2
    MaxLosses = 1
SPECIFICATION Spec
SYMMETRY Symmetry
CHECK_DEADLOCK FALSE
INVARIANTS TypeOK RateLimited NoRepeat
PROPERTIES HeldBackOnlyAfterDisplay
