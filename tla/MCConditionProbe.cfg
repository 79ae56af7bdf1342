CONSTANTS
    Kinds = {"cpu", "level", "sensor", "counter", "unit", "kernel", "storage", "drive", "inventory"}
    MaxNeed = 3
    MaxWorld = 2
    MaxDowns = 2
    Unknown = Unknown
SPECIFICATION FairSpec
INVARIANTS TypeOK ClearedIsClosed
PROPERTIES PersistentIsOpen GoneIsClosed FailedScanResolvesNothing
