CONSTANTS
    Kinds = {"unit"}
    MaxNeed = 1
    MaxWorld = 1
    MaxDowns = 0
    Unknown = Unknown
SPECIFICATION Spec
PROPERTIES NeverResolvedBlindly
