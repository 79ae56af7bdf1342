CONSTANTS
    h1 = h1
    h2 = h2
    low = low
    high = high
    Free = Free
    Torn = Torn
    NoBaseline = NoBaseline
    Absent = Absent
    Helpers <- const_Helpers
    Value <- const_Value
    Rounded <- const_Rounding
    BootSetting <- const_Boot
    Policies = {1}
    Boost = {}
    Gpus = {2}
    Fixed = {}
    Disturbances = {"hotplug", "writes"}
SPECIFICATION Spec
SYMMETRY Symmetry
INVARIANTS Recoverable
PROPERTIES BaselineNeverReplaced BaselineGivenUpRestored
