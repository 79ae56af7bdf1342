CONSTANTS
    h1 = h1
    h2 = h2
    low = low
    high = high
    Free = Free
    Torn = Torn
    NoBaseline = NoBaseline
    Absent = Absent
    Helpers <- const_Helpers
    Value <- const_Value
    Rounded <- const_Identity
    BootSetting <- const_Boot
    Policies = {1, 2}
    Boost = {3}
    Gpus = {}
    Fixed = {}
    Disturbances = {"writes"}
SPECIFICATION Spec
SYMMETRY Symmetry
INVARIANTS TypeOK
PROPERTIES AppliedIsInEffect ImplementsPromise
