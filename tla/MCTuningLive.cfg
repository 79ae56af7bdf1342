CONSTANTS
    h1 = h1
    h2 = h2
    low = low
    high = high
    Free = Free
    Torn = Torn
    NoBaseline = NoBaseline
    Absent = Absent
    Helpers <- const_Helpers
    Value <- const_Value
    Rounded <- const_Identity
    BootSetting <- const_Boot
    Policies = {1}
    Boost = {3}
    Gpus = {}
    Fixed = {}
    Disturbances = {"reboot", "reads", "writes"}
SPECIFICATION FairSpec
PROPERTIES RequestAnswered
