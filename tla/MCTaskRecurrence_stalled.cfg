SPECIFICATION FairSpec
CONSTANTS
    LastDay = 4
    Steps = {1}
    Maxima = {3}
    Lead = 0
    MaxAttempts = 2
    Slots = {s1}
    Idle = Idle
    Faults = FALSE
    MaxRequests = 2
    MaxClosings = 0
    MaxCrashes = 0
PROPERTIES
    EachOccurrence
CHECK_DEADLOCK FALSE
