SPECIFICATION Spec
CONSTANTS
    LastDay = 3
    Steps = {1}
    Maxima = {2, 3}
    Lead = 1
    MaxAttempts = 2
    Slots = {s1, s2}
    Idle = Idle
    Faults = TRUE
    MaxRequests = 2
    MaxClosings = 1
    MaxCrashes = 1
SYMMETRY Symmetry
INVARIANTS
    SeriesHolds
PROPERTIES
    OccurrencesWanted
CHECK_DEADLOCK FALSE
