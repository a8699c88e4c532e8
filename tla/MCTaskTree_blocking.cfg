SPECIFICATION Spec
CONSTANTS
    Tasks = {a, b, c}
    Existing = {a, b}
    Scopes = {g1}
    Slots = {s1}
    NoTask = NoTask
    Idle = Idle
    MaxRequests = 3
INVARIANTS
    NoBlockingCycle
CHECK_DEADLOCK FALSE
