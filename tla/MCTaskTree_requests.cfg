SPECIFICATION Spec
CONSTANTS
    Tasks = {a, b, c}
    Existing = {a, b}
    Scopes = {g1, g2}
    Slots = {s1, s2}
    NoTask = NoTask
    Idle = Idle
    MaxRequests = 4
SYMMETRY Symmetry
INVARIANTS
    TreeHolds
PROPERTIES
    DoneOverlooksMovedOnly
    SubtasksUnderOpenRoots
CHECK_DEADLOCK FALSE
