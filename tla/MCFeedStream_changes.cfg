SPECIFICATION Spec
CONSTANTS
    Users = {u1}
    Posts = {p1}
    Tasks = {k1}
    Slots = {t1, t2}
    NoItem = NoItem
    Idle = Idle
    MaxVersion = 2
    MaxRequests = 3
INVARIANTS
    HeadsHold
PROPERTIES
    CursorOnlyAdvances
    StarsSurviveChanges
    PostVersionsUnread
SYMMETRY Symmetry
CHECK_DEADLOCK FALSE
