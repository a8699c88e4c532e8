SPECIFICATION Spec
CONSTANTS
    Files = {f1}
    Shares = {g1, g2}
    Comments = {c1, c2}
    Sessions = {s1, s2, s3}
    Users = {u1, u2, u3}
    Works = {w1}
    Approvals = {p1}
    Settings = {k2}
    NoUser = NoUser
    Rows = {r1, r2}
    Holds = {h1, h2}
    Holders = {a1, a2}
    Nowhere = Nowhere
    PurgeKeys = {k1}
    Slots = {q1, q2}
    Idle = Idle
    Me = Me
    Colleagues = {o1}
    Tasks = {t1}
    Projects = {j1}
    NoChoice = NoChoice
    Texts = {1}
    PurgeCuts = 1
    FileRequests = 5
    FileAttempts = 2
    FileCuts = 2
    AccountRequests = 4
    AccountActs = 2
    AdminRequests = 3
    SettingVersions = 1
    FormOpenings = 2
    FormSends = 2
    FormFaults = 1
    Boxes = {"comment"}
    Kept = {"reminder"}
    Closing = {"edit", "subtask"}
    Typed = {"deadline"}
    Fixed = {}
    Listed = {"assignee"}
    Values = {1, 2}
    Timed = {"deadline"}
    Initial = 2
    Minutes = {1}
    DrawerChanges = 1
    DrawerSends = 2
    DrawerTroubles = 1
SYMMETRY Symmetry
INVARIANTS
    TypesOK
    FilesKept
    SessionsEnd
    
    FormsHold
PROPERTIES
    HeldKept
    
CHECK_DEADLOCK FALSE
