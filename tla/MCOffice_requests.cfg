SPECIFICATION Spec
CONSTANTS
    Owner = u1
    Others = {u2, u3}
    Asks = {a1, a2}
    Events = {e1, e2}
    Keys = {k1, k2}
    Bodies = {b1, b2}
    Items = {i1, i2, i3}
    NoUser = NoUser
    Slots = {q1, q2}
    Idle = Idle
    Data = data
    Map = map
    SigningKeys = {n1, n2}
    Trusted = {n1}
    C1 = C1
    C2 = C2
    Root1 = Root1
    Root2 = Root2
    Runs = {t1, t2}
    Nobody = Nobody
    DocumentRequests = 4
    AnnouncementRequests = 3
    AnnouncementCuts = 1
    GroupRequests = 4
    CalendarRequests = 4
    WorkRequests = 3
    WorkMoves = 1
    WorkCuts = 1
    ImportChanges = 2
    ImportStops = 1
SYMMETRY Symmetry
INVARIANTS
    DocumentsAgree
    NotBeforeItsTime
    GroupHolds
    OneEventPerKey
    PeopleFit
    OwnWorkFits
    DatasetsHold
PROPERTIES
    OfficeSteps
CHECK_DEADLOCK FALSE
