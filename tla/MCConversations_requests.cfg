SPECIFICATION Spec
CONSTANTS
    Creator = u1
    Others = {u2, u3}
    Admins = {u4}
    Slots = {s1, s2}
    Idle = Idle
    PostKeys = {k1}
    Names = {n1, n2}
    Requests = {r1, r2, r3}
    Legacy = {old}
    Pair <- OnePair
    Sources = {o1, o2, o3}
    ThreadLimit = 3
    ThreadMessages = 2
    ThreadRequests = 5
    PostRequests = 3
    PostMoves = 1
    PageLimit = 1
    PageScan = 2
    Cutover = 2
    Places = 4
    ReadingMoves = 1
    ReadingAsked = 1
    Grouped = {1}
    InboxLimit = 1
    InboxThreads = 3
    InboxPosts = 2
    InboxMoves = 1
    WindowOld = 2
    WindowSize = 2
    WindowFound = {1}
    WindowMessages = 3
    WindowAttempts = 1
    WindowVersions = 2
    WindowTroubles = 1
SYMMETRY Symmetry
INVARIANTS
    TypesOK
    ThreadHolds
    OpeningsMeet
    WindowExact
    InboxExact
    PostHonest
    ReadingExact
PROPERTIES
    ConversationSteps
CHECK_DEADLOCK FALSE
