---------------------------- MODULE MCConversations ----------------------------
(* A chat thread, the opening of threads, the window and the list of threads  *)
(* in a browser, a post of the feed and the reading of the feed.  They are    *)
(* checked one at a time in one run: a behaviour belongs to the component in  *)
(* focus, and so do the variables x1 .. x18 in it.                            *)
EXTENDS Integers, FiniteSets, TLC

CONSTANTS Creator, Others, Admins, Slots, Idle,
          PostKeys, Names,  \* Idempotency-Key values of posts, and of openings
          Requests, Legacy, Pair, Sources,
          \* bounds, per component
          ThreadLimit, ThreadMessages, ThreadRequests, PostRequests, PostMoves,
          PageLimit, PageScan, Cutover, Places, ReadingMoves, ReadingAsked,
          Grouped, InboxLimit, InboxThreads, InboxPosts, InboxMoves,
          WindowOld, WindowSize, WindowFound, WindowMessages, WindowAttempts,
          WindowVersions, WindowTroubles

VARIABLES focus, x1, x2, x3, x4, x5, x6, x7, x8, x9, x10, x11, x12, x13, x14, x15, x16, x17, x18

from9  == <<x9, x10, x11, x12, x13, x14, x15, x16, x17, x18>>
from12 == <<x12, x13, x14, x15, x16, x17, x18>>
from15 == <<x15, x16, x17, x18>>
from16 == <<x16, x17, x18>>
vars   == <<focus, x1, x2, x3, x4, x5, x6, x7, x8, from9>>

Zero16 == x16 = 0 /\ x17 = 0 /\ x18 = 0
Zero15 == x15 = 0 /\ Zero16
Zero12 == x12 = 0 /\ x13 = 0 /\ x14 = 0 /\ Zero15
Zero9  == x9 = 0 /\ x10 = 0 /\ x11 = 0 /\ Zero12

People   == Others \cup {Creator}
Everyone == People \cup Admins
OnePair  == [t \in Legacy |-> Others]  \* a value of Pair

Thread == INSTANCE ChatThread WITH
    Users <- Everyone, Founders <- People, Keys <- PostKeys,
    Limit <- ThreadLimit, MaxMessages <- ThreadMessages, MaxRequests <- ThreadRequests,
    membership <- x1, role <- x2, mode <- x3, lastRead <- x4, rowVersion <- x5, count <- x6,
    author <- x7, keyOf <- x8, replyTo <- x9, deleted <- x10, msgVersion <- x11, notified <- x12,
    threadVersion <- x13, events <- x14, req <- x15, started <- x16, serial <- x17
Opening == INSTANCE ThreadOpening WITH
    Users <- People, Keys <- Names, Founders <- Others,
    kind <- x1, keyed <- x2, joined <- x3, oldest <- x4, idem <- x5, group <- x6, pc <- x7, req <- x8
Window == INSTANCE ChatWindow WITH
    Old <- WindowOld, Size <- WindowSize, Found <- WindowFound, MaxMessages <- WindowMessages,
    MaxAttempts <- WindowAttempts, MaxVersion <- WindowVersions, MaxTroubles <- WindowTroubles,
    count <- x1, ver <- x2, mine <- x3, made <- x4, asked <- x5, pages <- x6, view <- x7,
    sending <- x8, attempt <- x9, bus <- x10, replies <- x11, load <- x12, connected <- x13,
    odd <- x14, failed <- x15, troubles <- x16, opening <- x17
Inbox == INSTANCE ChatInbox WITH
    MaxThreads <- InboxThreads, MaxPosts <- InboxPosts, MaxMoves <- InboxMoves, Limit <- InboxLimit,
    threads <- x1, clock <- x2, last <- x3, posts <- x4, marker <- x5, inside <- x6, member <- x7,
    list <- x8, next <- x9, filter <- x10, counts <- x11, calm <- x12, pushed <- x13, moves <- x14
Post == INSTANCE FeedPost WITH
    Users <- People, Author <- Creator, MaxRequests <- PostRequests, MaxMoves <- PostMoves,
    post <- x1, named <- x2, group <- x3, groupOpen <- x4, active <- x5, wanted <- x6, acked <- x7,
    like <- x8, likes <- x9, mode <- x10, bell <- x11, comments <- x12, card <- x13, draft <- x14,
    lost <- x15, req <- x16, started <- x17, moves <- x18
Reading == INSTANCE FeedReading WITH
    Limit <- PageLimit, Scan <- PageScan, MaxPlace <- Places, MaxMoves <- ReadingMoves, MaxAsked <- ReadingAsked,
    head <- x1, counts <- x2, row <- x3, shown <- x4, cursor <- x5, clock <- x6, walk <- x7,
    marker <- x8, sent <- x9, calm <- x10, moves <- x11, past <- x12, seed <- x13,
    asked <- x14, heard <- x15

ASSUME ThreadAssumption == Thread!Wellformed
ASSUME OpeningAssumption == Opening!Wellformed
ASSUME PagesAssumption ==
    /\ IsFiniteSet(Sources) /\ {PageLimit, PageScan} \subseteq Nat \ {0}
    /\ Cutover \in Nat /\ Places \in Nat /\ Cutover <= Places
ASSUME WindowAssumption == Window!Wellformed
ASSUME InboxAssumption ==
    /\ {InboxThreads, InboxLimit} \subseteq Nat \ {0} /\ {InboxPosts, InboxMoves} \subseteq Nat
    /\ Grouped \subseteq 1 .. InboxThreads

Init ==
    \/ focus = "thread" /\ Thread!Init /\ x18 = 0
    \/ focus = "opening" /\ Opening!Init /\ Zero9
    \/ focus = "window" /\ Window!Init /\ x18 = 0
    \/ focus = "inbox" /\ Inbox!Init /\ Zero15
    \/ focus \in {"text", "talk"} /\ Post!Init
    \/ focus = "reading" /\ Reading!Init /\ Zero16

Next ==
    /\ UNCHANGED focus
    /\ \/ focus = "thread" /\ Thread!Next /\ UNCHANGED x18
       \/ focus = "opening" /\ Opening!Next /\ UNCHANGED from9
       \/ focus = "window" /\ Window!Next /\ UNCHANGED x18
       \/ focus = "inbox" /\ Inbox!Next /\ UNCHANGED from15
       \/ focus = "text" /\ Post!TextNext
       \/ focus = "talk" /\ Post!TalkNext /\ ~x1'.needs
       \/ focus = "reading" /\ Reading!Next /\ UNCHANGED from16

Spec == Init /\ [][Next]_vars

TypesOK ==
    /\ focus = "thread" => Thread!TypeOK
    /\ focus = "opening" => Opening!TypeOK
    /\ focus = "window" => Window!TypeOK
    /\ focus = "inbox" => Inbox!TypeOK
    /\ focus \in {"text", "talk"} => Post!TypeOK
    /\ focus = "reading" => Reading!TypeOK

\* The owners and the size of a thread, its versions and its keys.
ThreadHolds ==
    focus = "thread" => Thread!GroupShape /\ Thread!OneEventPerVersion /\ Thread!OnePostPerKey

\* Overlapping requests to open a thread meet in one.
OpeningsMeet ==
    focus = "opening" => /\ Opening!OneDirectPerPair /\ Opening!OneGroupPerKey
                         /\ Opening!AnswersFit /\ Opening!DirectRefusedForKeyOnly

\* A window at rest shows the thread, and a message is sent once.
WindowExact == focus = "window" => Window!WindowExact /\ Window!OneMessagePerAttempt

\* Scrolling the list of threads, and the counts over it.
InboxExact == focus = "inbox" => Inbox!ListWalkedOnce /\ Inbox!CountsMatchList

\* Acknowledgements, likes and edits of a post that cross.
PostHonest ==
    focus \in {"text", "talk"} => Post!AcksHonest /\ Post!EachToggleCounts /\ Post!NoLostEdit

\* Scrolling the feed, and what is unread after it.
ReadingExact == focus = "reading" => Reading!WalkOnce /\ Reading!ReadClears

\* What no step of a thread does: change a deleted message, move a cursor back,
\* notify anyone but the willing.
\* What no step of the feed does: notify who does not want it of a comment, make
\* imported history unread, or take the read cursor back, unless a marker crosses
\* the importer.
ConversationSteps ==
    [][/\ focus = "thread" => /\ Thread!DeletedIsFinal /\ Thread!CursorAdvancesAlone
                              /\ Thread!NotifiesTheWilling
       /\ focus \in {"text", "talk"} => Post!OnlyWillingNotified
       /\ focus = "reading" => Reading!HistoryIsSilent]_vars

Symmetry == Permutations(Others)
=============================================================================
