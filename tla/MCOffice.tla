------------------------------- MODULE MCOffice -------------------------------
(* Documents, announcements, work groups, the calendar, the work on a task    *)
(* and import datasets are checked one at a time in one run: a behaviour      *)
(* belongs to the component in focus, and so do the variables x1 .. x16 and   *)
(* the request slots in it.                                                   *)
EXTENDS Integers, Sequences, FiniteSets, TLC

CONSTANTS Owner, Others, Asks, Events, Keys, Bodies, Items, NoUser, Slots, Idle,
          Data, Map, SigningKeys, Trusted, C1, C2, Root1, Root2, Runs, Nobody,
          \* bounds on requests, crashes and what others do, per component
          DocumentRequests, AnnouncementRequests, AnnouncementCuts, GroupRequests,
          CalendarRequests, WorkRequests, WorkMoves, WorkCuts, ImportChanges, ImportStops

VARIABLES focus, req, started, serial,
          x1, x2, x3, x4, x5, x6, x7, x8, x9, x10, x11, x12, x13, x14, x15, x16

from5 == <<x5, x6, x7, x8, x9, x10, x11, x12, x13, x14, x15, x16>>
from6 == <<x6, x7, x8, x9, x10, x11, x12, x13, x14, x15, x16>>
from7 == <<x7, x8, x9, x10, x11, x12, x13, x14, x15, x16>>
vars  == <<focus, req, started, serial, x1, x2, x3, x4, from5>>

Zero7 == /\ x7 = 0 /\ x8 = 0 /\ x9 = 0 /\ x10 = 0 /\ x11 = 0 /\ x12 = 0
         /\ x13 = 0 /\ x14 = 0 /\ x15 = 0 /\ x16 = 0
Zero6 == x6 = 0 /\ Zero7
Zero5 == x5 = 0 /\ Zero6

Users == Others \cup {Owner}

ASSUME ConstantsAssumption == NoUser \notin Users /\ NoUser \notin Events
ASSUME FiniteAssumption == IsFiniteSet(Others) /\ IsFiniteSet(Items)
ASSUME NobodyAssumption == Nobody \notin Runs
ASSUME IdleAssumption ==
    Idle \notin [op : {"mark"}, on : Users, x : [favorited : BOOLEAN, important : BOOLEAN], v : Nat]

Doc == INSTANCE DocumentShelf WITH MaxRequests <- DocumentRequests,
    doc <- x1, page <- x2, public <- x3, acl <- x4, near <- x5
Ann == INSTANCE AnnouncementDelivery WITH
    MaxRequests <- AnnouncementRequests, MaxCuts <- AnnouncementCuts,
    ann <- x1, due <- x2, audience <- x3, event <- x4, receipt <- x5, cuts <- x6
Grp == INSTANCE WorkGroups WITH MaxRequests <- GroupRequests,
    group <- x1, role <- x2, ask <- x3, admitted <- x4
Cal == INSTANCE CalendarBook WITH MaxRequests <- CalendarRequests, None <- NoUser,
    version <- x1, body <- x2, record <- x3, outbox <- x4, answers <- x5
Wrk == INSTANCE TaskWork WITH
    Creator <- Owner, MaxRequests <- WorkRequests, MaxMoves <- WorkMoves, MaxCuts <- WorkCuts,
    version <- x1, part <- x2, reporter <- x3, member <- x4, open <- x5, follows <- x6,
    reminder <- x7, told <- x8, gone <- x9, excused <- x10, pos <- x11, timer <- x12,
    mark <- x13, asked <- x14, moves <- x15, cuts <- x16

\* Company mappings: one root mapped, one left open, a code too many.
Roots       == {Root1, Root2}
To(c, code) == [kind |-> "MAP", id |-> c, code |-> code]
No(kind)    == [kind |-> kind, id |-> Nobody, code |-> 0]
Artifact(a, b) == [of |-> [k \in Roots |-> IF k = Root1 THEN a ELSE b], crossing |-> 0, version |-> 1,
                   approvals |-> {"PRODUCT", "SECURITY", "DATA"}]
Artifacts   == <<Artifact(To(C1, 1), No("NONE")), Artifact(To(C1, 1), No("QUARANTINE")),
                 Artifact(To(C1, 1), To(C1, 2))>>
Base(a, b, live) == [rows |-> [k \in Roots |-> IF k = Root1 THEN a ELSE b],
                     company |-> [c \in {C1, C2} |-> [code |-> IF c = C1 THEN 1 ELSE 2, live |-> live]]]
Paths       == {Data, Map}
Contents    == [f \in Paths |-> IF f = Map THEN 1 .. 3 ELSE {1, 2}]
Databases   == {Base(C1, Nobody, TRUE), Base(C1, Nobody, FALSE), Base(C1, C2, TRUE), Base(C2, C2, TRUE)}
Dataset == INSTANCE SnapshotSeal WITH
    Paths <- Paths, Required <- {Map}, Keys <- SigningKeys, Version <- 1,
    Bodies <- Contents, Mapping <- Artifacts,
    Databases <- Databases,
    MaxChanges <- ImportChanges, MaxStops <- ImportStops,
    disk <- x1, out <- x2, run <- x3, changes <- x4, stops <- x5

Init ==
    \/ focus = "import" /\ Dataset!Init /\ req = Idle /\ started = 0 /\ Zero6
    \/ focus = "documents" /\ Doc!Init /\ Zero6
    \/ focus = "announcements" /\ Ann!Init /\ Zero7
    \/ focus = "groups" /\ Grp!Init /\ Zero5
    \/ focus = "calendar" /\ Cal!Init /\ serial = FALSE /\ Zero6
    \/ focus \in {"people", "own"} /\ Wrk!Init

Next ==
    /\ UNCHANGED focus
    /\ \/ focus = "documents" /\ Doc!Next /\ UNCHANGED from6
       \/ focus = "announcements" /\ Ann!Next /\ UNCHANGED from7
       \/ focus = "groups" /\ Grp!Next /\ UNCHANGED from5
       \/ focus = "calendar" /\ Cal!Next /\ UNCHANGED <<serial, from6>>
       \/ focus = "import" /\ Dataset!Next /\ UNCHANGED <<req, started, from6>>
       \/ focus = "people" /\ Wrk!PeopleNext
       \/ focus = "own" /\ Wrk!OwnNext

Spec == Init /\ [][Next]_vars

OnTask == focus \in {"people", "own"}

\* The current version of a document, what is published and who finds it.
DocumentsAgree ==
    focus = "documents" => Doc!TypeOK /\ Doc!CurrentAgrees /\ Doc!LatestIsCurrent /\ Doc!SectionsFit

\* Nothing is announced before its time.
NotBeforeItsTime == focus = "announcements" => Ann!TypeOK /\ Ann!NotBeforeItsTime

\* Owners, members and requests to join a group.
GroupHolds == focus = "groups" => Grp!TypeOK /\ Grp!GroupHolds /\ Grp!DecidedOnce

\* Retries and overlapping changes of calendar events.
OneEventPerKey == focus = "calendar" => Cal!TypeOK /\ Cal!OneEventPerKey

\* Who answers for a task, who is reminded of it and who can open what is listed.
PeopleFit ==
    OnTask => Wrk!TypeOK /\ Wrk!ResponsibleKept /\ Wrk!RemovedNotReminded /\ Wrk!ListedIsReadable

\* The checklist, the timer and the marks of a task.
OwnWorkFits == OnTask => Wrk!ChecklistDense /\ Wrk!OneTimer /\ Wrk!MarksAsAsked

\* A dataset that was accepted is whole, and stays sealed.
DatasetsHold ==
    focus = "import" => /\ Dataset!TypeOK /\ Dataset!AcceptedIsWhole
                        /\ Dataset!SealKept /\ Dataset!MatchedIsSigned

\* What no step does: make a read announcement unread or, without overlap, bring one
\* back from the archive; send a reminder whose cancellation was answered; overwrite
\* a seal, or remove one that another run has made.
OfficeSteps ==
    [][/\ focus = "announcements" => Ann!ArchivedLast /\ Ann!ReadStays
       /\ OnTask => Wrk!CancelIsFinal
       /\ focus = "import" => Dataset!NeverOverwritten]_vars

Symmetry == Permutations(Others)
=============================================================================
