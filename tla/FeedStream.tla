----------------------------- MODULE FeedStream -----------------------------
(***************************************************************************)
(* The feed of one company: immutable items of versioned sources, the head *)
(* (current item) of each source, the users' favourites and read cursors.  *)
(* feed/feed.service.ts, feed/feed-projection.service.ts, and the task     *)
(* projection of jobs/jobs.service.ts.                                     *)
(*                                                                         *)
(* A post, and some operations on a task, write their item in the          *)
(* transaction that makes the change.  Other operations on a task only     *)
(* leave an event: a job projects it later, after a newer item perhaps,    *)
(* and stamps it with the time the task was last changed when the job read *)
(* it.  Creating a task does both.  Handlers read, and write in a later    *)
(* transaction; a request slot holds what was read.                        *)
(*                                                                         *)
(* Items are ordered by (occurredAt, id).  Ids are random, so a new item   *)
(* takes any free rank among those of the same time.                       *)
(*                                                                         *)
(* Users come and go: home holds those that are active and of this         *)
(* company.  A global administrator, who reads every company's feed, is    *)
(* never among them, nor is who was deactivated or moved elsewhere.        *)
(*                                                                         *)
(* Left out: who may see what (every user sees every source), payloads,    *)
(* events, announcements and file shares, and the silent items of imported *)
(* history.                                                                *)
(***************************************************************************)
EXTENDS Integers, FiniteSets

CONSTANTS
    Users, Posts, Tasks,
    Slots,        \* requests being served at the same time
    NoItem, Idle, \* no head yet; nothing in a slot or in the worker's hands
    MaxVersion,   \* bound on the versions of a source
    MaxRequests   \* bound on started requests

ASSUME ConstantsAssumption ==
    /\ Posts \cap Tasks = {}
    /\ NoItem \notin [src : Posts \cup Tasks, ver : Nat, byJob : BOOLEAN, at : Nat, rank : Int]
    /\ MaxVersion \in Nat \ {0} /\ MaxRequests \in Nat

VARIABLES
    version,    \* FeedPost.version, Task.version; 0 before it exists
    archived,   \* posts no longer PUBLISHED
    changedAt,  \* Task.updatedAt
    events,     \* the task versions some outbox event asks to project
    clock,      \* the time; every reading of it is later than the one before
    items,      \* the FeedItem rows
    head,       \* FeedSourceHead: the current item of a source
    favourites, \* FeedUserItemState: the items each user has starred
    cursor,     \* FeedReadCursor: a position for each user
    job,        \* the projection the worker is carrying out
    req,        \* per slot, the request between its reads and its writes
    started,    \* requests started, bounded by MaxRequests
    home,       \* the users that are active and of this company
    serial      \* requests do not overlap in this behaviour

sources == <<version, archived, changedAt, events>>
feed    == <<items, head, favourites>>
vars    == <<sources, clock, feed, cursor, job, req, started, home, serial>>

Sources == Posts \cup Tasks
Of(s) == {i \in items : i.src = s}

Before(p, q) == p.at < q.at \/ (p.at = q.at /\ p.rank < q.rank)
Origin == [at |-> 0, rank |-> 0]
Place(i) == [at |-> i.at, rank |-> i.rank]

Init ==
    /\ version = [s \in Sources |-> 0]
    /\ archived = {}
    /\ changedAt = [s \in Sources |-> 0]
    /\ events = {}
    /\ clock = 0
    /\ items = {}
    /\ head = [s \in Sources |-> NoItem]
    /\ favourites = [u \in Users |-> {}]
    /\ cursor = [u \in Users |-> Origin]
    /\ job = Idle
    /\ req = [t \in Slots |-> Idle]
    /\ started = 0 /\ home = Users /\ serial \in BOOLEAN

-----------------------------------------------------------------------------
(* Writing an item: the row, the head and the favourites, in whatever      *)
(* transaction the caller is in.  Definitions named M_ are deliberate      *)
(* mistakes: no action uses them, they stand in for the definition after   *)
(* them to show what a property catches.                                   *)

FreshPlace(i) == \A j \in items : Place(j) # Place(i)

M_MovedNot(s, i)  == favourites
M_MovedLost(s, i) == [u \in Users |-> favourites[u] \ Of(s)]

\* A user may have starred several items of the source: one star remains, to an
\* active user of this company; anyone else's goes with the rows that are deleted.
Moved(s, i) ==
    [u \in Users |-> IF favourites[u] \cap Of(s) = {} THEN favourites[u]
                     ELSE (favourites[u] \ Of(s)) \cup {j \in {i} : u \in home}]

M_AdvancesByTime(i) == head[i.src] = NoItem \/ Before(head[i.src], i)

\* advanceFeedSourceHead: only a newer version, or a later item of the same
\* version, becomes the head.
Advances(i) ==
    LET h == head[i.src]
    IN  h = NoItem \/ i.ver > h.ver \/ (i.ver = h.ver /\ Before(h, i))

\* Only items of the same task can have the same time, MaxVersion + 1 at most.
\* For a post one choice is enough, the one that helps it least.
Ranks(s) == IF s \in Posts THEN {MaxVersion - version[s]} ELSE 1..MaxVersion + 1

\* The event key of an item is made of its source, version and action, which
\* a transaction (FALSE) and a job (TRUE) name differently.
WriteItem(s, v, byJob, time) ==
    \E r \in Ranks(s) :
        LET i == [src |-> s, ver |-> v, byJob |-> byJob, at |-> time, rank |-> r]
        IN  /\ FreshPlace(i)
            /\ items' = items \cup {i}
            /\ head' = IF Advances(i) THEN [head EXCEPT ![s] = i] ELSE head
            /\ favourites' = Moved(s, i)

-----------------------------------------------------------------------------
(* Posts.                                                                  *)

Free(t) ==
    /\ started < MaxRequests
    /\ req[t] = Idle /\ t = CHOOSE o \in Slots : req[o] = Idle \* slots are alike
    /\ serial => \A o \in Slots : req[o] = Idle

Start(t, r) ==
    /\ started' = started + 1
    /\ req' = [req EXCEPT ![t] = r]
    /\ UNCHANGED <<sources, feed, cursor, job>>

Done(t) == req' = [req EXCEPT ![t] = Idle] /\ UNCHANGED started

M_BeginPostKeepsTime(t, s, op) ==
    /\ s \notin archived
    /\ IF op = "create" THEN version[s] = 0 ELSE version[s] > 0
    /\ version[s] < MaxVersion
    /\ clock' = clock + 1
    /\ Start(t, [op |-> op, src |-> s, seen |-> version[s],
                 at |-> IF op = "create" THEN clock + 1 ELSE head[s].at])

\* create, update and archive take the time before their transaction begins.
BeginPost(t, s, op) ==
    /\ s \notin archived
    /\ IF op = "create" THEN version[s] = 0 ELSE version[s] > 0
    /\ version[s] < MaxVersion
    /\ clock' = clock + 1
    /\ Start(t, [op |-> op, src |-> s, seen |-> version[s], at |-> clock + 1])

Current(r) == version[r.src] = r.seen /\ r.src \notin archived

CommitPost(t) ==
    LET r == req[t]
    IN  /\ r # Idle /\ r.op \in {"create", "update", "archive"}
        /\ Current(r)
        /\ version' = [version EXCEPT ![r.src] = r.seen + 1]
        /\ archived' = IF r.op = "archive" THEN archived \cup {r.src} ELSE archived
        /\ WriteItem(r.src, r.seen + 1, FALSE, r.at)
        /\ Done(t)
        /\ UNCHANGED <<changedAt, events, clock, cursor, job>>

\* Somebody else changed the post meanwhile.
RefusePost(t) ==
    LET r == req[t]
    IN  /\ r # Idle /\ r.op \in {"create", "update", "archive"}
        /\ ~Current(r)
        /\ Done(t)
        /\ UNCHANGED <<sources, clock, feed, cursor, job>>

-----------------------------------------------------------------------------
(* Tasks.                                                                  *)

NextVersion(s) ==
    /\ version[s] < MaxVersion
    /\ version' = [version EXCEPT ![s] = @ + 1]
    /\ clock' = clock + 1
    /\ changedAt' = [changedAt EXCEPT ![s] = clock + 1]
    /\ UNCHANGED <<archived, cursor, job, req, started>>

LeaveEvent(s) == events' = events \cup {<<s, version[s] + 1>>}

\* create: the item ASSIGNED and the event task.created.
CreateTask(s) ==
    /\ version[s] = 0
    /\ NextVersion(s)
    /\ WriteItem(s, 1, FALSE, clock + 1)
    /\ LeaveEvent(s)

\* update and archive, and an occurrence a recurrence creates: an event only.
UpdateTask(s) == NextVersion(s) /\ LeaveEvent(s) /\ UNCHANGED feed

\* A status, a participant, a new subtask: an item only (the worker does not
\* know the event that is written with it).
ActOnTask(s) ==
    /\ version[s] > 0
    /\ NextVersion(s)
    /\ WriteItem(s, version[s] + 1, FALSE, clock + 1)
    /\ UNCHANGED events

\* The checklist, the recurrence: neither.
TouchTask(s) == version[s] > 0 /\ NextVersion(s) /\ UNCHANGED <<feed, events>>

M_ReadTaskAhead(s, v) ==
    /\ job = Idle
    /\ <<s, v>> \in events
    /\ job' = [src |-> s, ver |-> v, at |-> clock + 1]
    /\ UNCHANGED <<sources, clock, feed, cursor, req, started>>

\* projectTaskEvent reads the task as it is now for an event of any age:
\* attempts fail, leases run out and operators revive jobs.
ReadTask(s, v) ==
    /\ job = Idle
    /\ <<s, v>> \in events
    /\ job' = [src |-> s, ver |-> v, at |-> changedAt[s]]
    /\ UNCHANGED <<sources, clock, feed, cursor, req, started>>

Known(s, v) == \E i \in Of(s) : i.ver = v /\ i.byJob

\* The event key makes a repeated projection void.
WriteProjection ==
    /\ job # Idle
    /\ IF Known(job.src, job.ver) THEN UNCHANGED feed
       ELSE WriteItem(job.src, job.ver, TRUE, job.at)
    /\ job' = Idle
    /\ UNCHANGED <<sources, clock, cursor, req, started>>

-----------------------------------------------------------------------------
(* Users.                                                                  *)

Readable(s) == head[s] # NoItem /\ s \notin archived

\* setFavorite: the card's item, which must be a head, ...
BeginFavourite(t, u, s, on) ==
    /\ Readable(s)
    /\ Start(t, [op |-> "find", by |-> u, item |-> head[s], on |-> on])
    /\ UNCHANGED clock

\* ... then all items of its source, ...
ListItems(t) ==
    LET r == req[t]
    IN  /\ r # Idle /\ r.op = "find"
        /\ req' = [req EXCEPT ![t] = [op |-> "star", by |-> r.by, item |-> r.item,
                                      on |-> r.on, all |-> Of(r.item.src)]]
        /\ UNCHANGED <<sources, clock, feed, cursor, job, started>>

\* ... then the stars on those items are replaced by one on the card's.
CommitFavourite(t) ==
    LET r == req[t]
    IN  /\ r # Idle /\ r.op = "star"
        /\ favourites' = [favourites EXCEPT
              ![r.by] = (@ \ r.all) \cup (IF r.on THEN {r.item} ELSE {})]
        /\ Done(t)
        /\ UNCHANGED <<sources, clock, items, head, cursor, job>>

BeginRead(t, u, s) ==
    /\ Readable(s)
    /\ Start(t, [op |-> "read", by |-> u, item |-> head[s]])
    /\ UNCHANGED clock

M_FurtherAny(r) == TRUE
Further(r)      == Before(cursor[r.by], r.item)

\* The cursor is compared inside the transaction.
CommitRead(t) ==
    LET r == req[t]
    IN  /\ r # Idle /\ r.op = "read"
        /\ cursor' = IF Further(r) THEN [cursor EXCEPT ![r.by] = Place(r.item)] ELSE cursor
        /\ Done(t)
        /\ UNCHANGED <<sources, clock, feed, job>>

\* updateUser, deactivate: a user is active and of this company, or no longer is.
MoveUser(u) ==
    /\ started < MaxRequests
    /\ started' = started + 1
    /\ home' = IF u \in home THEN home \ {u} ELSE home \cup {u}
    /\ UNCHANGED <<sources, clock, feed, cursor, job, req>>

-----------------------------------------------------------------------------
Begin(t) ==
    \/ \E s \in Posts, op \in {"create", "update", "archive"} : BeginPost(t, s, op)
    \/ \E u \in Users, s \in Sources : BeginRead(t, u, s)
    \/ \E u \in Users, s \in Sources, on \in BOOLEAN : BeginFavourite(t, u, s, on)

Finish(t) == \/ CommitPost(t) \/ RefusePost(t) \/ ListItems(t)
             \/ CommitFavourite(t) \/ CommitRead(t)

ChangeTask(s) == CreateTask(s) \/ UpdateTask(s) \/ ActOnTask(s) \/ TouchTask(s)

Project == (\E s \in Tasks, v \in 1..MaxVersion : ReadTask(s, v)) \/ WriteProjection

Step == /\ \/ \E t \in Slots : (Free(t) /\ Begin(t)) \/ Finish(t)
           \/ \E s \in Tasks : ChangeTask(s)
           \/ Project
        /\ UNCHANGED home

Next == (Step \/ \E u \in Users : MoveUser(u)) /\ UNCHANGED serial

Spec == Init /\ [][Next]_vars

-----------------------------------------------------------------------------
(* Properties.                                                             *)

\* Every variable stays within its type.
TypeOK ==
    /\ version \in [Sources -> 0..MaxVersion]
    /\ archived \subseteq Posts
    /\ changedAt \in [Sources -> 0..clock]
    /\ events \subseteq Tasks \X (1..MaxVersion)
    /\ clock \in Nat
    /\ \A i \in items : i.src \in Sources /\ i.ver \in 1..version[i.src] /\ i.at \in 1..clock
    /\ head \in [Sources -> items \cup {NoItem}]
    /\ favourites \in [Users -> SUBSET items]
    /\ \A u \in Users : cursor[u].at \in 0..clock
    /\ started \in 0..MaxRequests /\ home \subseteq Users

\* The head of a source is its newest item, for a post the version the post has.
HeadIsNewest ==
    /\ \A i \in items : head[i.src] # NoItem /\ head[i.src].ver >= i.ver
    /\ \A s \in Posts : version[s] > 0 => head[s].ver = version[s]

\* An event appears in the feed once.
OneItemPerVersion ==
    \A i, j \in items :
        i.src = j.src /\ i.ver = j.ver /\ i.byJob = j.byJob => i = j

\* In whatever order, and however often, versions are projected, each appears
\* once and the newest one is the head.
FeedShape == HeadIsNewest /\ OneItemPerVersion

\* Reading requests may overlap and be answered late: a cursor only advances.
CursorOnlyAdvances == [][\A u \in Users : ~Before(cursor'[u], cursor[u])]_vars

\* A new version of a source never costs an active user of the company the star on
\* it; only the user takes it off.  (It does cost anyone else the star.)
StarsSurviveChanges ==
    [][items' # items =>
          \A u \in home, s \in Sources :
              favourites[u] \cap Of(s) # {} => favourites'[u] \cap Of(s)' # {}]_vars

\* A star on a post is on its current item and on no superseded one, as long as
\* requests do not overlap.  (setFavorite lists the items before it writes, and
\* a late projection of a task moves stars to an item that is not the head.)
PostStarsOnHeads ==
    serial => \A u \in Users : \A i \in favourites[u] :
                  i.src \in Posts => head[i.src] = i

\* Each version of a source is in the feed once, the newest is its head, and the
\* stars on a post are on its head.
HeadsHold == TypeOK /\ FeedShape /\ PostStarsOnHeads

\* A new version of a post is unread for everybody: it lies behind no cursor,
\* as long as requests do not overlap.  (Not so for tasks, whose items carry
\* the time of the last change to the task.)
PostVersionsUnread ==
    [][serial => \A s \in Posts, u \in Users :
                     head'[s] = head[s] \/ Before(cursor'[u], head'[s])]_vars
=============================================================================
